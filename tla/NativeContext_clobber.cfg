SPECIFICATION Spec
CONSTANT Words = 12
PROPERTY ClobberList
CHECK_DEADLOCK FALSE
