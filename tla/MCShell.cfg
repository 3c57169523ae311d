\* One letter key, lines of two characters, two scan codes in flight.
SPECIFICATION FairSpec
CONSTANTS
  Letters = {"a"}
  LINE_MAX = 2
  PORT_MAX = 2
  READ_MAX = 2
  Meaning <- SmallMeaning
  RAMDISK = TRUE
INVARIANTS
  TypeOK
  ScreenShowsLine
  ShiftKept
  ReadStopsAtEnter
PROPERTY
  EnterAnswered
CHECK_DEADLOCK FALSE
