\* Bytes of four bits: a table of four entries still has offsets of three digits.
SPECIFICATION Spec
CONSTANTS
  BYTE = 16
  MAGIC <- SmallMagic
  Catalog <- SmallCatalog
  Wrong = {0, 3, 15}
INVARIANTS
  RoundTrip
  CutIsAllOrNothing
  DamageIsContained
  ImplementsRootFs
\* Nothing is left to happen to an image with both kinds of damage.
CHECK_DEADLOCK FALSE
