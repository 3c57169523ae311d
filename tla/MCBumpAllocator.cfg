\* Two contexts over ten bytes; one or two calls of each fit, later ones do not.
SPECIFICATION FairSpec
CONSTANTS
  Ctx = {k, t}
  HEAP_START = 5
  HEAP_SIZE = 10
  USIZE_MAX = 20
  Layouts <- SmallLayouts
INVARIANTS
  TypeOK
PROPERTIES
  ImplementsHeap
  AllocTerminates
CHECK_DEADLOCK FALSE
