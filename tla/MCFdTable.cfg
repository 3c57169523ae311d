\* Two usable slots (3 and 4), an image whose second entry does not decode.
SPECIFICATION FdSpec
CONSTANTS
  MAX_FDS = 5
  ISIZE_MAX = 4
  Image <- SmallImage
  Paths <- SmallPaths
  Counts = {1, 48}
  Offsets <- SmallOffsets
  NULL = NULL
  BADSTR = BADSTR
INVARIANTS
  FdTypeOK
  StdSlotsFree
  ReadInsideFile
  PathVerdictsNest
  ScanListsOpenable
PROPERTY
  ChangedOnlyByOwnCalls
