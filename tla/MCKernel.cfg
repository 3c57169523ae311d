\* One usable descriptor, heap for two images, one mmap, two turns per interpreter.
SPECIFICATION Spec
CONSTANTS
  BootInfos <- BootInfoRecords
  Image <- SmallImage
  Elfs <- SmallElfs
  MAX_FDS = 4
  ISIZE_MAX = 4
  Paths <- SmallPaths
  Counts = {1, 24}
  Offsets = {3}
  NULL = NULL
  BADSTR = BADSTR
  Names = {"pie", "static", "none"}
  NotFound = NotFound
  Codes = {0}
  HEAP_SIZE = 4
  NATIVE_STACK = 1
  INTERP_STACK = 1
  MAX_NATIVE_MEM = 3
  MAX_INTERP_MEM = 3
  MAX_SEGMENTS = 16
  MAX_STEPS = 2
  U64 = 64
  PAGE = 4
  MMAP_START = 28
  BRK_START = 16
  Lengths = {12, 63}
  Addresses = {0}
  MaxRegions = 1
  StdinCounts = {1}
INVARIANTS
  OneDisk
  CleanAfterMount
PROPERTIES
  TableChangesOnlyByPrograms
