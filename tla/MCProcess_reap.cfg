\* What the repository says of wait4 after another program.
SPECIFICATION Spec
CONSTANTS
  Names <- DiskNames
  Programs <- SmallDisk
  NotFound = NotFound
  Codes <- SmallCodes
  HEAP_SIZE = 8
  NATIVE_STACK = 2
  INTERP_STACK = 1
  MAX_NATIVE_MEM = 3
  MAX_INTERP_MEM = 3
  MAX_SEGMENTS = 16
  MAX_STEPS = 3
  Executable = TRUE
INVARIANT
  WaitReapsLastExit
