\* Words of two bytes, an alignment of four, two segments at most.
SPECIFICATION Spec
CONSTANTS
  Files <- SmallFiles
  Args <- SmallArgs
  ADDR_MAX = 63
  EHDR = 2
  PHDR = 1
  WORD = 2
  ALIGN = 4
  STACK_SIZE <- SmallStack
  MAX_MEM <- SmallMem
  MAX_SEGMENTS = 2
  HeapBase = 5
  PAGE = 8
  PageTables <- SmallTables
INVARIANTS
  HeadersInsideFile
  ImageIntact
  StackReadsBack
  OutcomeIsAbstract
PROPERTY RegionExecutable
