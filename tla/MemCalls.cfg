\* An address space of 16 pages of four bytes, three mmap calls of less than a page up to all but a byte.
SPECIFICATION MemSpec
CONSTANTS
  U64 = 64
  PAGE = 4
  MMAP_START = 28
  BRK_START = 16
  Lengths = {0, 4, 9, 33, 60, 61, 63}
  Addresses = {0, 40}
  MaxRegions = 3
INVARIANTS
  RegionsDisjoint
  AddressesAreNotErrors
