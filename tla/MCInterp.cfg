\* Bytes of two bits, u32 of two and u64 of four bytes; two instructions from
\* programs at the bottom, across the signed edge and at the top.
SPECIFICATION Spec
CONSTANTS
  BYTE = 4
  W32 = 2
  W64 = 4
  bit_or <- WordOr
  bit_and <- WordAnd
  Imm8 <- SmallImm8
  Imm32 <- SmallImm32
  Rms = {"rcx", "rbx", "rsp", "rbp", "rdi"}
  MemLen = 18
  Bases = {0, 116, 237}
  Fills <- SmallFills
  Contents <- SmallContents
  Starts = {8}
  Typed <- SmallTyped
  LF = 1
  CR = 2
  TMP = 2
  CSTR_MAX = 3
  VEC_MAX = 2
  utf8 <- SmallUtf8
  PAGE = 64
  Breaks = {1, 200}
  Counts = {4}
  PID = 3
  EBADF = 9
  EFAULT = 14
  ENOENT = 2
  ENOEXEC = 8
  Errors = {2, 9, 14, 38}
  Steps = 2
INVARIANTS
  ConsoleMatchesMemory
PROPERTY ImplementsX86
CHECK_DEADLOCK FALSE
