\* Two words of its own for the program, and room for the stub below.
SPECIFICATION Spec
CONSTANT Words = 13
INVARIANTS
  DispatchGetsArguments
PROPERTIES
  SyscallRestores
  BackOnlyByExit
\* A program that returns from its entry faults, and the machine halts.
CHECK_DEADLOCK FALSE
