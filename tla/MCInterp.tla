------------------------------ MODULE MCInterp -------------------------------
\* Registers that point into the memory, hold calls and lengths, or stand at
\* the edges of the signed and the unsigned range.
EXTENDS Interp, Bitwise

WordOr(v, w) == v | w
WordAnd(v, w) == v & w
SmallImm8 == {-2, 0, 1}
SmallImm32 == {-4, 5}
Filled(vals) == [r \in Regs |-> IF r \in DOMAIN vals THEN vals[r] ELSE 0]
SmallFills(b) ==
  {Filled([rax |-> 59, rcx |-> b + 3, rdx |-> b + 8, rbx |-> 77, rsp |-> b + 12, rbp |-> b + MemLen - 2,
           rsi |-> b + 4, rdi |-> b + 14, r8 |-> 2, r9 |-> b + 1, r12 |-> 6, r13 |-> b + 5]),
   Filled([rax |-> 0, rcx |-> 128, rdx |-> 3, rbx |-> 255, rsp |-> b + MemLen, rbp |-> 127,
           rsi |-> b + MemLen - 2]),
   Filled([rax |-> 1, rdx |-> 2, rbx |-> 126, rsp |-> 3, rbp |-> b + 1, rsi |-> b + MemLen - 2,
           rdi |-> 2, r8 |-> b, r9 |-> 1, r13 |-> 129]),
   Filled([rax |-> 39, rcx |-> 254, rdx |-> 254, rsp |-> b + 4, rbp |-> b + MemLen - 1, rdi |-> 231]),
   Filled([rax |-> 9, rsi |-> U64 - PAGE, rcx |-> 1, rsp |-> b + MemLen - 4]),
   Filled([rax |-> 9, rsi |-> U64 - PAGE + 1, rsp |-> b + MemLen - 4])}
\* Pointers to the string at 2 of a program loaded at 0, and a two-byte letter at 14.
SmallContents == {[k \in 0 .. MemLen - 1 |-> CASE k \in {0, 2} -> 1 [] k = 4 -> 2
                                               [] k \in {12, 14} -> 3 [] k = 15 -> 2 [] OTHER -> 0]}
SmallUtf8(s) ==
  /\ \A k \in DOMAIN s : s[k] = 3 => k + 1 \in DOMAIN s /\ s[k + 1] = 2
  /\ \A k \in DOMAIN s : s[k] = 2 => k - 1 \in DOMAIN s /\ s[k - 1] = 3
SmallTyped == {<<>>, <<2>>, <<3, 1>>, <<3, 3, 3>>}
=============================================================================
