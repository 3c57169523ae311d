------------------------------ MODULE X86Forms -------------------------------
(***************************************************************************)
(* The numbers, the registers and the instruction forms the interpreter of *)
(* kernel/src/elf_runner.rs knows.  A byte takes BYTE values, a u32 is W32 *)
(* and a u64 W64 bytes, so that wrapping and sign are kept on small words. *)
(* A form is what the bytes at rip decode to; an immediate or displacement *)
(* is the last part of the instruction, and operand is its size in bytes.  *)
(***************************************************************************)
EXTENDS Integers

CONSTANTS
  BYTE, W32, W64,   \* 256, 4 and 8 in the real machine
  Imm8, Imm32,      \* the signed immediates and displacements that occur
  Rms,              \* the ModRM registers used as addresses
  bit_or(_, _), bit_and(_, _)   \* | and & on words

\* BYTE to the power of k.
Pow[k \in 0 .. W64] == IF k = 0 THEN 1 ELSE BYTE * Pow[k - 1]
U32 == Pow[W32]
U64 == Pow[W64]
Byte == 0 .. BYTE - 1
Word == 0 .. U64 - 1

\* A number as a u64, and a value of n possible ones as a signed number.
Wrap(v) == v % U64
Signed(v, n) == IF v < n \div 2 THEN v ELSE v - n

\* The number in n bytes, the lowest first, and byte j of a number.
le_number(n, b) ==
  LET v[k \in 0 .. n] == IF k = 0 THEN 0 ELSE v[k - 1] * BYTE + b[n - k] IN v[n]
byte_of(v, j) == (v \div Pow[j]) % BYTE

\* The registers a ModRM byte names, in the order of their numbers, and the others.
GPR == <<"rax", "rcx", "rdx", "rbx", "rsp", "rbp", "rsi", "rdi">>
Gprs == {GPR[k] : k \in 1 .. 8}
Regs == Gprs \cup {"r8", "r9", "r10", "r12", "r13"}

ASSUME FormsAssumption ==
  /\ BYTE \in {2 * k : k \in 1 .. 128} /\ W32 \in Nat \ {0} /\ W64 = 2 * W32
  /\ Imm8 \subseteq -(BYTE \div 2) .. BYTE \div 2 - 1
  /\ Imm32 \subseteq -(U32 \div 2) .. U32 \div 2 - 1 /\ Rms \subseteq Gprs
  /\ \A v, w \in Word : bit_or(v, w) \in Word /\ bit_and(v, w) \in Word

Form(op, dst, src, disp, imm, code, operand) ==
  [op |-> op, dst |-> dst, src |-> src, disp |-> disp, imm |-> imm,
   len |-> code + operand, operand |-> operand]
Plain(op, len) == Form(op, "rax", "rax", 0, 0, len, 0)

Pushed(rs, len) == {Form("push", r, r, 0, 0, len, 0) : r \in rs}
Popped(rs, len) == {Form("pop", r, r, 0, 0, len, 0) : r \in rs}
Moved(pairs) == {Form("mov", p[1], p[2], 0, 0, 3, 0) : p \in pairs}       \* <<destination, source>>
Zeroed(rs, len) == {Form("zero", r, r, 0, 0, len, 0) : r \in rs}

\* The forms in the order of the arms of exec_one.
SaveForms ==
  Pushed({"r13", "r12"}, 2) \cup Popped({"r13", "r12"}, 2)
    \cup Pushed({"rbx", "rbp"}, 1) \cup Popped({"rbx", "rbp"}, 1)
    \cup {Form("movsxd", "rax", "rsi", 0, 0, 3, 0)} \cup Moved({<<"r13", "rdi">>})

\* [rdx + rax*8 + 8]
IndexedForms == {Form(op, "rdi", "rax", W64, 0, 5, 0) : op \in {"lea8", "load8", "store8"}}

FrameMoves == Moved({<<"rbp", "rax">>, <<"rbp", "rsp">>, <<"rsp", "rbp">>})

ArithForms ==
  {Form(op, r, r, 0, v, 3, 1) : op \in {"add", "or", "sub"}, r \in Gprs, v \in Imm8}
    \cup {Form(op, r, r, 0, v, 3, W32) : op \in {"add", "or", "sub"}, r \in Gprs, v \in Imm32}

ArgumentMoves ==
  Moved({<<"rdi", "rax">>, <<"rax", "rdi">>, <<"rdx", "r8">>, <<"rsi", "r9">>, <<"rdi", "rdx">>,
         <<"rsi", "rdx">>, <<"rdi", "rsp">>}) \cup Zeroed({"rbp"}, 3)

\* [rm] and [rm + disp8]; rm 4 announces a SIB byte and falls through, as [rbp] does.
Load32Forms ==
  {Form("load32", r, rm, 0, 0, 2, 0) : r \in Gprs, rm \in Rms \ {"rsp", "rbp"}}
    \cup {Form("load32", r, rm, d, 0, 2, 1) : r \in Gprs, rm \in Rms \ {"rsp"}, d \in Imm8}

\* 48 8D and 4C 8D; r10 stands for r10 to r15.
LeaForms ==
  {Form("lea", r, rm, d, 0, 3, 1) : r \in Gprs \cup {"r8", "r9", "r10"}, rm \in Rms \ {"rsp"}, d \in Imm8}

StackMoves ==
  Moved({<<"rdx", "rsp">>, <<"rsi", "rsp">>, <<"r9", "rdx">>, <<"r8", "rdx">>})
    \cup {Form("and", "rsp", "rsp", 0, v, 3, 1) : v \in Imm8}
    \cup {Form("lea", "r9", "rsp", d, 0, 4, 1) : d \in Imm8}
    \cup Pushed({"rax", "rsp"}, 1) \cup Popped({"rsi"}, 1)

ZeroForms == Zeroed({"r8", "r9", "r10"}, 3) \cup Zeroed({"rbp", "rcx", "rdx", "rax", "rdi"}, 2)

FlagForms ==
  {Form("test", r, r, 0, 0, 3, 0) : r \in {"rax", "rdx"}} \cup {Form("cmovns", "rdx", "rax", 0, 0, 4, 0)}
    \cup {Form("loadal", "rax", "r9", -1, 0, 5, 0)}          \* mov al, [r9 + r8 - 1]
    \cup {Form("cmpal", "rax", "rax", 0, v, 1, 1) : v \in Imm8}

\* 48 C7, and B8 to BF with and without REX.B.
ImmediateForms ==
  {Form("movi", r, r, 0, v, 3, W32) : r \in {"rax", "rdi", "rsi", "rdx"}, v \in Imm32}
    \cup {Form("movi32", r, r, 0, v, 1, W32) : r \in Gprs, v \in Imm32}
    \cup {Form("movi32", r, r, 0, v, 2, W32) : r \in {"r8", "r9", "r10"}, v \in Imm32}

LeaRipForms == {Form("leaip", r, "rax", d, 0, 3, W32) : r \in {"rdi", "rsi", "r8", "r9"}, d \in Imm32}

StoreForms ==
  {Form("storei", "rax", rm, d, v, 3, W32) : rm \in Rms \ {"rsp"}, d \in Imm8, v \in Imm32}
    \cup {Form("storei", "rax", "rsp", d, v, 4, W32) : d \in Imm8, v \in Imm32}

JumpForms ==
  {Form(op, "rax", "rax", d, 0, 1, W32) : op \in {"call", "jmp"}, d \in Imm32}
    \cup {Form(op, "rax", "rax", d, 0, 1, 1) : op \in {"jmp", "je"}, d \in Imm8}
    \cup {Form("callm", "rax", "rax", d, 0, 2, W32) : d \in Imm32}

Forms ==
  {Plain("nop", 1), Plain("nop", 4), Plain("ret", 1), Plain("hlt", 1), Plain("syscall", 2), Plain("other", 1)}
    \cup SaveForms \cup IndexedForms \cup FrameMoves \cup ArithForms \cup ArgumentMoves
    \cup Load32Forms \cup LeaForms \cup {Form("load64", "rsi", "rdi", 0, 0, 3, 0)} \cup StackMoves
    \cup ZeroForms \cup FlagForms \cup ImmediateForms \cup LeaRipForms \cup StoreForms \cup JumpForms
=============================================================================
