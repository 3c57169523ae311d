-------------------------------- MODULE X86 ----------------------------------
(***************************************************************************)
(* What a program may rely on when the kernel interprets it: every step is *)
(* what an x86-64 processor with this memory would do, or one of the       *)
(* listed differences.  After an arithmetic instruction the flags are      *)
(* left open.                                                              *)
(***************************************************************************)
EXTENDS X86Forms

CONSTANTS
  MemLen,             \* bytes of program memory
  CSTR_MAX, VEC_MAX,  \* 4096 and 64: what execve reads of a string and of a vector
  utf8(_),            \* whether the bytes of a string are UTF-8
  PAGE                \* 4096: mmap rounds its length up to pages
VARIABLES
  mode,               \* "run", "end" (the program ended), "err" (it was stopped), "panic"
  base,               \* address of the first byte
  reg, rip, zf, sf, mem,
  ins                 \* the instruction executed last
vars == <<mode, base, reg, rip, zf, sf, mem, ins>>

Mapped(n, a) == a >= base /\ a + n <= base + MemLen
Load(n, a) == le_number(n, [k \in 0 .. n - 1 |-> mem[a - base + k]])
Stored(n, a, v) == [k \in DOMAIN mem |->
  IF k + base \in a .. a + n - 1 THEN byte_of(v, k + base - a) ELSE mem[k]]

Next_(i) == Wrap(rip + i.len)

\* The address of the memory operand, of the branch target or of the pushed word.
Operand(i) == Wrap(
  CASE i.op \in {"lea8", "load8", "store8"} -> reg["rdx"] + reg["rax"] * W64 + i.disp
    [] i.op = "loadal" -> reg["r9"] + reg["r8"] + i.disp
    [] i.op \in {"leaip", "callm", "call", "jmp", "je"} -> rip + i.len + i.disp
    [] OTHER -> reg[i.src] + i.disp)
Top == Wrap(reg["rsp"] - W64)

\* What each instruction puts into its destination register.
Value(i) ==
  CASE i.op = "mov" -> reg[i.src]
    [] i.op = "movsxd" -> Wrap(Signed(reg[i.src] % U32, U32))
    [] i.op \in {"lea", "lea8", "leaip"} -> Operand(i)
    [] i.op = "add" -> Wrap(reg[i.dst] + i.imm)
    [] i.op = "sub" -> Wrap(reg[i.dst] - i.imm)
    [] i.op = "or" -> bit_or(reg[i.dst], Wrap(i.imm))
    [] i.op = "and" -> bit_and(reg[i.dst], Wrap(i.imm))
    [] i.op = "zero" -> 0
    [] i.op = "movi" -> Wrap(i.imm)
    [] i.op = "movi32" -> i.imm % U32
    [] i.op = "cmovns" -> reg[IF sf THEN i.dst ELSE i.src]
    [] i.op = "load32" -> Load(W32, Operand(i))
    [] i.op \in {"load8", "load64"} -> Load(W64, Operand(i))
    [] i.op = "loadal" -> (reg["rax"] \div BYTE) * BYTE + Load(1, Operand(i))

\* The access of an instruction to memory, <<bytes, address>>, if it has one.
Accesses(i) ==
  CASE i.op \in {"push", "call"} -> {<<W64, Top>>}
    [] i.op = "pop" -> {<<W64, reg["rsp"]>>}
    [] i.op \in {"load32", "storei"} -> {<<W32, Operand(i)>>}
    [] i.op \in {"load8", "load64", "store8"} -> {<<W64, Operand(i)>>}
    [] i.op = "loadal" -> {<<1, Operand(i)>>}
    [] i.op = "callm" -> {<<W64, Operand(i)>>, <<W64, Top>>}
    [] OTHER -> {}
Fetched(i) == Mapped(i.len, rip)
Allowed(i) == Fetched(i) /\ \A a \in Accesses(i) : Mapped(a[1], a[2])

Computing == {"mov", "movsxd", "lea", "lea8", "leaip", "add", "sub", "or", "and", "zero", "movi",
              "movi32", "cmovns", "load32", "load8", "load64", "loadal"}
Arithmetic == {"add", "sub", "or", "and", "zero"}

Compute(i) ==
  /\ i.op \in Computing
  /\ reg' = [reg EXCEPT ![i.dst] = Value(i)] /\ rip' = Next_(i) /\ mem' = mem
  /\ i.op \notin Arithmetic => zf' = zf /\ sf' = sf

SetFlags(i) ==
  /\ i.op \in {"nop", "test", "cmpal"}
  /\ rip' = Next_(i) /\ UNCHANGED <<reg, mem>>
  /\ CASE i.op = "nop" -> UNCHANGED <<zf, sf>>
       [] i.op = "test" -> zf' = (reg[i.dst] = 0) /\ sf' = (reg[i.dst] >= U64 \div 2)
       [] i.op = "cmpal" -> LET d == (reg["rax"] - i.imm) % BYTE
                            IN zf' = (d = 0) /\ sf' = (d >= BYTE \div 2)

Store(i) ==
  /\ i.op \in {"store8", "storei"}
  /\ mem' = IF i.op = "store8" THEN Stored(W64, Operand(i), reg[i.dst])
            ELSE Stored(W32, Operand(i), i.imm % U32)
  /\ rip' = Next_(i) /\ UNCHANGED <<reg, zf, sf>>

Stack(i) ==
  /\ i.op \in {"push", "pop"}
  /\ IF i.op = "push"
     THEN mem' = Stored(W64, Top, reg[i.dst]) /\ reg' = [reg EXCEPT !["rsp"] = Top]
     ELSE /\ reg' = [[reg EXCEPT !["rsp"] = Wrap(@ + W64)] EXCEPT ![i.dst] = Load(W64, reg["rsp"])]
          /\ mem' = mem
  /\ rip' = Next_(i) /\ UNCHANGED <<zf, sf>>

Branch(i) ==
  /\ i.op \in {"jmp", "je", "call", "callm"}
  /\ rip' = CASE i.op = "callm" -> Load(W64, Operand(i))
              [] i.op = "je" /\ ~zf -> Next_(i)
              [] OTHER -> Operand(i)
  /\ IF i.op \in {"call", "callm"}
     THEN mem' = Stored(W64, Top, Next_(i)) /\ reg' = [reg EXCEPT !["rsp"] = Top]
     ELSE UNCHANGED <<reg, mem>>
  /\ UNCHANGED <<zf, sf>>

\* Arguments of execve that can be read: UTF-8 strings that end, vectors of
\* such; a null pointer is no string, wherever the memory begins.
String(a) == a # 0 /\ \E n \in 0 .. CSTR_MAX - 1 :
  /\ Mapped(n + 1, a) /\ Load(1, a + n) = 0 /\ \A k \in 0 .. n - 1 : Load(1, a + k) # 0
  /\ utf8([k \in 0 .. n - 1 |-> Load(1, a + k)])
Vector(a) == a = 0 \/ \E n \in 0 .. VEC_MAX :
  /\ \A k \in 0 .. n - 1 : Mapped(W64, a + k * W64) /\ String(Load(W64, a + k * W64))
  /\ n = VEC_MAX \/ (Mapped(W64, a + n * W64) /\ Load(W64, a + n * W64) = 0)

\* A system call answers in rax and writes to memory only for read (0), there
\* only into the buffer it was given.  The buffer must begin inside, that of
\* write (1) must lie inside, and the strings of execve (59) must be readable.
CallStops ==
  CASE reg["rax"] = 0 -> ~Mapped(1, reg["rsi"])
    [] reg["rax"] = 1 -> ~Mapped(1, reg["rsi"]) \/ reg["rsi"] + reg["rdx"] > base + MemLen
    [] reg["rax"] = 59 -> /\ reg["rdi"] # 0
                          /\ ~(String(reg["rdi"]) /\ Vector(reg["rsi"]) /\ Vector(reg["rdx"]))
    [] OTHER -> FALSE
SystemCall(i) ==
  /\ i.op = "syscall"
  /\ \/ mode' \in {"run", "end"} /\ rip' = Next_(i) /\ reg' = [reg EXCEPT !["rax"] = reg'["rax"]]
        /\ mode' = "end" => reg["rax"] \in {59, 60, 231}
        /\ \A k \in DOMAIN mem : mem'[k] # mem[k] =>
             reg["rax"] = 0 /\ k + base \in reg["rsi"] .. reg["rsi"] + reg["rdx"] - 1
     \/ mode' = "err" /\ CallStops /\ UNCHANGED <<reg, rip, mem>>
  /\ UNCHANGED <<zf, sf>>

\* An instruction that may not access what it names stops the program.
Fault(i) == mode' = "err" /\ ~Allowed(i) /\ UNCHANGED <<reg, rip, zf, sf, mem>>

\* The differences: ret and hlt end the program; 48 C7 does not extend the
\* sign; some destinations are ignored; a call through a pointer that leads
\* outside goes to rdi; the last instruction of memory may be completed with
\* zeros; an unknown instruction stops the program.
Differs(i) ==
  \/ i.op \in {"ret", "hlt", "other"}
  \/ i.op = "movi" /\ i.imm < 0
  \/ i.op = "load32" /\ i.dst \in {"rbx", "rsp", "rbp"}
  \/ i.op = "lea" /\ i.dst \in {"rcx", "rbx", "rsp", "r10"}
  \/ i.op = "movi32" /\ i.dst \in {"rbx", "r10"}
  \/ i.op = "callm" /\ Mapped(W64, Operand(i)) /\ ~Mapped(1, Load(W64, Operand(i)))
  \/ ~Fetched(i)
Difference(i) == Differs(i) /\ mode' # "panic" /\ mem' = mem

\* Address arithmetic on signed numbers, and on rip, ends the kernel when it overflows.
Overflows(i) ==
  \/ rip + i.len >= U64
  \/ /\ i.op \in {"load32", "lea", "storei"}
     /\ Signed(reg[i.src], U64) + i.disp \notin -(U64 \div 2) .. U64 \div 2 - 1
  \/ /\ i.op \in {"leaip", "call", "jmp", "je", "callm"}
     /\ Signed(rip + i.len, U64) + i.disp \notin -(U64 \div 2) .. U64 \div 2 - 1

\* Calls that are handed on with guest addresses, <<number, register>>.
Untranslated == ({4, 6, 21, 63, 79, 80, 89, 96, 318} \X {"rdi"})
                \cup ({4, 5, 6, 61, 89, 217, 228, 257, 262, 267, 269} \X {"rsi"})

\* mmap (9) with a length that has no page above it overflows as well.
Panic(i) ==
  /\ mode' = "panic"
  /\ \/ Overflows(i)
     \/ i.op = "syscall" /\ reg["rax"] = 9 /\ reg["rsi"] > U64 - PAGE
     \/ i.op = "syscall" /\ \E u \in Untranslated : reg["rax"] = u[1] /\ reg[u[2]] # 0

Init == mode = "run" /\ rip \in Word /\ reg \in [Regs -> Word]
Step(i) ==
  \/ mode' = "run" /\ Allowed(i)
     /\ (Compute(i) \/ SetFlags(i) \/ Store(i) \/ Stack(i) \/ Branch(i))
  \/ SystemCall(i) \/ Fault(i) \/ Difference(i) \/ Panic(i)
Next == mode = "run" /\ base' = base /\ ins' \in Forms /\ Step(ins')
Spec == Init /\ [][Next]_vars
=============================================================================
