------------------------------- MODULE Interp --------------------------------
(***************************************************************************)
(* exec_one and handle_syscall of kernel/src/elf_runner.rs: the fallback   *)
(* interpreter, one instruction per step, on the registers and the memory  *)
(* of a loaded program.  The bytes at rip are any instruction form, chosen *)
(* at each step; the registers start as some prefix of a program left them.*)
(***************************************************************************)
EXTENDS X86Forms, Sequences, FiniteSetsExt

CONSTANTS
  MemLen,               \* mem.len()
  Bases,                \* where a program may have been loaded
  Fills(_),             \* register contents at a point of a program loaded at a base
  Contents,             \* memory contents at that point
  Starts,               \* where rip is then, as an offset
  Typed,                \* what the user may type at a read
  LF, CR,               \* line feed and carriage return
  TMP,                  \* 256: the buffer handle_syscall reads files into
  CSTR_MAX, VEC_MAX,    \* 4096 and 64
  utf8(_),              \* whether from_utf8 accepts the bytes of a string
  PAGE,                 \* 4096: the unit of mmap
  Breaks,               \* what earlier calls of brk may have left
  Counts,               \* descriptors, positions and lengths that a call may answer
  PID, EBADF, EFAULT, ENOENT, ENOEXEC,
  Errors,               \* every error a call may answer
  Steps                 \* bound: instructions executed

ASSUME InterpAssumption ==
  /\ MemLen \in Nat /\ Starts \subseteq 0 .. MemLen - 1
  /\ \A b \in Bases : b \in Nat /\ b + MemLen < U64 /\ Fills(b) \subseteq [Regs -> Word]
  /\ Typed \subseteq Seq(Byte) /\ {LF, CR} \subseteq Byte /\ {TMP, CSTR_MAX, VEC_MAX, Steps} \subseteq Nat
  /\ PAGE \in Nat \ {0} /\ 2 * PAGE <= U64 /\ Breaks \subseteq Word
  /\ {PID, EBADF, EFAULT, ENOENT, ENOEXEC} \subseteq Nat /\ Counts \subseteq Nat /\ Errors \subseteq Nat
  /\ Contents \subseteq [0 .. MemLen - 1 -> Byte]

VARIABLES
  status,               \* "run", "end" (Ok(true)), "err" (a RunError), "panic"
  base, reg, rip, zf, sf, mem,
  ins,                  \* auxiliary: the instruction executed last
  tty,                  \* auxiliary: the bytes it sent to the terminal
  steps
cpu == <<reg, rip, zf, sf>>
vars == <<status, base, cpu, mem, ins, tty, steps>>

Init ==
  /\ status = "run" /\ base \in Bases
  /\ reg \in Fills(base) /\ rip \in {base + s : s \in Starts}
  /\ zf = FALSE /\ sf = FALSE /\ mem \in Contents
  /\ ins = Plain("nop", 1) /\ tty = <<>> /\ steps = 0
-----------------------------------------------------------------------------
(* Memory accesses, and how an arm of exec_one ends *)

va_to_index(va) == va - base
inside(va) == va >= base /\ va_to_index(va) < MemLen

accessible(n, va) == inside(va) /\ va_to_index(va) + n <= MemLen

le_value(n, va) == le_number(n,
  [k \in 0 .. n - 1 |-> IF va_to_index(va) + k \in DOMAIN mem THEN mem[va_to_index(va) + k] ELSE 0])
le_write(n, va, v) == [k \in DOMAIN mem |->
  LET j == k - va_to_index(va)
  IN IF j \in 0 .. n - 1 THEN byte_of(v, j) ELSE mem[k]]

\* The checks of an arm in their order, each <<it fails, what then happens>>.
Err(bad) == <<bad, "err">>
Panic(bad) == <<bad, "panic">>
Reads(n, va) == <<Err(~accessible(n, va)), Panic(va_to_index(va) + n > MemLen)>>
Verdict(checks) == LET failed == {k \in DOMAIN checks : checks[k][1]}
                   IN IF failed = {} THEN "run" ELSE checks[Min(failed)][2]

\* What a signed addition of an address and a displacement needs, and yields.
signed_add_ok(a, d) == Signed(a, U64) + d \in -(U64 \div 2) .. U64 \div 2 - 1

after(i) == rip + i.len                      \* next, or what rip += n leaves
Advances(i) == <<Panic(after(i) >= U64)>>
\* read_u32 at the end of the instruction; the address is computed unchecked.
Immediate(i) == LET at == after(i) - W32
                IN IF i.operand = W32 THEN <<Panic(at >= U64)>> \o Reads(W32, at) ELSE <<>>

\* The end of an arm: registers, rip and memory as given, if no check failed.
FinishAs(how, checks, r, p, m) ==
  LET v == Verdict(checks)
  IN IF v = "run" THEN status' = how /\ reg' = r /\ rip' = p /\ mem' = m
     ELSE status' = v /\ UNCHANGED <<reg, rip, mem>>
Stop(how) == status' = how /\ UNCHANGED <<cpu, mem>>
Finish(checks, r, p, m) == FinishAs("run", checks, r, p, m)
Arm(i, checks, r, m) == Finish(checks \o Advances(i), r, after(i), m) /\ UNCHANGED <<zf, sf>>

set_reg(r, v) == [reg EXCEPT ![r] = v]
assign(known, r, v) == IF r \in known THEN set_reg(r, v) ELSE reg
-----------------------------------------------------------------------------
(* exec_one *)

Nop(i) == i.op = "nop" /\ Arm(i, <<>>, reg, mem)

Halt(i) == i.op \in {"ret", "hlt"} /\ Stop("end")

\* push_u64: rsp moves only when the word was written.
pushes == <<Err(reg["rsp"] < W64)>> \o Reads(W64, reg["rsp"] - W64)
pushed(v) == le_write(W64, reg["rsp"] - W64, v)
below == [reg EXCEPT !["rsp"] = @ - W64]

\* Mutant of Push: the pushed rsp is the one after the push.
PushNewRsp(i) == i.op = "push" /\ Arm(i, pushes, below, pushed(below[i.dst]))

Push(i) == i.op = "push" /\ Arm(i, pushes, below, pushed(reg[i.dst]))

Pop(i) ==
  /\ i.op = "pop"
  /\ LET popped == [reg EXCEPT !["rsp"] = @ + W64]
     IN Arm(i, Reads(W64, reg["rsp"]) \o <<Err(reg["rsp"] + W64 >= U64)>>,
            [popped EXCEPT ![i.dst] = le_value(W64, reg["rsp"])], mem)

Move(i) == i.op = "mov" /\ Arm(i, <<>>, set_reg(i.dst, reg[i.src]), mem)

SignExtend(i) ==
  /\ i.op = "movsxd"
  /\ LET low == reg[i.src] % U32
     IN Arm(i, <<>>, set_reg(i.dst, IF low >= U32 \div 2 THEN U64 - U32 + low ELSE low), mem)

\* [rdx + rax*8 + 8] is computed with wrapping operations.
indexed == Wrap(reg["rdx"] + Wrap(reg["rax"] * W64) + W64)
Indexing(i) ==
  \/ i.op = "lea8" /\ Arm(i, <<>>, set_reg("rdi", indexed), mem)
  \/ i.op = "store8" /\ Arm(i, Reads(W64, indexed), reg, le_write(W64, indexed, reg["rdi"]))
  \/ i.op = "load8" /\ Arm(i, Reads(W64, indexed), set_reg("rdi", le_value(W64, indexed)), mem)

\* 83 and 81 groups and the masking of rsp: the flags stay as they were.
Arithmetic(i) ==
  /\ i.op \in {"add", "or", "sub", "and"}
  /\ LET imm == IF i.imm < 0 THEN U64 + i.imm ELSE i.imm
         next == CASE i.op = "add" -> (reg[i.dst] + imm) % U64
                   [] i.op = "or" -> bit_or(reg[i.dst], imm)
                   [] i.op = "sub" -> (reg[i.dst] - imm) % U64
                   [] i.op = "and" -> bit_and(reg[i.dst], imm)
     IN Arm(i, Immediate(i), set_reg(i.dst, next), mem)

Zero(i) == i.op = "zero" /\ Arm(i, <<>>, set_reg(i.dst, 0), mem)

\* [rm + disp8]: the addition is signed and checked.
disp8_ok(i) == signed_add_ok(reg[i.src], i.disp)

disp8(i) == Wrap(reg[i.src] + i.disp)

Load32(i) ==
  /\ i.op = "load32"
  /\ Arm(i, <<Panic(i.operand = 1 /\ ~disp8_ok(i))>> \o Reads(W32, disp8(i)),
         assign({"rax", "rcx", "rdx", "rsi", "rdi"}, i.dst, le_value(W32, disp8(i))), mem)

\* Two later arms, lea rdx, [rdi + 8] and lea rdx, [rdx - 1], are never reached.
LeaDisp8(i) ==
  /\ i.op = "lea"
  /\ Arm(i, <<Panic(~disp8_ok(i))>>,
         assign({"rax", "rdx", "rbp", "rsi", "rdi", "r8", "r9"}, i.dst, disp8(i)), mem)

Load64(i) ==
  i.op = "load64" /\ Arm(i, Reads(W64, reg["rdi"]), set_reg("rsi", le_value(W64, reg["rdi"])), mem)

\* mov al, [r9 + r8 - 1] and cmp al, imm8.
al == reg["rax"] % BYTE
set_al(v) == set_reg("rax", (reg["rax"] - al) + v)
LoadAl(i) ==
  /\ i.op = "loadal"
  /\ LET addr == (reg["r9"] + reg["r8"] - 1) % U64
     IN Arm(i, Reads(1, addr), set_al(le_value(1, addr)), mem)

SetFlags(i) ==
  /\ \/ /\ i.op = "test"
        /\ zf' = (reg[i.dst] = 0) /\ sf' = (reg[i.dst] \div (U64 \div 2) # 0)
     \/ /\ i.op = "cmpal"
        /\ LET diff == Signed(al, BYTE) - i.imm
           IN /\ zf' = (al = i.imm % BYTE)
              /\ sf' = (Signed(diff % BYTE, BYTE) < 0)
  /\ Finish(Advances(i), reg, after(i), mem)

CmovNs(i) == i.op = "cmovns" /\ Arm(i, <<>>, IF sf THEN reg ELSE set_reg("rdx", reg["rax"]), mem)

\* 48 C7 is read as a u32, like B8 to BF; rbx and r10 to r15 are left alone.
MovImm(i) ==
  /\ i.op \in {"movi", "movi32"}
  /\ Arm(i, Immediate(i), assign({"rax", "rcx", "rdx", "rsp", "rbp", "rsi", "rdi", "r8", "r9"},
                                 i.dst, i.imm % U32), mem)

\* next + disp on signed numbers; next itself is computed first.
Relative(i) == Advances(i) \o <<Panic(~signed_add_ok(after(i) % U64, i.disp))>>
target(i) == Wrap(after(i) + i.disp)

LeaRip(i) ==
  /\ i.op = "leaip"
  /\ Arm(i, Immediate(i) \o Relative(i), set_reg(i.dst, target(i)), mem)

\* The address comes before the immediate, the write last.
StoreImm(i) ==
  /\ i.op = "storei"
  /\ Arm(i, <<Panic(~disp8_ok(i))>> \o Immediate(i) \o Reads(W32, disp8(i)),
         reg, le_write(W32, disp8(i), i.imm % U32))

Jump(i) ==
  /\ \/ /\ i.op = "jmp"
        /\ Finish(Immediate(i) \o Relative(i), reg, target(i), mem)
     \/ i.op = "je" /\ zf /\ Finish(Relative(i), reg, target(i), mem)
     \/ i.op = "je" /\ ~zf /\ Finish(Advances(i), reg, after(i), mem)
  /\ UNCHANGED <<zf, sf>>

Call(i) ==
  /\ i.op = "call"
  /\ Finish(Immediate(i) \o Advances(i) \o pushes \o Relative(i), below, target(i), pushed(after(i)))
  /\ UNCHANGED <<zf, sf>>

\* call [rip + disp32]: a pointer that leads outside, as a missing relocation
\* leaves it, sends the program to rdi instead (the main of __libc_start_main).
CallIndirect(i) ==
  /\ i.op = "callm"
  /\ LET checks == Immediate(i) \o Relative(i) \o Reads(W64, target(i))
         to == le_value(W64, target(i))
     IN IF ~inside(to) /\ inside(reg["rdi"])
        THEN Finish(checks, reg, reg["rdi"], mem)
        ELSE Finish(checks \o pushes, below, to, pushed(after(i)))
  /\ UNCHANGED <<zf, sf>>

Unsupported(i) == i.op = "other" /\ Stop("err")
-----------------------------------------------------------------------------
(* handle_syscall; what dispatch answers is modelled in FdTable and MemCalls *)

Nr(i, nr) == i.op = "syscall" /\ reg["rax"] = nr
Answer(i, how, checks, v, m) ==
  /\ FinishAs(how, checks \o Advances(i), set_reg("rax", Wrap(v)), after(i), m)
  /\ UNCHANGED <<zf, sf>>
Silent(i, how, checks, v, m) == Answer(i, how, checks, v, m) /\ tty' = <<>>

Put(va, bytes) == [k \in DOMAIN mem |->
  LET j == k - va_to_index(va) + 1 IN IF j \in DOMAIN bytes THEN bytes[j] ELSE mem[k]]
Guest(va, n) == [k \in 1 .. n |-> mem[va_to_index(va) + k - 1]]

\* The room between the buffer and the end of memory.
cap == Min({reg["rdx"], MemLen - va_to_index(reg["rsi"])})

\* What a read from the keyboard takes of what is typed: up to the first line
\* end, which becomes a line feed.
mapped(t) == [k \in DOMAIN t |-> IF t[k] = CR THEN LF ELSE t[k]]

\* Mutant of taken: the line end is stored and shown as it was typed.
taken_raw(t) == SubSeq(t, 1, Min({cap, Len(t)} \cup {k \in DOMAIN t : mapped(t)[k] = LF}))

taken(t) == SubSeq(mapped(t), 1, Min({cap, Len(t)} \cup {k \in DOMAIN t : mapped(t)[k] = LF}))

SysRead(i) ==
  /\ Nr(i, 0)
  /\ IF ~inside(reg["rsi"]) THEN Stop("err") /\ tty' = <<>>
     ELSE IF cap = 0 THEN Silent(i, "run", <<>>, 0, mem)
     ELSE \/ /\ reg["rdi"] = 0
             /\ \E t \in Typed :
                  /\ t # <<>> => Len(taken(t)) = cap \/ taken(t)[Len(taken(t))] = LF    \* else it waits
                  /\ Answer(i, "run", <<>>, Len(taken(t)), Put(reg["rsi"], taken(t)))
                  /\ tty' = taken(t)
          \/ reg["rdi"] # 0 /\ Silent(i, "run", <<>>, -EBADF, mem)
          \/ /\ reg["rdi"] > 2
             /\ \E n \in {0, Min({cap, TMP})}, b \in {0, BYTE - 1} :
                  Silent(i, "run", <<Panic(va_to_index(reg["rsi"]) + n > MemLen)>>, n,
                         Put(reg["rsi"], [k \in 1 .. n |-> b]))

SysWrite(i) ==
  /\ Nr(i, 1)
  /\ LET checks == <<Err(~inside(reg["rsi"])), Err(va_to_index(reg["rsi"]) + reg["rdx"] > MemLen)>>
         shown == reg["rdi"] \in {1, 2}
     IN /\ Answer(i, "run", checks, IF shown THEN reg["rdx"] ELSE -EBADF, mem)
        /\ tty' = IF shown /\ Verdict(checks) = "run" THEN Guest(reg["rsi"], reg["rdx"]) ELSE <<>>

SysGetpid(i) == Nr(i, 39) /\ Silent(i, "run", <<>>, PID, mem)
SysBrk(i) ==
  Nr(i, 12) /\ \E v \in Breaks : Silent(i, "run", <<>>, IF reg["rdi"] = 0 THEN v ELSE reg["rdi"], mem)
SysExit(i) == (Nr(i, 60) \/ Nr(i, 231)) /\ Silent(i, "end", <<>>, 0, mem)

\* read_user_cstr: the string, if it ends, is UTF-8 and is not the null pointer.
read_user_cstr(va) ==
  LET at(k) == Wrap(va + k)
      stops == {k \in 0 .. CSTR_MAX - 1 : ~inside(at(k)) \/ le_value(1, at(k)) = 0}
  IN CASE va = 0 \/ stops = {} -> "none"
       [] va # 0 /\ stops # {} /\ ~inside(at(Min(stops))) -> "err"
       [] OTHER -> IF utf8([k \in 0 .. Min(stops) - 1 |-> le_value(1, at(k))]) THEN "some" ELSE "none"

\* read_user_str_array: first the pointers, up to a null pointer or the limit,
\* then the strings; one that cannot be read stops the calling program.
vector_checks(va) ==
  LET at(k) == va + k * W64
      stops == {k \in 0 .. VEC_MAX - 1 : ~accessible(W64, at(k)) \/ le_value(W64, at(k)) = 0}
      n == Min(stops \cup {VEC_MAX})
  IN IF va = 0 THEN <<>>
     ELSE <<Panic(n < VEC_MAX /\ at(n) >= U64),
            Err(n < VEC_MAX /\ ~accessible(W64, at(n))),
            Err(\E k \in 0 .. n - 1 : read_user_cstr(le_value(W64, at(k))) # "some")>>

\* Whether the file is found and how its program ends is modelled in Process.
SysExecve(i) ==
  /\ Nr(i, 59)
  /\ LET path == read_user_cstr(reg["rdi"])
         checks == <<Err(path = "err")>> \o vector_checks(reg["rsi"]) \o vector_checks(reg["rdx"])
     IN IF path = "none" THEN Silent(i, "run", <<>>, -EFAULT, mem)
        ELSE \/ \E e \in {ENOENT, ENOEXEC} : Silent(i, "run", checks, -e, mem)
             \/ Silent(i, "end", checks, 0, mem)

\* The rounding of mmap is a plain addition; the address it takes from
\* MMAP_BASE, a counter that wraps, is any page.
mmap_len == Max({reg["rsi"], PAGE})
mmap_ok == mmap_len + PAGE - 1 < U64
SysMmap(i) ==
  /\ Nr(i, 9)
  /\ \E v \in {a \in Word : a % PAGE = 0} : Silent(i, "run", <<Panic(~mmap_ok)>>, v, mem)

\* The other calls get the guest's numbers as they are and answer 0, 1, a
\* number of theirs (dup, lseek, getcwd, getrandom), a count or an error.
\* Those that read or write through an argument use it as an address of the
\* kernel: "panic" stands for what follows when nothing, or the kernel's own
\* data, lies there.
RdiPointer == {4, 6, 21, 63, 79, 80, 89, 96, 318}               \* stat, lstat, access, uname, ...
RsiPointer == {4, 5, 6, 61, 89, 217, 228, 257, 262, 267, 269}   \* stat, fstat, wait4, openat, ...
other_answers == {0, 1, PID, reg["rdi"], reg["rsi"]} \cup Counts \cup {-e : e \in Errors}
SysOther(i) ==
  /\ i.op = "syscall" /\ reg["rax"] \notin {0, 1, 9, 12, 39, 59, 60, 231}
  /\ \/ \E v \in other_answers : Silent(i, "run", <<>>, v, mem)
     \/ /\ (reg["rax"] \in RdiPointer /\ reg["rdi"] # 0) \/ (reg["rax"] \in RsiPointer /\ reg["rsi"] # 0)
        /\ Stop("panic") /\ tty' = <<>>
-----------------------------------------------------------------------------
Instruction(i) ==
  \/ Nop(i) \/ Halt(i) \/ Push(i) \/ Pop(i) \/ Move(i) \/ SignExtend(i) \/ Indexing(i)
  \/ Arithmetic(i) \/ Zero(i) \/ Load32(i) \/ LeaDisp8(i) \/ Load64(i) \/ LoadAl(i)
  \/ SetFlags(i) \/ CmovNs(i) \/ MovImm(i) \/ LeaRip(i) \/ StoreImm(i)
  \/ Jump(i) \/ Call(i) \/ CallIndirect(i) \/ Unsupported(i)

handle_syscall(i) ==
  \/ SysRead(i) \/ SysWrite(i) \/ SysGetpid(i) \/ SysBrk(i) \/ SysExit(i) \/ SysExecve(i)
  \/ SysMmap(i) \/ SysOther(i)

\* read_bytes: bytes behind the end of memory are read as zero, so that the
\* last instruction may lack an 8-bit operand of zero, or its 32-bit operand.
decodes(i) ==
  /\ accessible(i.len - i.operand, rip)
  /\ i.operand = 1 /\ ~accessible(i.len, rip) => i.imm = 0 /\ i.disp = 0

exec_one ==
  /\ status = "run" /\ steps < Steps /\ inside(rip)
  /\ \E i \in Forms : /\ decodes(i)
                      /\ (Instruction(i) /\ tty' = <<>>) \/ handle_syscall(i)
                      /\ ins' = i
  /\ steps' = steps + 1 /\ base' = base

fetch_fails ==
  /\ status = "run" /\ steps < Steps /\ ~inside(rip)
  /\ Stop("err") /\ tty' = <<>> /\ steps' = steps + 1 /\ UNCHANGED <<base, ins>>

Next == exec_one \/ fetch_fails
Spec == Init /\ [][Next]_vars
-----------------------------------------------------------------------------
X == INSTANCE X86 WITH mode <- status

\* Whatever the program does, each step of the interpreter is what an x86-64
\* processor would do to registers, flags, memory and rip, or one of the
\* differences that module X86 lists; an access outside the memory stops the
\* program.  The kernel stops only on the sums that X86 lists (addresses, rip,
\* the length of mmap) and on the arguments it uses as addresses of its own.
ImplementsX86 == X!Spec

\* What handle_syscall shows on the terminal is what stands in the program's
\* buffer and as much as rax says; a line read from the keyboard ends at its
\* first line feed.
ConsoleMatchesMemory ==
  tty # <<>> =>
    /\ reg["rax"] = Len(tty)
    /\ \A k \in DOMAIN tty : mem[va_to_index(reg["rsi"]) + k - 1] = tty[k]
    /\ reg["rdi"] = 0 => \A k \in DOMAIN tty : tty[k] \in {LF, CR} => k = Len(tty) /\ tty[k] = LF
-----------------------------------------------------------------------------
(* The inductive invariant *)

TypeOK ==
  /\ status \in {"run", "end", "err", "panic"} /\ base \in Bases
  /\ reg \in [Regs -> Word] /\ rip \in Word /\ zf \in BOOLEAN /\ sf \in BOOLEAN
  /\ mem \in [0 .. MemLen - 1 -> Byte] /\ ins \in Forms /\ tty \in Seq(Byte) /\ steps \in Nat

InterpInv == TypeOK /\ ConsoleMatchesMemory
=============================================================================
