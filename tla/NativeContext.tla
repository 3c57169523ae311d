---------------------------- MODULE NativeContext ----------------------------
(***************************************************************************)
(* The registers and the stacks across leonos3_native_enter, the SYSCALL   *)
(* entry and the exit path (the global_asm! block of native_runner.rs).    *)
(* The assembly is data, one record per instruction, and `step` executes   *)
(* it.  Program and kernel share one address space and privilege level, so *)
(* the kernel works on the program's stack.                                *)
(*                                                                         *)
(* A value is a pair of a kind and a tag.  Nothing but moves happens to a  *)
(* value here, so one distinct token per register stands for them all.     *)
(***************************************************************************)
EXTENDS Integers, Sequences

CONSTANT Words      \* words of the program's stack below its first frame
ASSUME WordsAssumption == Words \in Nat /\ Words >= 12

CalleeSaved == {"rbx", "rbp", "r12", "r13", "r14", "r15"}
CallerSaved == {"rax", "rcx", "rdx", "rsi", "rdi", "r8", "r9", "r10", "r11"}
Regs == CalleeSaved \cup CallerSaved \cup {"rsp"}

KERNEL    == <<"text", 0>>      \* the caller of leonos3_native_enter
PROGRAM   == <<"text", 1>>
DISPATCH  == <<"text", 2>>      \* leonos3_native_syscall_dispatch
MARK_EXIT == <<"text", 3>>      \* leonos3_native_mark_exit
FAULT     == <<"text", 4>>      \* an exception, which halts

VARIABLES
  pc,                 \* where the CPU is: one of the above or <<"code", n>>
  regs, mem,          \* the registers, and the words of the two stacks
  return_rsp,         \* leonos3_native_return_rsp
  return_rip,         \* leonos3_native_return_rip
  LSTAR, SYSCALL_READY,
  LAST_EXIT,          \* what mark_exit was last given
  call                \* auxiliary: registers and memory at the last SYSCALL
vars == <<pc, regs, mem, return_rsp, return_rip, LSTAR, SYSCALL_READY, LAST_EXIT, call>>
kernel_statics == <<return_rsp, return_rip, LSTAR, SYSCALL_READY, LAST_EXIT>>
-----------------------------------------------------------------------------
(* The assembly *)

ins(op, a, b) == [op |-> op, a |-> a, b |-> b]
push(r) == ins("push", r, "none")
pop(r) == ins("pop", r, "none")
mov(a, b) == ins("mov", a, b)

native_enter ==
  <<ins("store", "return_rsp", "rsp"),
    ins("lea", "rax", "native_return"),
    ins("store", "return_rip", "rax"),
    mov("rsp", "rsi"),
    ins("callr", "rdi", "none"),
    ins("ret", "none", "none")>>               \* .Lnative_return

\* Mutant of syscall_entry: rbx is used before it is saved.
syscall_entry_short ==
  <<ins("je", 60, "native_exit"), ins("je", 231, "native_exit"),
    push("rcx"), push("r11"), push("rbp"), push("rbp"),
    push("r12"), push("r13"), push("r14"), push("r15")>>

syscall_entry ==
  <<ins("je", 60, "native_exit"), ins("je", 231, "native_exit"),
    push("rcx"), push("r11"), push("rbx"), push("rbp"),
    push("r12"), push("r13"), push("r14"), push("r15")>>

\* Mutant of dispatch_args: the fourth argument is taken where C has it.
dispatch_args_c ==
  <<mov("rbx", "rdi"), mov("rbp", "rsi"), mov("r12", "rdx"),
    mov("r13", "rcx"), mov("r14", "r8"), mov("r15", "r9"),
    mov("rdi", "rax"), mov("rsi", "rbx"), mov("rdx", "rbp"),
    mov("rcx", "r12"), mov("r8", "r13"), mov("r9", "r14"),
    ins("call", "dispatch", "none")>>

dispatch_args ==
  <<mov("rbx", "rdi"), mov("rbp", "rsi"), mov("r12", "rdx"),
    mov("r13", "r10"), mov("r14", "r8"), mov("r15", "r9"),
    mov("rdi", "rax"), mov("rsi", "rbx"), mov("rdx", "rbp"),
    mov("rcx", "r12"), mov("r8", "r13"), mov("r9", "r14"),
    ins("call", "dispatch", "none")>>

syscall_return ==
  <<pop("r15"), pop("r14"), pop("r13"), pop("r12"),
    pop("rbp"), pop("rbx"), pop("r11"), pop("rcx"),
    ins("jmpr", "rcx", "none")>>

native_exit ==
  <<ins("call", "mark_exit", "none"),
    ins("load", "rsp", "return_rsp"),
    ins("jmpm", "return_rip", "none")>>

Code == native_enter \o syscall_entry \o dispatch_args \o syscall_return \o native_exit
Label(l) ==
  <<"code", CASE l = "native_enter"  -> 1
              [] l = "native_return" -> Len(native_enter)
              [] l = "syscall_entry" -> Len(native_enter) + 1
              [] l = "native_exit"   -> Len(Code) - Len(native_exit) + 1>>
-----------------------------------------------------------------------------
(* Memory: two stacks that grow towards word 0 *)

ustack(i) == <<"ustack", i>>
kstack(i) == <<"kstack", i>>
Stacks == {ustack(i) : i \in 0 .. Words} \cup {kstack(i) : i \in 0 .. 1}
Below(a) == {x \in Stacks : x[1] = a[1] /\ x[2] < a[2]}
Above(a) == {x \in Stacks : x[1] = a[1] /\ x[2] >= a[2]}
Up(a) == <<a[1], a[2] + 1>>
Down(a) == <<a[1], a[2] - 1>>

Unset == <<"unset", 0>>

\* The registers of run_native_elf_with_args where it calls the stub: the
\* arguments entry and user_rsp, its own values, and its stack.
KernelRegs ==
  [r \in Regs |-> CASE r = "rdi" -> PROGRAM [] r = "rsi" -> ustack(Words)
                    [] r = "rsp" -> kstack(1) [] OTHER -> <<"kernel", r>>]

\* build_initial_stack leaves user_rsp at argc.
FreshStack ==
  [x \in Stacks |-> CASE x = ustack(Words) -> <<"argc", 0>>
                      [] x = kstack(1) -> KERNEL [] OTHER -> Unset]

NoCall == [regs |-> [r \in Regs |-> Unset], mem |-> [x \in Stacks |-> Unset]]

Init ==
  /\ pc = KERNEL /\ regs = KernelRegs /\ mem = FreshStack
  /\ return_rsp = Unset /\ return_rip = Unset /\ LAST_EXIT = Unset
  /\ LSTAR = Unset /\ SYSCALL_READY = FALSE
  /\ call = NoCall

Goto(v) == pc' = IF v[1] \in {"code", "text"} THEN v ELSE FAULT
-----------------------------------------------------------------------------
(* The kernel, up to the call of the stub *)

init_syscall_path ==
  /\ SYSCALL_READY' = TRUE
  /\ LSTAR' = IF SYSCALL_READY THEN LSTAR ELSE Label("syscall_entry")

\* A new image: its own stack, and leonos3_native_enter(entry, user_rsp).
enter ==
  /\ pc = KERNEL
  /\ init_syscall_path
  /\ pc' = Label("native_enter")
  /\ regs' = KernelRegs /\ mem' = FreshStack /\ call' = NoCall
  /\ UNCHANGED <<return_rsp, return_rip, LAST_EXIT>>
-----------------------------------------------------------------------------
(* One instruction of the assembly *)

Here == <<"code", pc[2] + 1>>         \* the next instruction
pushed(v) == /\ regs' = [regs EXCEPT !["rsp"] = Down(@)]
             /\ mem' = [mem EXCEPT ![Down(regs["rsp"])] = v]

step ==
  /\ pc[1] = "code"
  /\ LET i == Code[pc[2]] IN
     \/ /\ i.op = "mov"
        /\ regs' = [regs EXCEPT ![i.a] = regs[i.b]]
        /\ pc' = Here /\ UNCHANGED <<mem, return_rsp, return_rip>>
     \/ /\ i.op = "lea"
        /\ regs' = [regs EXCEPT ![i.a] = Label(i.b)]
        /\ pc' = Here /\ UNCHANGED <<mem, return_rsp, return_rip>>
     \/ /\ i.op = "store"
        /\ return_rsp' = IF i.a = "return_rsp" THEN regs[i.b] ELSE return_rsp
        /\ return_rip' = IF i.a = "return_rip" THEN regs[i.b] ELSE return_rip
        /\ pc' = Here /\ UNCHANGED <<regs, mem>>
     \/ /\ i.op = "load"
        /\ regs' = [regs EXCEPT ![i.a] = return_rsp]
        /\ pc' = Here /\ UNCHANGED <<mem, return_rsp, return_rip>>
     \/ /\ i.op = "push"
        /\ pushed(regs[i.a])
        /\ pc' = Here /\ UNCHANGED <<return_rsp, return_rip>>
     \/ /\ i.op = "pop"
        /\ regs' = [regs EXCEPT !["rsp"] = Up(@), ![i.a] = mem[regs["rsp"]]]
        /\ pc' = Here /\ UNCHANGED <<mem, return_rsp, return_rip>>
     \/ /\ i.op = "je"                      \* cmp rax, nr; je
        /\ pc' = IF regs["rax"] = <<"nr", i.a>> THEN Label(i.b) ELSE Here
        /\ UNCHANGED <<regs, mem, return_rsp, return_rip>>
     \/ /\ i.op = "callr"
        /\ pushed(Here) /\ Goto(regs[i.a])
        /\ UNCHANGED <<return_rsp, return_rip>>
     \/ /\ i.op = "call"
        /\ pushed(Here) /\ pc' = IF i.a = "dispatch" THEN DISPATCH ELSE MARK_EXIT
        /\ UNCHANGED <<return_rsp, return_rip>>
     \/ /\ i.op = "ret"
        /\ regs' = [regs EXCEPT !["rsp"] = Up(@)] /\ Goto(mem[regs["rsp"]])
        /\ UNCHANGED <<mem, return_rsp, return_rip>>
     \/ /\ i.op \in {"jmpr", "jmpm"}
        /\ Goto(IF i.op = "jmpr" THEN regs[i.a] ELSE return_rip)
        /\ UNCHANGED <<regs, mem, return_rsp, return_rip>>
  /\ UNCHANGED <<LSTAR, SYSCALL_READY, LAST_EXIT, call>>
-----------------------------------------------------------------------------
(* The two functions of the kernel the assembly calls.  As any function    *)
(* with the C calling convention they keep the callee-saved registers and  *)
(* the words of their callers, may leave anything in the other registers,  *)
(* and use the words below for their frames.  A register they may change   *)
(* is only overwritten or handed on afterwards: all or none will do.       *)

rust_returns(result) ==
  /\ \E clobbered \in {{}, CallerSaved} :
       regs' = [r \in Regs |->
                 CASE r = "rsp" -> Up(regs["rsp"])
                   [] r = "rax" -> result
                   [] OTHER -> IF r \in clobbered THEN <<"rust", r>> ELSE regs[r]]
  /\ mem' = [x \in Stacks |-> IF x \in Below(regs["rsp"]) THEN <<"rust", "rsp">> ELSE mem[x]]
  /\ Goto(mem[regs["rsp"]])

native_syscall_dispatch ==
  /\ pc = DISPATCH
  /\ rust_returns(<<"result", 0>>)
  /\ UNCHANGED <<kernel_statics, call>>

\* Mutant of native_mark_exit: the code is taken from the return register.
native_mark_exit_rax ==
  /\ pc = MARK_EXIT
  /\ LAST_EXIT' = regs["rax"]
  /\ rust_returns(<<"rust", "rax">>)
  /\ UNCHANGED <<return_rsp, return_rip, LSTAR, SYSCALL_READY, call>>

native_mark_exit ==
  /\ pc = MARK_EXIT
  /\ LAST_EXIT' = regs["rdi"]
  /\ rust_returns(<<"rust", "rax">>)
  /\ UNCHANGED <<return_rsp, return_rip, LSTAR, SYSCALL_READY, call>>
-----------------------------------------------------------------------------
(* The program: it may put its own values in its registers, use its stack, *)
(* return from its entry point, and execute SYSCALL.                       *)

EntryRsp == ustack(Words - 1)
Room == 10          \* words left for the pushes of the stub and its call

program_computes ==
  /\ pc = PROGRAM
  /\ regs' = [r \in Regs |-> IF r = "rsp" THEN regs[r] ELSE <<"program", r>>]
  /\ UNCHANGED <<pc, mem, kernel_statics, call>>

program_pushes ==
  /\ pc = PROGRAM /\ regs["rsp"][2] > Room
  /\ pushed(<<"program", "rsp">>)
  /\ UNCHANGED <<pc, kernel_statics, call>>

program_pops ==
  /\ pc = PROGRAM /\ regs["rsp"] \in Below(EntryRsp)
  /\ regs' = [regs EXCEPT !["rsp"] = Up(@)]
  /\ UNCHANGED <<pc, mem, kernel_statics, call>>

program_returns ==
  /\ pc = PROGRAM /\ regs["rsp"] = EntryRsp
  /\ regs' = [regs EXCEPT !["rsp"] = Up(@)] /\ Goto(mem[regs["rsp"]])
  /\ UNCHANGED <<mem, kernel_statics, call>>

\* The instruction SYSCALL: the return address goes to rcx, the flags to r11.
program_syscalls(nr) ==
  /\ pc = PROGRAM
  /\ LET now == [regs EXCEPT !["rax"] = <<"nr", nr>>]
     IN /\ call' = [regs |-> now, mem |-> mem]
        /\ regs' = [now EXCEPT !["rcx"] = PROGRAM, !["r11"] = <<"flags", 0>>]
  /\ Goto(LSTAR)
  /\ UNCHANGED <<mem, kernel_statics>>

Next ==
  \/ enter \/ step \/ native_syscall_dispatch \/ native_mark_exit
  \/ program_computes \/ program_pushes \/ program_pops \/ program_returns
  \/ \E nr \in {1, 60, 231} : program_syscalls(nr)
Spec == Init /\ [][Next]_vars
-----------------------------------------------------------------------------
(* Properties *)

\* What the dispatcher is called with: the number and the first five arguments
\* of the Linux convention (rdi, rsi, rdx, r10, r8), in the registers where a
\* C function looks for its six parameters, none overwritten by another move.
DispatchGetsArguments ==
  pc = DISPATCH =>
    <<regs["rdi"], regs["rsi"], regs["rdx"], regs["rcx"], regs["r8"], regs["r9"]>> =
      <<call.regs["rax"], call.regs["rdi"], call.regs["rsi"],
        call.regs["rdx"], call.regs["r10"], call.regs["r8"]>>

\* A program that goes on after SYSCALL has the result in rax, and its callee-saved
\* registers, its stack pointer and its words on the stack as they were, although
\* the stub and the kernel worked with those registers and on that stack.
SyscallRestores ==
  [][pc # PROGRAM /\ pc' = PROGRAM /\ call # NoCall =>
       /\ regs'["rax"] = <<"result", 0>>
       /\ \A r \in CalleeSaved \cup {"rsp"} : regs'[r] = call.regs[r]
       /\ \A x \in Above(regs'["rsp"]) : mem'[x] = call.mem[x]]_vars

\* leonos3_native_enter comes back to the kernel only when the program has called
\* exit or exit_group, on the kernel's stack, with the code in its rdi recorded.
BackOnlyByExit ==
  [][pc # KERNEL /\ pc' = KERNEL =>
       /\ call.regs["rax"] \in {<<"nr", 60>>, <<"nr", 231>>}
       /\ regs'["rsp"] = Up(KernelRegs["rsp"])
       /\ LAST_EXIT' = call.regs["rdi"]]_vars

\* What the clobber list of the programs' system calls says ("rcx", "r11" and
\* memory, beside the result): every other register survives SYSCALL.
ClobberList ==
  [][pc # PROGRAM /\ pc' = PROGRAM /\ call # NoCall =>
       \A r \in Regs \ {"rax", "rcx", "r11"} : regs'[r] = call.regs[r]]_vars
-----------------------------------------------------------------------------
(* The inductive invariant: what the registers and the stacks hold at every *)
(* instruction, in terms of the registers and the memory at the SYSCALL.    *)

\* The way back to the kernel, from the first instruction of the program on.
ReturnSet == return_rsp = kstack(1) /\ return_rip = <<"code", 6>>

\* leonos3_native_enter.  Its ret is reached from the program's entry point, with
\* argc on the stack, or from the exit path.
Exits == {<<"nr", 60>>, <<"nr", 231>>}
AtEnter(n) ==
  /\ n <= 5 => call = NoCall /\ mem = FreshStack /\ regs["rdi"] = PROGRAM
  /\ n <= 4 => regs["rsi"] = ustack(Words)
  /\ n = 1 => regs["rsp"] = kstack(1)
  /\ n >= 2 => return_rsp = kstack(1)
  /\ n = 3 => regs["rax"] = <<"code", 6>>
  /\ n >= 4 => return_rip = <<"code", 6>>
  /\ n = 5 => regs["rsp"] = ustack(Words)
  /\ n = 6 => \/ regs["rsp"] = ustack(Words)
              \/ /\ regs["rsp"] = kstack(1)
                 /\ call.regs["rax"] \in Exits /\ LAST_EXIT = call.regs["rdi"]

AtProgram ==
  /\ ReturnSet
  /\ \E i \in Room .. Words - 1 : regs["rsp"] = ustack(i)
  /\ mem[EntryRsp] = <<"code", 6>>

\* The registers syscall_entry saves, the first pushed first, and what is in a
\* register when it runs.
Frame == <<"rcx", "r11", "rbx", "rbp", "r12", "r13", "r14", "r15">>
AtEntry(r) == CASE r = "rcx" -> PROGRAM [] r = "r11" -> <<"flags", 0>> [] OTHER -> call.regs[r]
Untouched == \A r \in Regs \ {"rsp"} : regs[r] = AtEntry(r)

\* The stack pointer is k words below where the program had it, the program's own
\* words are as it left them, and the first f saved registers lie below them.
CallRsp == call.regs["rsp"][2]
InCall(k, f) ==
  /\ ReturnSet
  /\ call.regs["rsp"] = ustack(CallRsp) /\ CallRsp \in Room .. Words - 1
  /\ call.mem[EntryRsp] = <<"code", 6>>
  /\ regs["rsp"] = ustack(CallRsp - k)
  /\ \A i \in CallRsp .. Words : mem[ustack(i)] = call.mem[ustack(i)]
  /\ \A j \in 1 .. f : mem[ustack(CallRsp - j)] = AtEntry(Frame[j])

\* syscall_entry.
AtSave(n) ==
  /\ Untouched
  /\ n <= 8 => InCall(0, 0)
  /\ n > 8 => InCall(n - 9, n - 9)

\* dispatch_args: each value is taken before its register is given another one.
Waiting(n) ==
  /\ n <= 23 => regs["rdi"] = call.regs["rdi"]
  /\ n <= 24 => regs["rsi"] = call.regs["rsi"]
  /\ n <= 25 => regs["rdx"] = call.regs["rdx"]
  /\ n <= 27 => regs["r8"] = call.regs["r8"]
  /\ regs["r10"] = call.regs["r10"] /\ regs["rax"] = call.regs["rax"]
Moved(n) ==
  /\ n >= 18 => regs["rbx"] = call.regs["rdi"]
  /\ n >= 19 => regs["rbp"] = call.regs["rsi"]
  /\ n >= 20 => regs["r12"] = call.regs["rdx"]
  /\ n >= 21 => regs["r13"] = call.regs["r10"]
  /\ n >= 22 => regs["r14"] = call.regs["r8"]
  /\ n >= 24 => regs["rdi"] = call.regs["rax"]
  /\ n >= 25 => regs["rsi"] = call.regs["rdi"]
  /\ n >= 26 => regs["rdx"] = call.regs["rsi"]
  /\ n >= 27 => regs["rcx"] = call.regs["rdx"]
  /\ n >= 28 => regs["r8"] = call.regs["r10"]
  /\ n >= 29 => regs["r9"] = call.regs["r8"]
AtMoves(n) == InCall(8, 8) /\ Waiting(n) /\ Moved(n)

AtDispatch == InCall(9, 8) /\ Moved(29) /\ mem[regs["rsp"]] = <<"code", 30>>

\* syscall_return.
AtRestore(n) ==
  /\ InCall(38 - n, 38 - n)
  /\ regs["rax"] = <<"result", 0>>
  /\ \A j \in 39 - n .. 8 : regs[Frame[j]] = AtEntry(Frame[j])

\* native_exit.
AtExit(n) ==
  /\ call.regs["rax"] \in Exits
  /\ n = 39 => InCall(0, 0) /\ regs["rdi"] = call.regs["rdi"]
  /\ n >= 40 => ReturnSet /\ LAST_EXIT = call.regs["rdi"]
  /\ n = 41 => regs["rsp"] = kstack(1)

AtMarkExit ==
  /\ call.regs["rax"] \in Exits
  /\ InCall(1, 0) /\ regs["rdi"] = call.regs["rdi"]
  /\ mem[regs["rsp"]] = <<"code", 40>>

\* What holds where the CPU is.
AtPc ==
  \/ pc \in {KERNEL, FAULT}
  \/ pc = PROGRAM /\ AtProgram
  \/ pc = DISPATCH /\ AtDispatch
  \/ pc = MARK_EXIT /\ AtMarkExit
  \/ \E n \in 1 .. 6 : pc = <<"code", n>> /\ AtEnter(n)
  \/ \E n \in 7 .. 16 : pc = <<"code", n>> /\ AtSave(n)
  \/ \E n \in 17 .. 29 : pc = <<"code", n>> /\ AtMoves(n)
  \/ \E n \in 30 .. 38 : pc = <<"code", n>> /\ AtRestore(n)
  \/ \E n \in 39 .. 41 : pc = <<"code", n>> /\ AtExit(n)

Shape == DOMAIN regs = Regs /\ DOMAIN mem = Stacks

\* Nobody writes the kernel's return address or argc, and LSTAR is set before the
\* first program runs.
Fixed ==
  /\ mem[kstack(1)] = KERNEL /\ mem[ustack(Words)] = <<"argc", 0>>
  /\ pc # KERNEL => SYSCALL_READY
  /\ SYSCALL_READY => LSTAR = <<"code", 7>>

NativeInv == Shape /\ Fixed /\ AtPc
=============================================================================
