------------------------- MODULE NativeContextProofs -------------------------
(***************************************************************************)
(* The assembly of native_runner.rs, for a program's stack of any depth.   *)
(* The argument is a symbolic execution: the invariant says, instruction   *)
(* by instruction, where each value the program had at SYSCALL is now.     *)
(***************************************************************************)
EXTENDS NativeContext, SequenceTheorems, TLAPS

USE WordsAssumption
-----------------------------------------------------------------------------
(* The code *)

\* Where each piece of the assembly lies.
LEMMA CodeAt ==
  /\ Len(Code) = 41
  /\ \A n \in 1 .. 6 : Code[n] = native_enter[n]
  /\ \A n \in 7 .. 16 : Code[n] = syscall_entry[n - 6]
  /\ \A n \in 17 .. 29 : Code[n] = dispatch_args[n - 16]
  /\ \A n \in 30 .. 38 : Code[n] = syscall_return[n - 29]
  /\ \A n \in 39 .. 41 : Code[n] = native_exit[n - 38]
<1> DEFINE I == [op: {"store", "lea", "mov", "callr", "ret", "je", "push", "call", "pop",
                      "jmpr", "load", "jmpm"},
                 a: Regs \cup {"none", "return_rsp", "return_rip", "dispatch", "mark_exit", 60, 231},
                 b: Regs \cup {"none", "return_rsp", "native_return", "native_exit"}]
<1>1. native_enter \in Seq(I) /\ Len(native_enter) = 6
  BY DEF native_enter, ins, mov, Regs, CalleeSaved, CallerSaved
<1>2. syscall_entry \in Seq(I) /\ Len(syscall_entry) = 10
  BY DEF syscall_entry, ins, push, Regs, CalleeSaved, CallerSaved
<1>3. dispatch_args \in Seq(I) /\ Len(dispatch_args) = 13
  BY DEF dispatch_args, ins, mov, Regs, CalleeSaved, CallerSaved
<1>4. syscall_return \in Seq(I) /\ Len(syscall_return) = 9
  BY DEF syscall_return, ins, pop, Regs, CalleeSaved, CallerSaved
<1>5. native_exit \in Seq(I) /\ Len(native_exit) = 3
  BY DEF native_exit, ins, Regs, CalleeSaved, CallerSaved
<1> HIDE DEF I
<1> DEFINE c2 == native_enter \o syscall_entry
           c3 == c2 \o dispatch_args
           c4 == c3 \o syscall_return
           c5 == c4 \o native_exit
<1>6. /\ c2 \in Seq(I) /\ Len(c2) = 16
      /\ \A n \in 1 .. 16 : c2[n] = IF n <= 6 THEN native_enter[n] ELSE syscall_entry[n - 6]
  <2>1. native_enter \in Seq(I) /\ syscall_entry \in Seq(I)
    BY <1>1, <1>2
  <2>2. /\ c2 \in Seq(I) /\ Len(c2) = Len(native_enter) + Len(syscall_entry)
        /\ \A n \in 1 .. Len(native_enter) + Len(syscall_entry) :
             c2[n] = IF n <= Len(native_enter) THEN native_enter[n] ELSE syscall_entry[n - Len(native_enter)]
    BY <2>1, ConcatProperties
  <2> HIDE DEF c2
  <2>3. QED BY <1>1, <1>2, <2>2
<1> HIDE DEF c2
<1>7. /\ c3 \in Seq(I) /\ Len(c3) = 29
      /\ \A n \in 1 .. 29 : c3[n] = IF n <= 16 THEN c2[n] ELSE dispatch_args[n - 16]
  <2>1. c2 \in Seq(I) /\ dispatch_args \in Seq(I)
    BY <1>6, <1>3
  <2>2. /\ c3 \in Seq(I) /\ Len(c3) = Len(c2) + Len(dispatch_args)
        /\ \A n \in 1 .. Len(c2) + Len(dispatch_args) :
             c3[n] = IF n <= Len(c2) THEN c2[n] ELSE dispatch_args[n - Len(c2)]
    BY <2>1, ConcatProperties
  <2> HIDE DEF c3
  <2>3. QED BY <1>6, <1>3, <2>2
<1> HIDE DEF c3
<1>8. /\ c4 \in Seq(I) /\ Len(c4) = 38
      /\ \A n \in 1 .. 38 : c4[n] = IF n <= 29 THEN c3[n] ELSE syscall_return[n - 29]
  <2>1. c3 \in Seq(I) /\ syscall_return \in Seq(I)
    BY <1>7, <1>4
  <2>2. /\ c4 \in Seq(I) /\ Len(c4) = Len(c3) + Len(syscall_return)
        /\ \A n \in 1 .. Len(c3) + Len(syscall_return) :
             c4[n] = IF n <= Len(c3) THEN c3[n] ELSE syscall_return[n - Len(c3)]
    BY <2>1, ConcatProperties
  <2> HIDE DEF c4
  <2>3. QED BY <1>7, <1>4, <2>2
<1> HIDE DEF c4
<1>9. /\ c5 \in Seq(I) /\ Len(c5) = 41
      /\ \A n \in 1 .. 41 : c5[n] = IF n <= 38 THEN c4[n] ELSE native_exit[n - 38]
  <2>1. c4 \in Seq(I) /\ native_exit \in Seq(I)
    BY <1>8, <1>5
  <2>2. /\ c5 \in Seq(I) /\ Len(c5) = Len(c4) + Len(native_exit)
        /\ \A n \in 1 .. Len(c4) + Len(native_exit) :
             c5[n] = IF n <= Len(c4) THEN c4[n] ELSE native_exit[n - Len(c4)]
    BY <2>1, ConcatProperties
  <2> HIDE DEF c5
  <2>3. QED BY <1>8, <1>5, <2>2
<1> HIDE DEF c5
<1>10. Code = c5
  BY DEF Code, c2, c3, c4, c5
<1>11. /\ \A n \in 1 .. 38 : Code[n] = c4[n]
       /\ \A n \in 39 .. 41 : Code[n] = native_exit[n - 38]
  BY <1>9, <1>10
<1>12. /\ \A n \in 1 .. 29 : Code[n] = c3[n]
       /\ \A n \in 30 .. 38 : Code[n] = syscall_return[n - 29]
  <2>1. ASSUME NEW n \in 1 .. 29 PROVE Code[n] = c3[n]
    <3>1. n \in 1 .. 38 /\ n <= 29
      OBVIOUS
    <3>2. c4[n] = c3[n]
      BY <1>8, <3>1
    <3>3. Code[n] = c4[n]
      BY <1>11, <3>1
    <3>4. QED BY <3>2, <3>3, Zenon
  <2>2. ASSUME NEW n \in 30 .. 38 PROVE Code[n] = syscall_return[n - 29]
    <3>1. n \in 1 .. 38 /\ ~(n <= 29)
      OBVIOUS
    <3>2. QED BY <1>8, <1>11, <3>1
  <2>3. QED BY <2>1, <2>2
<1>13. /\ \A n \in 1 .. 16 : Code[n] = c2[n]
       /\ \A n \in 17 .. 29 : Code[n] = dispatch_args[n - 16]
  <2>1. ASSUME NEW n \in 1 .. 16 PROVE Code[n] = c2[n]
    <3>1. n \in 1 .. 29 /\ n <= 16
      OBVIOUS
    <3>2. c3[n] = c2[n]
      BY <1>7, <3>1
    <3>3. Code[n] = c3[n]
      BY <1>12, <3>1
    <3>4. QED BY <3>2, <3>3, Zenon
  <2>2. ASSUME NEW n \in 17 .. 29 PROVE Code[n] = dispatch_args[n - 16]
    <3>1. n \in 1 .. 29 /\ ~(n <= 16)
      OBVIOUS
    <3>2. QED BY <1>7, <1>12, <3>1
  <2>3. QED BY <2>1, <2>2
<1>14. /\ \A n \in 1 .. 6 : Code[n] = native_enter[n]
       /\ \A n \in 7 .. 16 : Code[n] = syscall_entry[n - 6]
  <2>1. ASSUME NEW n \in 1 .. 6 PROVE Code[n] = native_enter[n]
    <3>1. n \in 1 .. 16 /\ n <= 6
      OBVIOUS
    <3>2. c2[n] = native_enter[n]
      BY <1>6, <3>1
    <3>3. Code[n] = c2[n]
      BY <1>13, <3>1
    <3>4. QED BY <3>2, <3>3, Zenon
  <2>2. ASSUME NEW n \in 7 .. 16 PROVE Code[n] = syscall_entry[n - 6]
    <3>1. n \in 1 .. 16 /\ ~(n <= 6)
      OBVIOUS
    <3>2. QED BY <1>6, <1>13, <3>1
  <2>3. QED BY <2>1, <2>2
<1>15. Len(Code) = 41
  BY <1>9, <1>10
<1>16. QED BY <1>11, <1>12, <1>13, <1>14, <1>15

LEMMA Labels ==
  /\ Label("native_enter") = <<"code", 1>>
  /\ Label("native_return") = <<"code", 6>>
  /\ Label("syscall_entry") = <<"code", 7>>
  /\ Label("native_exit") = <<"code", 39>>
<1>1. Len(native_enter) = 6 /\ Len(native_exit) = 3 /\ Len(Code) = 41
  BY CodeAt DEF native_enter, native_exit
<1>2. QED BY <1>1 DEF Label

\* The saved registers are different ones, and none is the stack pointer.
LEMMA Frames ==
  /\ \A j \in 1 .. 8 : Frame[j] \in Regs \ {"rsp", "rax"}
  /\ \A i, j \in 1 .. 8 : Frame[i] = Frame[j] => i = j
  /\ CalleeSaved \subseteq {Frame[j] : j \in 3 .. 8}
  /\ Frame[1] = "rcx" /\ Frame[2] = "r11"
BY DEF Frame, Regs, CalleeSaved, CallerSaved

\* The pushes and the pops, by number.
LEMMA Pushes == \A n \in 9 .. 16 : Code[n] = push(Frame[n - 8])
<1>1. \A n \in 9 .. 16 : Code[n] = syscall_entry[n - 6]
  BY CodeAt
<1>2. \A n \in 9 .. 16 : syscall_entry[n - 6] = push(Frame[n - 8])
  BY DEF syscall_entry, Frame
<1>3. QED BY <1>1, <1>2

LEMMA Pops == \A n \in 30 .. 37 : Code[n] = pop(Frame[38 - n])
<1>1. \A n \in 30 .. 37 : Code[n] = syscall_return[n - 29]
  BY CodeAt
<1>2. \A n \in 30 .. 37 : syscall_return[n - 29] = pop(Frame[38 - n])
  BY DEF syscall_return, Frame
<1>3. QED BY <1>1, <1>2
-----------------------------------------------------------------------------
(* The stacks *)

LEMMA StackWords ==
  /\ \A i \in 0 .. Words : ustack(i) \in Stacks
  /\ kstack(1) \in Stacks
  /\ \A i, j : ustack(i) = ustack(j) => i = j
  /\ \A i, j : ustack(i) # kstack(j)
  /\ \A i : Up(ustack(i)) = ustack(i + 1) /\ Down(ustack(i)) = ustack(i - 1)
BY DEF Stacks, ustack, kstack, Up, Down
-----------------------------------------------------------------------------
(* The instructions: what a step does at one of each kind *)

LEMMA StepLeaves ==
  ASSUME step
  PROVE  UNCHANGED <<LSTAR, SYSCALL_READY, LAST_EXIT, call>>
BY DEF step

LEMMA StepMov ==
  ASSUME NEW n \in 1 .. 41, NEW a, NEW b, pc = <<"code", n>>, Code[n] = mov(a, b), step
  PROVE  /\ regs' = [regs EXCEPT ![a] = regs[b]]
         /\ pc' = <<"code", n + 1>> /\ UNCHANGED <<mem, return_rsp, return_rip>>
<1>1. Code[pc[2]].op = "mov" /\ Code[pc[2]].a = a /\ Code[pc[2]].b = b
  BY DEF ins, mov
<1>2. Here = <<"code", n + 1>>
  BY DEF Here
<1>3. QED BY <1>1, <1>2, Zenon DEF step

LEMMA StepLea ==
  ASSUME NEW n \in 1 .. 41, NEW a, NEW b, pc = <<"code", n>>, Code[n] = ins("lea", a, b), step
  PROVE  /\ regs' = [regs EXCEPT ![a] = Label(b)]
         /\ pc' = <<"code", n + 1>> /\ UNCHANGED <<mem, return_rsp, return_rip>>
<1>1. Code[pc[2]].op = "lea" /\ Code[pc[2]].a = a /\ Code[pc[2]].b = b
  BY DEF ins
<1>2. Here = <<"code", n + 1>>
  BY DEF Here
<1>3. QED BY <1>1, <1>2, Zenon DEF step

LEMMA StepStore ==
  ASSUME NEW n \in 1 .. 41, NEW a, NEW b, pc = <<"code", n>>, Code[n] = ins("store", a, b), step
  PROVE  /\ return_rsp' = IF a = "return_rsp" THEN regs[b] ELSE return_rsp
         /\ return_rip' = IF a = "return_rip" THEN regs[b] ELSE return_rip
         /\ pc' = <<"code", n + 1>> /\ UNCHANGED <<regs, mem>>
<1>1. Code[pc[2]].op = "store" /\ Code[pc[2]].a = a /\ Code[pc[2]].b = b
  BY DEF ins
<1>2. Here = <<"code", n + 1>>
  BY DEF Here
<1>3. QED BY <1>1, <1>2, Zenon DEF step

LEMMA StepLoad ==
  ASSUME NEW n \in 1 .. 41, NEW a, NEW b, pc = <<"code", n>>, Code[n] = ins("load", a, b), step
  PROVE  /\ regs' = [regs EXCEPT ![a] = return_rsp]
         /\ pc' = <<"code", n + 1>> /\ UNCHANGED <<mem, return_rsp, return_rip>>
<1>1. Code[pc[2]].op = "load" /\ Code[pc[2]].a = a /\ Code[pc[2]].b = b
  BY DEF ins
<1>2. Here = <<"code", n + 1>>
  BY DEF Here
<1>3. QED BY <1>1, <1>2, Zenon DEF step

LEMMA StepPush ==
  ASSUME NEW n \in 1 .. 41, NEW a, pc = <<"code", n>>, Code[n] = push(a), step
  PROVE  /\ pushed(regs[a])
         /\ pc' = <<"code", n + 1>> /\ UNCHANGED <<return_rsp, return_rip>>
<1>1. Code[pc[2]].op = "push" /\ Code[pc[2]].a = a /\ Code[pc[2]].b = "none"
  BY DEF ins, push
<1>2. Here = <<"code", n + 1>>
  BY DEF Here
<1>3. QED BY <1>1, <1>2, Zenon DEF step

LEMMA StepPop ==
  ASSUME NEW n \in 1 .. 41, NEW a, pc = <<"code", n>>, Code[n] = pop(a), step
  PROVE  /\ regs' = [regs EXCEPT !["rsp"] = Up(@), ![a] = mem[regs["rsp"]]]
         /\ pc' = <<"code", n + 1>> /\ UNCHANGED <<mem, return_rsp, return_rip>>
<1>1. Code[pc[2]].op = "pop" /\ Code[pc[2]].a = a /\ Code[pc[2]].b = "none"
  BY DEF ins, pop
<1>2. Here = <<"code", n + 1>>
  BY DEF Here
<1>3. QED BY <1>1, <1>2, Zenon DEF step

LEMMA StepJe ==
  ASSUME NEW n \in 1 .. 41, NEW a, NEW b, pc = <<"code", n>>, Code[n] = ins("je", a, b), step
  PROVE  /\ pc' = IF regs["rax"] = <<"nr", a>> THEN Label(b) ELSE <<"code", n + 1>>
         /\ UNCHANGED <<regs, mem, return_rsp, return_rip>>
<1>1. Code[pc[2]].op = "je" /\ Code[pc[2]].a = a /\ Code[pc[2]].b = b
  BY DEF ins
<1>2. Here = <<"code", n + 1>>
  BY DEF Here
<1>3. QED BY <1>1, <1>2, Zenon DEF step

LEMMA StepCallr ==
  ASSUME NEW n \in 1 .. 41, NEW a, pc = <<"code", n>>, Code[n] = ins("callr", a, "none"), step
  PROVE  /\ pushed(<<"code", n + 1>>) /\ Goto(regs[a])
         /\ UNCHANGED <<return_rsp, return_rip>>
<1>1. Code[pc[2]].op = "callr" /\ Code[pc[2]].a = a /\ Code[pc[2]].b = "none"
  BY DEF ins
<1>2. Here = <<"code", n + 1>>
  BY DEF Here
<1>3. QED BY <1>1, <1>2, Zenon DEF step

LEMMA StepCall ==
  ASSUME NEW n \in 1 .. 41, NEW a, pc = <<"code", n>>, Code[n] = ins("call", a, "none"), step
  PROVE  /\ pushed(<<"code", n + 1>>)
         /\ pc' = IF a = "dispatch" THEN DISPATCH ELSE MARK_EXIT
         /\ UNCHANGED <<return_rsp, return_rip>>
<1>1. Code[pc[2]].op = "call" /\ Code[pc[2]].a = a /\ Code[pc[2]].b = "none"
  BY DEF ins
<1>2. Here = <<"code", n + 1>>
  BY DEF Here
<1>3. QED BY <1>1, <1>2, Zenon DEF step

LEMMA StepRet ==
  ASSUME NEW n \in 1 .. 41, pc = <<"code", n>>, Code[n] = ins("ret", "none", "none"), step
  PROVE  /\ regs' = [regs EXCEPT !["rsp"] = Up(@)] /\ Goto(mem[regs["rsp"]])
         /\ UNCHANGED <<mem, return_rsp, return_rip>>
<1>1. Code[pc[2]].op = "ret" /\ Code[pc[2]].a = "none" /\ Code[pc[2]].b = "none"
  BY DEF ins
<1>2. Here = <<"code", n + 1>>
  BY DEF Here
<1>3. QED BY <1>1, <1>2, Zenon DEF step

LEMMA StepJmpr ==
  ASSUME NEW n \in 1 .. 41, NEW a, pc = <<"code", n>>, Code[n] = ins("jmpr", a, "none"), step
  PROVE  /\ Goto(regs[a])
         /\ UNCHANGED <<regs, mem, return_rsp, return_rip>>
<1>1. Code[pc[2]].op = "jmpr" /\ Code[pc[2]].a = a /\ Code[pc[2]].b = "none"
  BY DEF ins
<1>2. Here = <<"code", n + 1>>
  BY DEF Here
<1>3. QED BY <1>1, <1>2, Zenon DEF step

LEMMA StepJmpm ==
  ASSUME NEW n \in 1 .. 41, NEW a, pc = <<"code", n>>, Code[n] = ins("jmpm", a, "none"), step
  PROVE  /\ Goto(return_rip)
         /\ UNCHANGED <<regs, mem, return_rsp, return_rip>>
<1>1. Code[pc[2]].op = "jmpm" /\ Code[pc[2]].a = a /\ Code[pc[2]].b = "none"
  BY DEF ins
<1>2. Here = <<"code", n + 1>>
  BY DEF Here
<1>3. QED BY <1>1, <1>2, Zenon DEF step

LEMMA GotoCode ==
  ASSUME NEW n, Goto(<<"code", n>>)
  PROVE  pc' = <<"code", n>>
BY DEF Goto
-----------------------------------------------------------------------------
(* What a push, a pop and a function of the kernel do to the stacks *)

LEMMA Pushed ==
  ASSUME Shape, NEW v, NEW i \in 1 .. Words, regs["rsp"] = ustack(i), pushed(v)
  PROVE  /\ Shape' /\ regs'["rsp"] = ustack(i - 1)
         /\ \A r \in Regs \ {"rsp"} : regs'[r] = regs[r]
         /\ mem'[ustack(i - 1)] = v
         /\ \A x \in Stacks \ {ustack(i - 1)} : mem'[x] = mem[x]
<1>1. Down(regs["rsp"]) = ustack(i - 1) /\ ustack(i - 1) \in Stacks /\ "rsp" \in Regs
  BY StackWords DEF Regs
<1>2. /\ regs' = [regs EXCEPT !["rsp"] = ustack(i - 1)]
      /\ mem' = [mem EXCEPT ![ustack(i - 1)] = v]
  BY <1>1 DEF pushed
<1>3. QED BY <1>1, <1>2 DEF Shape

LEMMA Popped ==
  ASSUME Shape, NEW a \in Regs \ {"rsp"}, NEW v, NEW i \in 0 .. Words - 1, regs["rsp"] = ustack(i),
         regs' = [regs EXCEPT !["rsp"] = Up(@), ![a] = v], mem' = mem
  PROVE  /\ Shape' /\ regs'["rsp"] = ustack(i + 1) /\ regs'[a] = v
         /\ \A r \in Regs \ {"rsp", a} : regs'[r] = regs[r]
<1>1. Up(regs["rsp"]) = ustack(i + 1) /\ "rsp" \in Regs
  BY StackWords DEF Regs
<1>2. QED BY <1>1 DEF Shape

LEMMA Returned ==
  ASSUME Shape, NEW v, NEW i \in 0 .. Words - 1, regs["rsp"] = ustack(i), rust_returns(v)
  PROVE  /\ Shape' /\ regs'["rsp"] = ustack(i + 1) /\ regs'["rax"] = v
         /\ \A r \in CalleeSaved : regs'[r] = regs[r]
         /\ \A j \in i .. Words : mem'[ustack(j)] = mem[ustack(j)]
         /\ mem'[kstack(1)] = mem[kstack(1)]
         /\ Goto(mem[regs["rsp"]])
<1>1. Up(regs["rsp"]) = ustack(i + 1) /\ kstack(1) \in Stacks /\ \A j \in i .. Words : ustack(j) \in Stacks
  BY StackWords
<1>2. kstack(1) \notin Below(ustack(i)) /\ \A j \in i .. Words : ustack(j) \notin Below(ustack(i))
  BY DEF Below, ustack, kstack
<1>3. mem' = [x \in Stacks |-> IF x \in Below(regs["rsp"]) THEN <<"rust", "rsp">> ELSE mem[x]]
  BY DEF rust_returns
<1>4. PICK clobbered \in {{}, CallerSaved} :
        regs' = [r \in Regs |->
                  CASE r = "rsp" -> Up(regs["rsp"])
                    [] r = "rax" -> v
                    [] OTHER -> IF r \in clobbered THEN <<"rust", r>> ELSE regs[r]]
  BY DEF rust_returns
<1>5. /\ DOMAIN mem' = Stacks /\ \A j \in i .. Words : mem'[ustack(j)] = mem[ustack(j)]
      /\ mem'[kstack(1)] = mem[kstack(1)]
  BY <1>1, <1>2, <1>3
<1>6. DOMAIN regs' = Regs /\ regs'["rsp"] = ustack(i + 1) /\ regs'["rax"] = v
  BY <1>1, <1>4 DEF Regs, CallerSaved
<1>7. \A r \in CalleeSaved : regs'[r] = regs[r]
  BY <1>4 DEF Regs, CallerSaved, CalleeSaved
<1>8. QED BY <1>5, <1>6, <1>7 DEF Shape, rust_returns
-----------------------------------------------------------------------------
(* The two action properties, as what one step does *)

Restores ==
  pc # PROGRAM /\ pc' = PROGRAM /\ call # NoCall =>
    /\ regs'["rax"] = <<"result", 0>>
    /\ \A r \in CalleeSaved \cup {"rsp"} : regs'[r] = call.regs[r]
    /\ \A x \in Above(regs'["rsp"]) : mem'[x] = call.mem[x]

BackByExit ==
  pc # KERNEL /\ pc' = KERNEL =>
    /\ call.regs["rax"] \in {<<"nr", 60>>, <<"nr", 231>>}
    /\ regs'["rsp"] = Up(KernelRegs["rsp"])
    /\ LAST_EXIT' = call.regs["rdi"]

\* Most steps end at an instruction of the assembly.
LEMMA InsideCode ==
  ASSUME NEW n, pc' = <<"code", n>>
  PROVE  Restores /\ BackByExit
BY DEF Restores, BackByExit, PROGRAM, KERNEL

\* A step of the assembly that leaves the two fixed words alone.
LEMMA StepFixed ==
  ASSUME NativeInv, step, Shape', AtPc',
         mem'[kstack(1)] = mem[kstack(1)], mem'[ustack(Words)] = mem[ustack(Words)]
  PROVE  NativeInv'
<1>1. pc # KERNEL
  BY DEF step, KERNEL
<1>2. UNCHANGED <<LSTAR, SYSCALL_READY>>
  BY StepLeaves
<1>3. Fixed'
  BY <1>1, <1>2 DEF NativeInv, Fixed
<1>4. QED BY <1>3 DEF NativeInv
-----------------------------------------------------------------------------
(* leonos3_native_enter *)

LEMMA EnterSteps ==
  ASSUME NativeInv, NEW n \in 1 .. 6, pc = <<"code", n>>, AtEnter(n), step
  PROVE  NativeInv' /\ Restores /\ BackByExit
<1>0. Shape /\ Fixed /\ n \in 1 .. 41
  BY DEF NativeInv
<1>1. Code[n] = native_enter[n]
  BY CodeAt
<1>2. call' = call /\ LAST_EXIT' = LAST_EXIT
  BY StepLeaves
<1>3. CASE n = 1
  <2>1. Code[n] = ins("store", "return_rsp", "rsp")
    BY <1>1, <1>3 DEF native_enter
  <2>2. return_rsp' = regs["rsp"] /\ pc' = <<"code", 2>> /\ UNCHANGED <<regs, mem>>
    BY <1>0, <1>3, <2>1, StepStore
  <2>3. AtEnter(2)'
    BY <1>2, <1>3, <2>2 DEF AtEnter
  <2>4. Shape' /\ AtPc'
    BY <1>0, <2>2, <2>3 DEF Shape, AtPc
  <2>5. QED BY <2>2, <2>4, StepFixed, InsideCode
<1>4. CASE n = 2
  <2>1. Code[n] = ins("lea", "rax", "native_return")
    BY <1>1, <1>4 DEF native_enter
  <2>2. /\ regs' = [regs EXCEPT !["rax"] = <<"code", 6>>] /\ pc' = <<"code", 3>>
        /\ UNCHANGED <<mem, return_rsp, return_rip>>
    BY <1>0, <1>4, <2>1, StepLea, Labels
  <2>3. AtEnter(3)'
    BY <1>0, <1>2, <1>4, <2>2 DEF AtEnter, Shape, Regs, CallerSaved
  <2>4. Shape' /\ AtPc'
    BY <1>0, <2>2, <2>3 DEF Shape, AtPc
  <2>5. QED BY <2>2, <2>4, StepFixed, InsideCode
<1>5. CASE n = 3
  <2>1. Code[n] = ins("store", "return_rip", "rax")
    BY <1>1, <1>5 DEF native_enter
  <2>2. return_rip' = regs["rax"] /\ return_rsp' = return_rsp /\ pc' = <<"code", 4>> /\ UNCHANGED <<regs, mem>>
    BY <1>0, <1>5, <2>1, StepStore
  <2>3. AtEnter(4)'
    BY <1>2, <1>5, <2>2 DEF AtEnter
  <2>4. Shape' /\ AtPc'
    BY <1>0, <2>2, <2>3 DEF Shape, AtPc
  <2>5. QED BY <2>2, <2>4, StepFixed, InsideCode
<1>6. CASE n = 4
  <2>1. Code[n] = mov("rsp", "rsi")
    BY <1>1, <1>6 DEF native_enter
  <2>2. /\ regs' = [regs EXCEPT !["rsp"] = regs["rsi"]] /\ pc' = <<"code", 5>>
        /\ UNCHANGED <<mem, return_rsp, return_rip>>
    BY <1>0, <1>6, <2>1, StepMov
  <2>3. AtEnter(5)'
    BY <1>0, <1>2, <1>6, <2>2 DEF AtEnter, Shape, Regs, CallerSaved
  <2>4. Shape' /\ AtPc'
    BY <1>0, <2>2, <2>3 DEF Shape, AtPc
  <2>5. QED BY <2>2, <2>4, StepFixed, InsideCode
<1>7. CASE n = 5
  <2>1. Code[n] = ins("callr", "rdi", "none")
    BY <1>1, <1>7 DEF native_enter
  <2>2. /\ pushed(<<"code", 6>>) /\ Goto(regs["rdi"]) /\ UNCHANGED <<return_rsp, return_rip>>
    <3>1. pushed(<<"code", n + 1>>) /\ Goto(regs["rdi"]) /\ UNCHANGED <<return_rsp, return_rip>>
      BY <1>0, <2>1, StepCallr, Zenon
    <3>2. n + 1 = 6
      BY <1>7
    <3>3. QED BY <3>1, <3>2
  <2>3. pc' = PROGRAM
    BY <1>7, <2>2 DEF AtEnter, Goto, PROGRAM
  <2>4. /\ regs["rsp"] = ustack(Words) /\ Words \in 1 .. Words
    BY <1>7 DEF AtEnter
  <2>5. /\ Shape' /\ regs'["rsp"] = ustack(Words - 1) /\ mem'[ustack(Words - 1)] = <<"code", 6>>
        /\ \A x \in Stacks \ {ustack(Words - 1)} : mem'[x] = mem[x]
    BY <1>0, <2>2, <2>4, Pushed
  <2>6. AtProgram'
    BY <1>7, <2>2, <2>5 DEF AtProgram, AtEnter, ReturnSet, Room, EntryRsp
  <2>7. mem'[kstack(1)] = mem[kstack(1)] /\ mem'[ustack(Words)] = mem[ustack(Words)]
    BY <2>5, StackWords
  <2>8. NativeInv'
    BY <2>3, <2>5, <2>6, <2>7, StepFixed DEF AtPc
  <2>9. Restores /\ BackByExit
    BY <1>7, <2>3 DEF Restores, BackByExit, AtEnter, PROGRAM, KERNEL
  <2>10. QED BY <2>8, <2>9
<1>8. CASE n = 6
  <2>1. Code[n] = ins("ret", "none", "none")
    BY <1>1, <1>8 DEF native_enter
  <2>2. /\ regs' = [regs EXCEPT !["rsp"] = Up(@)] /\ Goto(mem[regs["rsp"]])
        /\ UNCHANGED <<mem, return_rsp, return_rip>>
    BY <1>0, <2>1, StepRet
  <2>3. CASE regs["rsp"] = ustack(Words)
    <3>1. pc' = FAULT
      BY <1>0, <2>2, <2>3 DEF Fixed, Goto
    <3>2. QED
      BY <1>0, <2>2, <3>1, StepFixed
      DEF Shape, AtPc, FAULT, Restores, BackByExit, PROGRAM, KERNEL
  <2>4. CASE /\ regs["rsp"] = kstack(1)
             /\ call.regs["rax"] \in Exits /\ LAST_EXIT = call.regs["rdi"]
    <3>1. pc' = KERNEL
      BY <1>0, <2>2, <2>4 DEF Fixed, Goto, KERNEL
    <3>2. NativeInv'
      BY <1>0, <2>2, <3>1, StepFixed DEF Shape, AtPc
    <3>3. regs'["rsp"] = Up(kstack(1)) /\ KernelRegs["rsp"] = kstack(1)
      BY <1>0, <2>2, <2>4 DEF Shape, Regs, KernelRegs
    <3>4. QED BY <1>2, <2>4, <3>1, <3>2, <3>3 DEF Restores, BackByExit, PROGRAM, KERNEL, Exits
  <2>5. QED BY <1>8, <2>3, <2>4 DEF AtEnter
<1>9. QED BY <1>3, <1>4, <1>5, <1>6, <1>7, <1>8
-----------------------------------------------------------------------------
(* leonos3_native_syscall_entry, up to the call of the dispatcher *)

\* A word pushed below the program's: the ones above keep what they had.
LEMMA CallPush ==
  ASSUME Shape, NEW k \in 0 .. 8, NEW f \in 0 .. k, InCall(k, f), NEW v, pushed(v),
         UNCHANGED <<call, return_rsp, return_rip>>
  PROVE  /\ Shape' /\ InCall(k + 1, f)'
         /\ mem'[ustack(CallRsp - (k + 1))] = v /\ mem'[regs'["rsp"]] = v
         /\ \A r \in Regs \ {"rsp"} : regs'[r] = regs[r]
         /\ mem'[kstack(1)] = mem[kstack(1)] /\ mem'[ustack(Words)] = mem[ustack(Words)]
<1>1. PICK p : p = CallRsp
  OBVIOUS
<1>2. p \in Room .. Words - 1 /\ p' = p /\ CallRsp' = p
  BY <1>1 DEF InCall, CallRsp
<1>3. p - k \in 1 .. Words /\ (p - k) - 1 = p - (k + 1) /\ p - (k + 1) \in 0 .. Words
  BY <1>2 DEF Room
<1>4. regs["rsp"] = ustack(p - k)
  BY <1>1 DEF InCall
<1>5. /\ Shape' /\ regs'["rsp"] = ustack(p - (k + 1))
      /\ mem'[ustack(p - (k + 1))] = v
      /\ \A x \in Stacks \ {ustack(p - (k + 1))} : mem'[x] = mem[x]
      /\ \A r \in Regs \ {"rsp"} : regs'[r] = regs[r]
  <2>1. /\ Shape' /\ regs'["rsp"] = ustack((p - k) - 1)
        /\ \A r \in Regs \ {"rsp"} : regs'[r] = regs[r]
        /\ mem'[ustack((p - k) - 1)] = v
        /\ \A x \in Stacks \ {ustack((p - k) - 1)} : mem'[x] = mem[x]
    BY <1>3, <1>4, Pushed, Zenon
  <2>2. QED BY <1>3, <2>1
<1>6. \A i \in p - k .. Words : mem'[ustack(i)] = mem[ustack(i)]
  <2>1. SUFFICES ASSUME NEW i \in p - k .. Words PROVE mem'[ustack(i)] = mem[ustack(i)]
    OBVIOUS
  <2>2. i \in 0 .. Words /\ i # p - (k + 1)
    BY <1>2, <1>3
  <2>3. QED BY <1>5, <2>2, StackWords
<1>7. mem'[kstack(1)] = mem[kstack(1)]
  BY <1>5, StackWords
<1>8. InCall(k + 1, f)'
  <2>1. \A i \in p .. Words : mem'[ustack(i)] = call.mem[ustack(i)]
    BY <1>1, <1>2, <1>6 DEF InCall
  <2>2. \A j \in 1 .. f : mem'[ustack(p - j)] = AtEntry(Frame[j])
    BY <1>1, <1>2, <1>6 DEF InCall
  <2>3. \A r : AtEntry(r)' = AtEntry(r)
    BY DEF AtEntry
  <2>4. QED BY <1>1, <1>2, <1>5, <2>1, <2>2, <2>3 DEF InCall, ReturnSet
<1>9. mem'[ustack(Words)] = mem[ustack(Words)]
  BY <1>2, <1>3, <1>6
<1>10. QED BY <1>1, <1>5, <1>7, <1>8, <1>9

LEMMA SaveSteps ==
  ASSUME NativeInv, NEW n \in 7 .. 16, pc = <<"code", n>>, AtSave(n), step
  PROVE  NativeInv' /\ Restores /\ BackByExit
<1>0. Shape /\ Fixed /\ n \in 1 .. 41 /\ Untouched
  BY DEF NativeInv, AtSave
<1>1. Code[n] = syscall_entry[n - 6]
  BY CodeAt
<1>2. call' = call /\ LAST_EXIT' = LAST_EXIT
  BY StepLeaves
<1>3. ASSUME NEW nr \in {60, 231}, n \in {7, 8}, Code[n] = ins("je", nr, "native_exit")
      PROVE  NativeInv' /\ Restores /\ BackByExit
  <2>1. /\ pc' = IF regs["rax"] = <<"nr", nr>> THEN <<"code", 39>> ELSE <<"code", n + 1>>
        /\ UNCHANGED <<regs, mem, return_rsp, return_rip>>
    BY <1>0, <1>3, StepJe, Labels
  <2>2. InCall(0, 0)' /\ Untouched'
    BY <1>0, <1>2, <1>3, <2>1 DEF AtSave, InCall, CallRsp, ReturnSet, Untouched, AtEntry
  <2>3. CASE regs["rax"] = <<"nr", nr>>
    <3>1. regs["rax"] = call.regs["rax"] /\ regs["rdi"] = call.regs["rdi"]
      BY <1>0 DEF Untouched, AtEntry, Regs, CallerSaved
    <3>2. AtExit(39)'
      BY <1>2, <1>3, <2>1, <2>2, <2>3, <3>1 DEF AtExit, Exits
    <3>3. pc' = <<"code", 39>> /\ 39 \in 39 .. 41
      BY <2>1, <2>3
    <3>4. Shape' /\ AtPc'
      BY <1>0, <2>1, <3>2, <3>3 DEF Shape, AtPc
    <3>5. QED BY <2>1, <3>3, <3>4, StepFixed, InsideCode
  <2>4. CASE regs["rax"] # <<"nr", nr>>
    <3>1. pc' = <<"code", n + 1>> /\ n + 1 \in 8 .. 9
      BY <1>3, <2>1, <2>4
    <3>2. AtSave(n + 1)'
      <4>1. n + 1 > 8 => n + 1 = 9 /\ (n + 1) - 9 = 0
        BY <3>1
      <4>2. QED BY <2>2, <3>1, <4>1 DEF AtSave
    <3>3. Shape' /\ AtPc'
      BY <1>0, <2>1, <3>1, <3>2 DEF Shape, AtPc
    <3>4. QED BY <2>1, <3>1, <3>3, StepFixed, InsideCode
  <2>5. QED BY <2>3, <2>4
<1>4. CASE n = 7
  <2>1. Code[n] = ins("je", 60, "native_exit")
    BY <1>1, <1>4 DEF syscall_entry
  <2>2. QED BY <1>3, <1>4, <2>1
<1>5. CASE n = 8
  <2>1. Code[n] = ins("je", 231, "native_exit")
    BY <1>1, <1>5 DEF syscall_entry
  <2>2. QED BY <1>3, <1>5, <2>1
<1>6. CASE n \in 9 .. 16
  <2> DEFINE k == n - 9
  <2>1. k \in 0 .. 7 /\ n - 8 = k + 1 /\ k \in 0 .. 8 /\ k \in 0 .. k /\ k + 1 \in 1 .. 8
    BY <1>6
  <2>2. PICK r : r = Frame[k + 1]
    OBVIOUS
  <2>3. Code[n] = push(r)
    BY <1>6, <2>1, <2>2, Pushes
  <2>4. r \in Regs \ {"rsp"} /\ regs[r] = AtEntry(r)
    BY <1>0, <2>1, <2>2, Frames DEF Untouched
  <2>5. pushed(regs[r]) /\ pc' = <<"code", n + 1>> /\ UNCHANGED <<return_rsp, return_rip>>
    BY <1>0, <2>3, StepPush
  <2>6. InCall(k, k)
    BY <1>6 DEF AtSave
  <2> HIDE DEF k
  <2>7. /\ Shape' /\ InCall(k + 1, k)' /\ mem'[ustack(CallRsp - (k + 1))] = regs[r]
        /\ \A q \in Regs \ {"rsp"} : regs'[q] = regs[q]
        /\ mem'[kstack(1)] = mem[kstack(1)] /\ mem'[ustack(Words)] = mem[ustack(Words)]
    BY <1>0, <1>2, <2>1, <2>5, <2>6, CallPush
  <2>8. InCall(k + 1, k + 1)'
    <3>1. \A j \in 1 .. k : mem'[ustack(CallRsp' - j)] = AtEntry(Frame[j])'
      BY <2>7 DEF InCall
    <3>2. mem'[ustack(CallRsp' - (k + 1))] = AtEntry(Frame[k + 1])'
      BY <1>2, <2>2, <2>4, <2>7 DEF CallRsp, AtEntry
    <3>3. \A j \in 1 .. k + 1 : j \in 1 .. k \/ j = k + 1
      BY <2>1
    <3>4. \A j \in 1 .. k + 1 : mem'[ustack(CallRsp' - j)] = AtEntry(Frame[j])'
      BY <3>1, <3>2, <3>3
    <3>5. QED BY <2>7, <3>4 DEF InCall
  <2>9. Untouched'
    BY <1>0, <1>2, <2>7 DEF Untouched, AtEntry
  <2>10. AtPc'
    <3>1. CASE n \in 9 .. 15
      <4>1. n + 1 \in 7 .. 16 /\ n + 1 > 8 /\ (n + 1) - 9 = k + 1
        BY <2>1, <3>1
      <4>2. AtSave(n + 1)'
        BY <2>8, <2>9, <4>1 DEF AtSave
      <4>3. QED BY <2>5, <4>1, <4>2 DEF AtPc
    <3>2. CASE n = 16
      <4>1. n + 1 = 17 /\ k + 1 = 8
        BY <2>1, <3>2
      <4>2. InCall(8, 8)'
        BY <2>8, <4>1
      <4>3. Waiting(17)' /\ Moved(17)'
        BY <2>9 DEF Waiting, Moved, Untouched, AtEntry, Regs, CallerSaved
      <4>4. AtMoves(17)'
        BY <4>2, <4>3 DEF AtMoves
      <4>5. QED BY <2>5, <4>1, <4>4 DEF AtPc
    <3>3. QED BY <1>6, <3>1, <3>2
  <2>11. QED BY <2>5, <2>7, <2>10, StepFixed, InsideCode
<1>7. QED BY <1>4, <1>5, <1>6

\* A move leaves the stack alone.
LEMMA MoveKeeps ==
  ASSUME NativeInv, NEW n \in 17 .. 28, pc = <<"code", n>>, AtMoves(n), step,
         NEW a \in Regs \ {"rsp"}, NEW b \in Regs, Code[n] = mov(a, b)
  PROVE  /\ regs'[a] = regs[b] /\ \A r \in Regs \ {a} : regs'[r] = regs[r]
         /\ call' = call
         /\ InCall(8, 8)'
         /\ (Waiting(n + 1) /\ Moved(n + 1))' => NativeInv' /\ Restores /\ BackByExit
<1>0. Shape /\ Fixed /\ n \in 1 .. 41
  BY DEF NativeInv
<1>1. /\ regs' = [regs EXCEPT ![a] = regs[b]]
      /\ pc' = <<"code", n + 1>> /\ UNCHANGED <<mem, return_rsp, return_rip>>
  BY <1>0, StepMov
<1>2. call' = call
  BY StepLeaves
<1>3. /\ DOMAIN regs' = Regs /\ regs'[a] = regs[b]
      /\ \A r \in Regs \ {a} : regs'[r] = regs[r]
  BY <1>0, <1>1 DEF Shape
<1>4. InCall(8, 8)'
  <2>1. regs'["rsp"] = regs["rsp"]
    BY <1>3 DEF Regs
  <2>2. QED BY <1>1, <1>2, <2>1 DEF AtMoves, InCall, CallRsp, ReturnSet, AtEntry
<1>5. ASSUME (Waiting(n + 1) /\ Moved(n + 1))' PROVE NativeInv' /\ Restores /\ BackByExit
  <2>1. n + 1 \in 17 .. 29
    OBVIOUS
  <2>2. Shape' /\ AtPc'
    BY <1>0, <1>1, <1>3, <1>4, <1>5, <2>1 DEF Shape, AtPc, AtMoves
  <2>3. QED BY <1>1, <2>2, StepFixed, InsideCode
<1>6. QED BY <1>2, <1>3, <1>4, <1>5

LEMMA MoveSteps ==
  ASSUME NativeInv, NEW n \in 17 .. 29, pc = <<"code", n>>, AtMoves(n), step
  PROVE  NativeInv' /\ Restores /\ BackByExit
<1>0. Shape /\ Fixed /\ n \in 1 .. 41 /\ Waiting(n) /\ Moved(n) /\ InCall(8, 8)
  BY DEF NativeInv, AtMoves
<1>1. Code[n] = dispatch_args[n - 16]
  BY CodeAt
<1>2. call' = call
  BY StepLeaves
<1> DEFINE Ok == NativeInv' /\ Restores /\ BackByExit
<1>4. CASE n = 17
  <2>1. Code[n] = mov("rbx", "rdi") /\ n \in 17 .. 28
    BY <1>1, <1>4 DEF dispatch_args
  <2>2. "rbx" \in Regs \ {"rsp"} /\ "rdi" \in Regs
    BY DEF Regs, CalleeSaved, CallerSaved
  <2>3. /\ regs'["rbx"] = regs["rdi"] /\ \A r \in Regs \ {"rbx"} : regs'[r] = regs[r]
        /\ (Waiting(n + 1) /\ Moved(n + 1))' => Ok
    BY <2>1, <2>2, MoveKeeps
  <2>4. (Waiting(n + 1) /\ Moved(n + 1))'
    BY <1>0, <1>2, <1>4, <2>3 DEF Waiting, Moved, Regs, CalleeSaved, CallerSaved
  <2>5. QED BY <2>3, <2>4
<1>5. CASE n = 18
  <2>1. Code[n] = mov("rbp", "rsi") /\ n \in 17 .. 28
    BY <1>1, <1>5 DEF dispatch_args
  <2>2. "rbp" \in Regs \ {"rsp"} /\ "rsi" \in Regs
    BY DEF Regs, CalleeSaved, CallerSaved
  <2>3. /\ regs'["rbp"] = regs["rsi"] /\ \A r \in Regs \ {"rbp"} : regs'[r] = regs[r]
        /\ (Waiting(n + 1) /\ Moved(n + 1))' => Ok
    BY <2>1, <2>2, MoveKeeps
  <2>4. (Waiting(n + 1) /\ Moved(n + 1))'
    BY <1>0, <1>2, <1>5, <2>3 DEF Waiting, Moved, Regs, CalleeSaved, CallerSaved
  <2>5. QED BY <2>3, <2>4
<1>6. CASE n = 19
  <2>1. Code[n] = mov("r12", "rdx") /\ n \in 17 .. 28
    BY <1>1, <1>6 DEF dispatch_args
  <2>2. "r12" \in Regs \ {"rsp"} /\ "rdx" \in Regs
    BY DEF Regs, CalleeSaved, CallerSaved
  <2>3. /\ regs'["r12"] = regs["rdx"] /\ \A r \in Regs \ {"r12"} : regs'[r] = regs[r]
        /\ (Waiting(n + 1) /\ Moved(n + 1))' => Ok
    BY <2>1, <2>2, MoveKeeps
  <2>4. (Waiting(n + 1) /\ Moved(n + 1))'
    BY <1>0, <1>2, <1>6, <2>3 DEF Waiting, Moved, Regs, CalleeSaved, CallerSaved
  <2>5. QED BY <2>3, <2>4
<1>7. CASE n = 20
  <2>1. Code[n] = mov("r13", "r10") /\ n \in 17 .. 28
    BY <1>1, <1>7 DEF dispatch_args
  <2>2. "r13" \in Regs \ {"rsp"} /\ "r10" \in Regs
    BY DEF Regs, CalleeSaved, CallerSaved
  <2>3. /\ regs'["r13"] = regs["r10"] /\ \A r \in Regs \ {"r13"} : regs'[r] = regs[r]
        /\ (Waiting(n + 1) /\ Moved(n + 1))' => Ok
    BY <2>1, <2>2, MoveKeeps
  <2>4. (Waiting(n + 1) /\ Moved(n + 1))'
    BY <1>0, <1>2, <1>7, <2>3 DEF Waiting, Moved, Regs, CalleeSaved, CallerSaved
  <2>5. QED BY <2>3, <2>4
<1>8. CASE n = 21
  <2>1. Code[n] = mov("r14", "r8") /\ n \in 17 .. 28
    BY <1>1, <1>8 DEF dispatch_args
  <2>2. "r14" \in Regs \ {"rsp"} /\ "r8" \in Regs
    BY DEF Regs, CalleeSaved, CallerSaved
  <2>3. /\ regs'["r14"] = regs["r8"] /\ \A r \in Regs \ {"r14"} : regs'[r] = regs[r]
        /\ (Waiting(n + 1) /\ Moved(n + 1))' => Ok
    BY <2>1, <2>2, MoveKeeps
  <2>4. (Waiting(n + 1) /\ Moved(n + 1))'
    BY <1>0, <1>2, <1>8, <2>3 DEF Waiting, Moved, Regs, CalleeSaved, CallerSaved
  <2>5. QED BY <2>3, <2>4
<1>9. CASE n = 22
  <2>1. Code[n] = mov("r15", "r9") /\ n \in 17 .. 28
    BY <1>1, <1>9 DEF dispatch_args
  <2>2. "r15" \in Regs \ {"rsp"} /\ "r9" \in Regs
    BY DEF Regs, CalleeSaved, CallerSaved
  <2>3. /\ regs'["r15"] = regs["r9"] /\ \A r \in Regs \ {"r15"} : regs'[r] = regs[r]
        /\ (Waiting(n + 1) /\ Moved(n + 1))' => Ok
    BY <2>1, <2>2, MoveKeeps
  <2>4. (Waiting(n + 1) /\ Moved(n + 1))'
    BY <1>0, <1>2, <1>9, <2>3 DEF Waiting, Moved, Regs, CalleeSaved, CallerSaved
  <2>5. QED BY <2>3, <2>4
<1>10. CASE n = 23
  <2>1. Code[n] = mov("rdi", "rax") /\ n \in 17 .. 28
    BY <1>1, <1>10 DEF dispatch_args
  <2>2. "rdi" \in Regs \ {"rsp"} /\ "rax" \in Regs
    BY DEF Regs, CalleeSaved, CallerSaved
  <2>3. /\ regs'["rdi"] = regs["rax"] /\ \A r \in Regs \ {"rdi"} : regs'[r] = regs[r]
        /\ (Waiting(n + 1) /\ Moved(n + 1))' => Ok
    BY <2>1, <2>2, MoveKeeps
  <2>4. (Waiting(n + 1) /\ Moved(n + 1))'
    BY <1>0, <1>2, <1>10, <2>3 DEF Waiting, Moved, Regs, CalleeSaved, CallerSaved
  <2>5. QED BY <2>3, <2>4
<1>11. CASE n = 24
  <2>1. Code[n] = mov("rsi", "rbx") /\ n \in 17 .. 28
    BY <1>1, <1>11 DEF dispatch_args
  <2>2. "rsi" \in Regs \ {"rsp"} /\ "rbx" \in Regs
    BY DEF Regs, CalleeSaved, CallerSaved
  <2>3. /\ regs'["rsi"] = regs["rbx"] /\ \A r \in Regs \ {"rsi"} : regs'[r] = regs[r]
        /\ (Waiting(n + 1) /\ Moved(n + 1))' => Ok
    BY <2>1, <2>2, MoveKeeps
  <2>4. (Waiting(n + 1) /\ Moved(n + 1))'
    BY <1>0, <1>2, <1>11, <2>3 DEF Waiting, Moved, Regs, CalleeSaved, CallerSaved
  <2>5. QED BY <2>3, <2>4
<1>12. CASE n = 25
  <2>1. Code[n] = mov("rdx", "rbp") /\ n \in 17 .. 28
    BY <1>1, <1>12 DEF dispatch_args
  <2>2. "rdx" \in Regs \ {"rsp"} /\ "rbp" \in Regs
    BY DEF Regs, CalleeSaved, CallerSaved
  <2>3. /\ regs'["rdx"] = regs["rbp"] /\ \A r \in Regs \ {"rdx"} : regs'[r] = regs[r]
        /\ (Waiting(n + 1) /\ Moved(n + 1))' => Ok
    BY <2>1, <2>2, MoveKeeps
  <2>4. (Waiting(n + 1) /\ Moved(n + 1))'
    BY <1>0, <1>2, <1>12, <2>3 DEF Waiting, Moved, Regs, CalleeSaved, CallerSaved
  <2>5. QED BY <2>3, <2>4
<1>13. CASE n = 26
  <2>1. Code[n] = mov("rcx", "r12") /\ n \in 17 .. 28
    BY <1>1, <1>13 DEF dispatch_args
  <2>2. "rcx" \in Regs \ {"rsp"} /\ "r12" \in Regs
    BY DEF Regs, CalleeSaved, CallerSaved
  <2>3. /\ regs'["rcx"] = regs["r12"] /\ \A r \in Regs \ {"rcx"} : regs'[r] = regs[r]
        /\ (Waiting(n + 1) /\ Moved(n + 1))' => Ok
    BY <2>1, <2>2, MoveKeeps
  <2>4. (Waiting(n + 1) /\ Moved(n + 1))'
    BY <1>0, <1>2, <1>13, <2>3 DEF Waiting, Moved, Regs, CalleeSaved, CallerSaved
  <2>5. QED BY <2>3, <2>4
<1>14. CASE n = 27
  <2>1. Code[n] = mov("r8", "r13") /\ n \in 17 .. 28
    BY <1>1, <1>14 DEF dispatch_args
  <2>2. "r8" \in Regs \ {"rsp"} /\ "r13" \in Regs
    BY DEF Regs, CalleeSaved, CallerSaved
  <2>3. /\ regs'["r8"] = regs["r13"] /\ \A r \in Regs \ {"r8"} : regs'[r] = regs[r]
        /\ (Waiting(n + 1) /\ Moved(n + 1))' => Ok
    BY <2>1, <2>2, MoveKeeps
  <2>4. (Waiting(n + 1) /\ Moved(n + 1))'
    BY <1>0, <1>2, <1>14, <2>3 DEF Waiting, Moved, Regs, CalleeSaved, CallerSaved
  <2>5. QED BY <2>3, <2>4
<1>15. CASE n = 28
  <2>1. Code[n] = mov("r9", "r14") /\ n \in 17 .. 28
    BY <1>1, <1>15 DEF dispatch_args
  <2>2. "r9" \in Regs \ {"rsp"} /\ "r14" \in Regs
    BY DEF Regs, CalleeSaved, CallerSaved
  <2>3. /\ regs'["r9"] = regs["r14"] /\ \A r \in Regs \ {"r9"} : regs'[r] = regs[r]
        /\ (Waiting(n + 1) /\ Moved(n + 1))' => Ok
    BY <2>1, <2>2, MoveKeeps
  <2>4. (Waiting(n + 1) /\ Moved(n + 1))'
    BY <1>0, <1>2, <1>15, <2>3 DEF Waiting, Moved, Regs, CalleeSaved, CallerSaved
  <2>5. QED BY <2>3, <2>4
<1>16. CASE n = 29
  <2>1. Code[n] = ins("call", "dispatch", "none")
    BY <1>1, <1>16 DEF dispatch_args
  <2>2. /\ pushed(<<"code", 30>>) /\ pc' = DISPATCH /\ UNCHANGED <<return_rsp, return_rip>>
    <3>1. /\ pushed(<<"code", n + 1>>)
          /\ pc' = IF "dispatch" = "dispatch" THEN DISPATCH ELSE MARK_EXIT
          /\ UNCHANGED <<return_rsp, return_rip>>
      BY <1>0, <2>1, StepCall, Zenon
    <3>2. n + 1 = 30
      BY <1>16
    <3>3. QED BY <3>1, <3>2
  <2>3. /\ Shape' /\ InCall(9, 8)' /\ mem'[regs'["rsp"]] = <<"code", 30>>
        /\ \A r \in Regs \ {"rsp"} : regs'[r] = regs[r]
        /\ mem'[kstack(1)] = mem[kstack(1)] /\ mem'[ustack(Words)] = mem[ustack(Words)]
    <3>1. 8 \in 0 .. 8 /\ 8 + 1 = 9
      OBVIOUS
    <3>2. /\ Shape' /\ InCall(8 + 1, 8)' /\ mem'[regs'["rsp"]] = <<"code", 30>>
          /\ \A r \in Regs \ {"rsp"} : regs'[r] = regs[r]
          /\ mem'[kstack(1)] = mem[kstack(1)] /\ mem'[ustack(Words)] = mem[ustack(Words)]
      BY <1>0, <1>2, <2>2, <3>1, CallPush
    <3>3. QED BY <3>1, <3>2
  <2>4. Moved(29)'
    BY <1>0, <1>2, <1>16, <2>3 DEF Moved, Regs, CalleeSaved, CallerSaved
  <2>5. AtPc'
    BY <2>2, <2>3, <2>4 DEF AtPc, AtDispatch
  <2>6. Restores /\ BackByExit
    BY <2>2 DEF Restores, BackByExit, DISPATCH, PROGRAM, KERNEL
  <2>7. QED BY <2>3, <2>5, <2>6, StepFixed
<1>17. QED BY <1>4, <1>5, <1>6, <1>7, <1>8, <1>9, <1>10, <1>11, <1>12, <1>13, <1>14, <1>15, <1>16
-----------------------------------------------------------------------------
(* The dispatcher and the way back to the program *)

\* What the kernel's functions leave of a call's frame.
LEMMA CallReturn ==
  ASSUME Shape, NEW k \in 1 .. 9, NEW f \in 0 .. 8, f <= k, InCall(k, f), NEW v, rust_returns(v),
         UNCHANGED <<call, return_rsp, return_rip>>
  PROVE  /\ Shape' /\ InCall(k - 1, f)' /\ regs'["rax"] = v
         /\ \A r \in CalleeSaved : regs'[r] = regs[r]
         /\ mem'[kstack(1)] = mem[kstack(1)] /\ mem'[ustack(Words)] = mem[ustack(Words)]
         /\ Goto(mem[regs["rsp"]])
<1>1. PICK p : p = CallRsp
  OBVIOUS
<1>2. p \in Room .. Words - 1 /\ CallRsp' = p
  BY <1>1 DEF InCall, CallRsp
<1>3. p - k \in 0 .. Words - 1 /\ (p - k) + 1 = p - (k - 1)
  BY <1>2 DEF Room
<1>4. regs["rsp"] = ustack(p - k)
  BY <1>1 DEF InCall
<1>5. /\ Shape' /\ regs'["rsp"] = ustack((p - k) + 1) /\ regs'["rax"] = v
      /\ \A r \in CalleeSaved : regs'[r] = regs[r]
      /\ \A j \in p - k .. Words : mem'[ustack(j)] = mem[ustack(j)]
      /\ mem'[kstack(1)] = mem[kstack(1)]
      /\ Goto(mem[regs["rsp"]])
  BY <1>3, <1>4, Returned, Zenon
<1>6. regs'["rsp"] = ustack(p - (k - 1))
  BY <1>3, <1>5
<1>7. InCall(k - 1, f)'
  <2>1. \A i \in p .. Words : mem'[ustack(i)] = call.mem[ustack(i)]
    BY <1>1, <1>2, <1>5 DEF InCall
  <2>2. \A j \in 1 .. f : mem'[ustack(p - j)] = AtEntry(Frame[j])
    BY <1>1, <1>2, <1>5 DEF InCall
  <2>3. \A r : AtEntry(r)' = AtEntry(r)
    BY DEF AtEntry
  <2>4. QED BY <1>1, <1>2, <1>6, <2>1, <2>2, <2>3 DEF InCall, ReturnSet
<1>8. mem'[ustack(Words)] = mem[ustack(Words)]
  BY <1>2, <1>3, <1>5
<1>9. QED BY <1>5, <1>7, <1>8

LEMMA DispatchStep ==
  ASSUME NativeInv, native_syscall_dispatch
  PROVE  NativeInv' /\ Restores /\ BackByExit
<1>0. Shape /\ Fixed /\ pc = DISPATCH
  BY DEF NativeInv, native_syscall_dispatch
<1>1. AtDispatch
  BY <1>0 DEF NativeInv, AtPc, DISPATCH, KERNEL, FAULT, PROGRAM, MARK_EXIT
<1>2. rust_returns(<<"result", 0>>) /\ UNCHANGED <<return_rsp, return_rip, LSTAR, SYSCALL_READY, LAST_EXIT, call>>
  BY DEF native_syscall_dispatch, kernel_statics
<1>3. /\ Shape' /\ InCall(8, 8)' /\ regs'["rax"] = <<"result", 0>>
      /\ mem'[kstack(1)] = mem[kstack(1)] /\ mem'[ustack(Words)] = mem[ustack(Words)]
      /\ Goto(mem[regs["rsp"]])
  <2>1. 9 \in 1 .. 9 /\ 8 \in 0 .. 8 /\ 8 <= 9 /\ 9 - 1 = 8
    OBVIOUS
  <2>2. /\ Shape' /\ InCall(9 - 1, 8)' /\ regs'["rax"] = <<"result", 0>>
        /\ mem'[kstack(1)] = mem[kstack(1)] /\ mem'[ustack(Words)] = mem[ustack(Words)]
        /\ Goto(mem[regs["rsp"]])
    BY <1>0, <1>1, <1>2, <2>1, CallReturn DEF AtDispatch
  <2>3. QED BY <2>1, <2>2
<1>4. pc' = <<"code", 30>>
  BY <1>1, <1>3, GotoCode DEF AtDispatch
<1>5. AtRestore(30)'
  <2>1. \A j \in 39 - 30 .. 8 : FALSE
    OBVIOUS
  <2>2. 38 - 30 = 8
    OBVIOUS
  <2>3. QED BY <1>3, <2>1, <2>2 DEF AtRestore
<1>6. AtPc'
  BY <1>4, <1>5 DEF AtPc
<1>7. Fixed'
  BY <1>0, <1>2, <1>3, <1>4 DEF Fixed, DISPATCH, KERNEL
<1>8. QED BY <1>3, <1>4, <1>6, <1>7, InsideCode DEF NativeInv

LEMMA RestoreSteps ==
  ASSUME NativeInv, NEW n \in 30 .. 38, pc = <<"code", n>>, AtRestore(n), step
  PROVE  NativeInv' /\ Restores /\ BackByExit
<1>0. Shape /\ Fixed /\ n \in 1 .. 41 /\ InCall(38 - n, 38 - n)
  BY DEF NativeInv, AtRestore
<1>1. call' = call
  BY StepLeaves
<1>2. PICK p : p = CallRsp
  OBVIOUS
<1>3. p \in Room .. Words - 1 /\ CallRsp' = p /\ call.regs["rsp"] = ustack(p)
  BY <1>0, <1>1, <1>2 DEF InCall, CallRsp
<1>4. CASE n \in 30 .. 37
  <2> DEFINE k == 38 - n
  <2>1. k \in 1 .. 8 /\ 38 - (n + 1) = k - 1 /\ 39 - (n + 1) = k /\ 39 - n = k + 1
        /\ n + 1 \in 30 .. 38 /\ (p - k) + 1 = p - (k - 1) /\ p - k \in 0 .. Words - 1
    BY <1>3, <1>4 DEF Room
  <2>2. PICK r : r = Frame[k]
    OBVIOUS
  <2>3. Code[n] = pop(r) /\ r \in Regs \ {"rsp"} /\ r # "rax"
    BY <1>4, <2>1, <2>2, Pops, Frames
  <2>4. /\ regs' = [regs EXCEPT !["rsp"] = Up(@), ![r] = mem[regs["rsp"]]]
        /\ pc' = <<"code", n + 1>> /\ UNCHANGED <<mem, return_rsp, return_rip>>
    BY <1>0, <2>3, StepPop
  <2> HIDE DEF k
  <2>5. InCall(k, k) /\ \A j \in k + 1 .. 8 : regs[Frame[j]] = AtEntry(Frame[j])
    BY <1>0, <2>1 DEF AtRestore, k
  <2>6. regs["rsp"] = ustack(p - k) /\ mem[ustack(p - k)] = AtEntry(r)
    BY <1>2, <2>1, <2>2, <2>5 DEF InCall
  <2>7. /\ Shape' /\ regs'["rsp"] = ustack((p - k) + 1) /\ regs'[r] = AtEntry(r)
        /\ \A q \in Regs \ {"rsp", r} : regs'[q] = regs[q]
    BY <1>0, <2>1, <2>3, <2>4, <2>6, Popped
  <2>8. \A q : AtEntry(q)' = AtEntry(q)
    BY <1>1 DEF AtEntry
  <2>9. InCall(k - 1, k - 1)'
    <3>1. \A j \in 1 .. k - 1 : j \in 1 .. k
      BY <2>1
    <3>2. \A j \in 1 .. k - 1 : mem'[ustack(p - j)] = AtEntry(Frame[j])
      BY <1>2, <2>4, <2>5, <3>1 DEF InCall
    <3>3. \A i \in p .. Words : mem'[ustack(i)] = call.mem[ustack(i)]
      BY <1>2, <2>4, <2>5 DEF InCall
    <3>4. regs'["rsp"] = ustack(p - (k - 1))
      BY <2>1, <2>7
    <3>5. ReturnSet' /\ call.mem[EntryRsp] = <<"code", 6>>
      BY <2>4, <2>5 DEF InCall, ReturnSet
    <3>6. QED BY <1>1, <1>3, <2>8, <3>2, <3>3, <3>4, <3>5 DEF InCall
  <2>10. \A j \in k .. 8 : regs'[Frame[j]] = AtEntry(Frame[j])'
    <3>1. SUFFICES ASSUME NEW j \in k .. 8 PROVE regs'[Frame[j]] = AtEntry(Frame[j])
      BY <2>8
    <3>2. CASE j = k
      BY <2>2, <2>7, <3>2
    <3>3. CASE j # k
      <4>1. j \in k + 1 .. 8 /\ j \in 1 .. 8 /\ k \in 1 .. 8
        BY <2>1, <3>3
      <4>2. Frame[j] \in Regs \ {"rsp", r}
        BY <2>2, <3>3, <4>1, Frames
      <4>3. QED BY <2>5, <2>7, <4>1, <4>2
    <3>4. QED BY <3>2, <3>3
  <2>11. regs'["rax"] = <<"result", 0>>
    BY <2>3, <2>7 DEF AtRestore, Regs, CallerSaved
  <2>12. AtRestore(n + 1)'
    BY <2>1, <2>9, <2>10, <2>11 DEF AtRestore
  <2>13. AtPc'
    BY <2>1, <2>4, <2>12 DEF AtPc
  <2>14. QED BY <2>4, <2>7, <2>13, StepFixed, InsideCode
<1>5. CASE n = 38
  <2>1. Code[n] = ins("jmpr", "rcx", "none")
    BY <1>5, CodeAt DEF syscall_return
  <2>2. Goto(regs["rcx"]) /\ UNCHANGED <<regs, mem, return_rsp, return_rip>>
    BY <1>0, <2>1, StepJmpr
  <2>3. /\ InCall(0, 0) /\ regs["rax"] = <<"result", 0>>
        /\ \A j \in 1 .. 8 : regs[Frame[j]] = AtEntry(Frame[j])
    <3>1. 38 - n = 0 /\ 39 - n = 1
      BY <1>5
    <3>2. QED BY <3>1 DEF AtRestore
  <2>4. regs["rcx"] = PROGRAM
    BY <2>3, Frames DEF AtEntry
  <2>5. pc' = PROGRAM
    BY <2>2, <2>4 DEF Goto, PROGRAM
  <2>6. regs["rsp"] = ustack(p)
    <3>1. p - 0 = p
      BY <1>3
    <3>2. QED BY <1>2, <2>3, <3>1 DEF InCall
  <2>7. \A i \in p .. Words : mem[ustack(i)] = call.mem[ustack(i)]
    BY <1>2, <2>3 DEF InCall
  <2>8. AtProgram'
    <3>1. Words - 1 \in p .. Words
      BY <1>3
    <3>2. mem[EntryRsp] = <<"code", 6>>
      BY <2>3, <2>7, <3>1 DEF InCall, EntryRsp
    <3>3. QED BY <1>3, <2>2, <2>3, <2>6, <3>2 DEF AtProgram, InCall, ReturnSet
  <2>9. \A r \in CalleeSaved : regs[r] = call.regs[r]
    <3>1. SUFFICES ASSUME NEW r \in CalleeSaved PROVE regs[r] = call.regs[r]
      OBVIOUS
    <3>2. PICK j \in 3 .. 8 : r = Frame[j]
      BY Frames
    <3>3. r # "rcx" /\ r # "r11"
      BY DEF CalleeSaved
    <3>4. QED BY <2>3, <3>2, <3>3 DEF AtEntry
  <2>10. \A x \in Above(ustack(p)) : mem[x] = call.mem[x]
    <3>1. SUFFICES ASSUME NEW x \in Above(ustack(p)) PROVE x \in {ustack(i) : i \in p .. Words}
      BY <2>7
    <3>2. x \in Stacks /\ x[1] = "ustack" /\ x[2] >= p
      BY DEF Above, ustack
    <3>3. QED BY <1>3, <3>2 DEF Stacks, ustack, kstack
  <2>11. Restores
    BY <1>3, <2>2, <2>3, <2>6, <2>9, <2>10 DEF Restores
  <2>12. BackByExit
    BY <2>5 DEF BackByExit, PROGRAM, KERNEL
  <2>13. Shape' /\ AtPc'
    BY <1>0, <2>2, <2>5, <2>8 DEF Shape, AtPc
  <2>14. QED BY <2>2, <2>11, <2>12, <2>13, StepFixed
<1>6. QED BY <1>4, <1>5
-----------------------------------------------------------------------------
(* The exit path *)

LEMMA ExitSteps ==
  ASSUME NativeInv, NEW n \in 39 .. 41, pc = <<"code", n>>, AtExit(n), step
  PROVE  NativeInv' /\ Restores /\ BackByExit
<1>0. Shape /\ Fixed /\ n \in 1 .. 41
  BY DEF NativeInv
<1>1. Code[n] = native_exit[n - 38]
  BY CodeAt
<1>2. call' = call /\ LAST_EXIT' = LAST_EXIT
  BY StepLeaves
<1>3. CASE n = 39
  <2>1. Code[n] = ins("call", "mark_exit", "none")
    BY <1>1, <1>3 DEF native_exit
  <2>2. /\ pushed(<<"code", 40>>) /\ pc' = MARK_EXIT /\ UNCHANGED <<return_rsp, return_rip>>
    <3>1. /\ pushed(<<"code", n + 1>>)
          /\ pc' = IF "mark_exit" = "dispatch" THEN DISPATCH ELSE MARK_EXIT
          /\ UNCHANGED <<return_rsp, return_rip>>
      BY <1>0, <2>1, StepCall, Zenon
    <3>2. n + 1 = 40
      BY <1>3
    <3>3. QED BY <3>1, <3>2
  <2>3. /\ Shape' /\ InCall(1, 0)' /\ mem'[regs'["rsp"]] = <<"code", 40>>
        /\ \A r \in Regs \ {"rsp"} : regs'[r] = regs[r]
        /\ mem'[kstack(1)] = mem[kstack(1)] /\ mem'[ustack(Words)] = mem[ustack(Words)]
    <3>1. 0 \in 0 .. 8 /\ 0 \in 0 .. 0 /\ 0 + 1 = 1 /\ InCall(0, 0)
      BY <1>3 DEF AtExit
    <3>2. /\ Shape' /\ InCall(0 + 1, 0)' /\ mem'[regs'["rsp"]] = <<"code", 40>>
          /\ \A r \in Regs \ {"rsp"} : regs'[r] = regs[r]
          /\ mem'[kstack(1)] = mem[kstack(1)] /\ mem'[ustack(Words)] = mem[ustack(Words)]
      BY <1>0, <1>2, <2>2, <3>1, CallPush
    <3>3. QED BY <3>1, <3>2
  <2>4. AtMarkExit'
    BY <1>2, <1>3, <2>3 DEF AtMarkExit, AtExit, Regs, CallerSaved
  <2>5. AtPc'
    BY <2>2, <2>4 DEF AtPc
  <2>6. Restores /\ BackByExit
    BY <2>2 DEF Restores, BackByExit, MARK_EXIT, PROGRAM, KERNEL
  <2>7. QED BY <2>3, <2>5, <2>6, StepFixed
<1>4. CASE n = 40
  <2>1. Code[n] = ins("load", "rsp", "return_rsp")
    BY <1>1, <1>4 DEF native_exit
  <2>2. /\ regs' = [regs EXCEPT !["rsp"] = return_rsp]
        /\ pc' = <<"code", 41>> /\ UNCHANGED <<mem, return_rsp, return_rip>>
    BY <1>0, <1>4, <2>1, StepLoad
  <2>3. AtExit(41)'
    BY <1>0, <1>2, <1>4, <2>2 DEF AtExit, ReturnSet, Shape, Regs
  <2>4. Shape' /\ AtPc'
    BY <1>0, <2>2, <2>3 DEF Shape, AtPc
  <2>5. QED BY <2>2, <2>4, StepFixed, InsideCode
<1>5. CASE n = 41
  <2>1. Code[n] = ins("jmpm", "return_rip", "none")
    BY <1>1, <1>5 DEF native_exit
  <2>2. Goto(return_rip) /\ UNCHANGED <<regs, mem, return_rsp, return_rip>>
    BY <1>0, <2>1, StepJmpm
  <2>3. pc' = <<"code", 6>>
    BY <1>5, <2>2, GotoCode DEF AtExit, ReturnSet
  <2>4. AtEnter(6)'
    BY <1>2, <1>5, <2>2 DEF AtExit, AtEnter, ReturnSet
  <2>5. Shape' /\ AtPc'
    BY <1>0, <2>2, <2>3, <2>4 DEF Shape, AtPc
  <2>6. QED BY <2>2, <2>3, <2>5, StepFixed, InsideCode
<1>6. QED BY <1>3, <1>4, <1>5

LEMMA MarkExitStep ==
  ASSUME NativeInv, native_mark_exit
  PROVE  NativeInv' /\ Restores /\ BackByExit
<1>0. Shape /\ Fixed /\ pc = MARK_EXIT
  BY DEF NativeInv, native_mark_exit
<1>1. AtMarkExit
  BY <1>0 DEF NativeInv, AtPc, DISPATCH, KERNEL, FAULT, PROGRAM, MARK_EXIT
<1>2. /\ rust_returns(<<"rust", "rax">>) /\ LAST_EXIT' = regs["rdi"]
      /\ UNCHANGED <<return_rsp, return_rip, LSTAR, SYSCALL_READY, call>>
  BY DEF native_mark_exit
<1>3. /\ Shape' /\ Goto(mem[regs["rsp"]])
      /\ mem'[kstack(1)] = mem[kstack(1)] /\ mem'[ustack(Words)] = mem[ustack(Words)]
  <2>1. 1 \in 1 .. 9 /\ 0 \in 0 .. 8 /\ 0 <= 1
    OBVIOUS
  <2>2. QED BY <1>0, <1>1, <1>2, <2>1, CallReturn DEF AtMarkExit
<1>4. pc' = <<"code", 40>>
  BY <1>1, <1>3, GotoCode DEF AtMarkExit
<1>5. AtExit(40)'
  BY <1>1, <1>2 DEF AtExit, AtMarkExit, InCall, ReturnSet
<1>6. AtPc'
  BY <1>4, <1>5 DEF AtPc
<1>7. Fixed'
  BY <1>0, <1>2, <1>3, <1>4 DEF Fixed, MARK_EXIT, KERNEL
<1>8. QED BY <1>3, <1>4, <1>6, <1>7, InsideCode DEF NativeInv
-----------------------------------------------------------------------------
(* The program, and the kernel that starts it *)

ProgramStep ==
  \/ program_computes \/ program_pushes \/ program_pops \/ program_returns
  \/ \E nr \in {1, 60, 231} : program_syscalls(nr)

LEMMA ProgramSteps ==
  ASSUME NativeInv, ProgramStep
  PROVE  NativeInv' /\ Restores /\ BackByExit
<1>0. Shape /\ Fixed /\ pc = PROGRAM
  BY DEF NativeInv, ProgramStep, program_computes, program_pushes, program_pops,
         program_returns, program_syscalls
<1>1. AtProgram
  BY <1>0 DEF NativeInv, AtPc, DISPATCH, KERNEL, FAULT, PROGRAM, MARK_EXIT
<1>2. PICK i \in Room .. Words - 1 : regs["rsp"] = ustack(i)
  BY <1>1 DEF AtProgram
<1>3. UNCHANGED <<return_rsp, return_rip, LSTAR, SYSCALL_READY, LAST_EXIT>>
  BY DEF ProgramStep, program_computes, program_pushes, program_pops,
         program_returns, program_syscalls, kernel_statics
<1>4. Restores
  BY <1>0 DEF Restores
<1>5. ASSUME pc' # KERNEL, Shape', AtPc', mem'[kstack(1)] = mem[kstack(1)],
             mem'[ustack(Words)] = mem[ustack(Words)]
      PROVE  NativeInv' /\ Restores /\ BackByExit
  <2>1. Fixed'
    BY <1>0, <1>3, <1>5 DEF Fixed, PROGRAM, KERNEL
  <2>2. QED BY <1>4, <1>5, <2>1 DEF NativeInv, BackByExit
<1>6. ASSUME pc' = PROGRAM, Shape', mem'[kstack(1)] = mem[kstack(1)],
             mem'[EntryRsp] = mem[EntryRsp], mem'[ustack(Words)] = mem[ustack(Words)],
             \E j \in Room .. Words - 1 : regs'["rsp"] = ustack(j)
      PROVE  NativeInv' /\ Restores /\ BackByExit
  <2>1. AtProgram'
    BY <1>1, <1>3, <1>6 DEF AtProgram, ReturnSet, EntryRsp
  <2>2. AtPc' /\ pc' # KERNEL
    BY <1>6, <2>1 DEF AtPc, PROGRAM, KERNEL
  <2>3. QED BY <1>5, <1>6, <2>2
<1>7. CASE program_computes
  <2>1. /\ regs' = [r \in Regs |-> IF r = "rsp" THEN regs[r] ELSE <<"program", r>>]
        /\ pc' = pc /\ mem' = mem
    BY <1>7 DEF program_computes
  <2>2. DOMAIN regs' = Regs /\ regs'["rsp"] = ustack(i)
    BY <1>2, <2>1 DEF Regs
  <2>3. QED BY <1>0, <1>2, <1>6, <2>1, <2>2 DEF Shape
<1>8. CASE program_pushes
  <2>1. regs["rsp"][2] > Room /\ pushed(<<"program", "rsp">>) /\ pc' = pc
    BY <1>8 DEF program_pushes
  <2>2. i > Room /\ i \in 1 .. Words /\ i - 1 \in Room .. Words - 1 /\ i - 1 < Words - 1
    BY <1>2, <2>1 DEF ustack, Room
  <2>3. /\ Shape' /\ regs'["rsp"] = ustack(i - 1)
        /\ \A x \in Stacks \ {ustack(i - 1)} : mem'[x] = mem[x]
    BY <1>0, <1>2, <2>1, <2>2, Pushed
  <2>4. /\ mem'[kstack(1)] = mem[kstack(1)] /\ mem'[EntryRsp] = mem[EntryRsp]
        /\ mem'[ustack(Words)] = mem[ustack(Words)]
    <3>1. Words - 1 \in 0 .. Words /\ Words \in 0 .. Words /\ Words - 1 # i - 1 /\ Words # i - 1
      BY <2>2
    <3>2. QED BY <2>3, <3>1, StackWords DEF EntryRsp
  <2>5. QED BY <1>0, <1>6, <2>1, <2>2, <2>3, <2>4
<1>9. CASE program_pops
  <2>1. /\ regs["rsp"] \in Below(EntryRsp) /\ regs' = [regs EXCEPT !["rsp"] = Up(@)]
        /\ pc' = pc /\ mem' = mem
    BY <1>9 DEF program_pops
  <2>2. i < Words - 1 /\ i + 1 \in Room .. Words - 1
    <3>1. regs["rsp"][2] < EntryRsp[2]
      BY <2>1 DEF Below
    <3>2. regs["rsp"][2] = i /\ EntryRsp[2] = Words - 1
      BY <1>2 DEF EntryRsp, ustack
    <3>3. QED BY <3>1, <3>2 DEF Room
  <2>3. DOMAIN regs' = Regs /\ regs'["rsp"] = ustack(i + 1)
    BY <1>0, <1>2, <2>1, StackWords DEF Shape, Regs
  <2>4. QED BY <1>0, <1>6, <2>1, <2>2, <2>3 DEF Shape
<1>10. CASE program_returns
  <2>1. /\ regs["rsp"] = EntryRsp /\ regs' = [regs EXCEPT !["rsp"] = Up(@)]
        /\ Goto(mem[regs["rsp"]]) /\ UNCHANGED <<mem, call>>
    BY <1>10 DEF program_returns
  <2>2. pc' = <<"code", 6>>
    BY <1>1, <2>1, GotoCode DEF AtProgram
  <2>3. DOMAIN regs' = Regs /\ regs'["rsp"] = ustack(Words)
    <3>1. Up(EntryRsp) = ustack(Words)
      BY DEF Up, EntryRsp, ustack
    <3>2. QED BY <1>0, <2>1, <3>1 DEF Shape, Regs
  <2>4. AtEnter(6)'
    BY <1>1, <1>3, <2>3 DEF AtEnter, AtProgram, ReturnSet
  <2>5. AtPc' /\ pc' # KERNEL
    BY <2>2, <2>4 DEF AtPc, KERNEL
  <2>6. QED BY <1>0, <1>5, <2>1, <2>3, <2>5 DEF Shape
<1>11. ASSUME NEW nr \in {1, 60, 231}, program_syscalls(nr)
       PROVE  NativeInv' /\ Restores /\ BackByExit
  <2>1. PICK now : now = [regs EXCEPT !["rax"] = <<"nr", nr>>]
    OBVIOUS
  <2>2. /\ call' = [regs |-> now, mem |-> mem] /\ Goto(LSTAR) /\ mem' = mem
        /\ regs' = [now EXCEPT !["rcx"] = PROGRAM, !["r11"] = <<"flags", 0>>]
    BY <1>11, <2>1 DEF program_syscalls
  <2>3. call.regs' = now /\ call.mem' = mem
    BY <2>2
  <2>4. DOMAIN now = Regs /\ now["rsp"] = ustack(i)
    BY <1>0, <1>2, <2>1 DEF Shape, Regs, CallerSaved
  <2>5. /\ DOMAIN regs' = Regs /\ regs'["rcx"] = PROGRAM /\ regs'["r11"] = <<"flags", 0>>
        /\ \A r \in Regs \ {"rcx", "r11"} : regs'[r] = now[r]
    BY <2>2, <2>4 DEF Regs, CallerSaved
  <2>6. pc' = <<"code", 7>>
    <3>1. LSTAR = <<"code", 7>>
      BY <1>0 DEF Fixed, PROGRAM, KERNEL
    <3>2. QED BY <2>2, <3>1, GotoCode
  <2>7. Untouched'
    BY <2>3, <2>5 DEF Untouched, AtEntry
  <2>8. InCall(0, 0)'
    <3>1. CallRsp' = i
      BY <2>3, <2>4 DEF CallRsp, ustack
    <3>2. regs'["rsp"] = ustack(i - 0) /\ i - 0 = i
      BY <2>4, <2>5 DEF Regs
    <3>3. call'.regs["rsp"] = ustack(i) /\ call'.mem = mem /\ mem[EntryRsp] = <<"code", 6>>
      BY <1>1, <2>3, <2>4 DEF AtProgram
    <3>4. ReturnSet'
      BY <1>1, <1>3 DEF AtProgram, ReturnSet
    <3>5. QED BY <2>2, <3>1, <3>2, <3>3, <3>4 DEF InCall, EntryRsp
  <2>9. AtSave(7)'
    BY <2>7, <2>8 DEF AtSave
  <2>10. AtPc' /\ pc' # KERNEL
    BY <2>6, <2>9 DEF AtPc, KERNEL
  <2>11. QED BY <1>0, <1>5, <2>2, <2>5, <2>10 DEF Shape
<1>12. QED BY <1>7, <1>8, <1>9, <1>10, <1>11 DEF ProgramStep

\* The two words nobody writes, in a fresh pair of stacks.
LEMMA FreshWords ==
  /\ DOMAIN FreshStack = Stacks /\ DOMAIN KernelRegs = Regs
  /\ FreshStack[kstack(1)] = KERNEL /\ FreshStack[ustack(Words)] = <<"argc", 0>>
  /\ KernelRegs["rdi"] = PROGRAM /\ KernelRegs["rsi"] = ustack(Words)
  /\ KernelRegs["rsp"] = kstack(1)
<1>1. kstack(1) \in Stacks /\ ustack(Words) \in Stacks /\ ustack(Words) # kstack(1)
  BY StackWords
<1>2. QED BY <1>1 DEF FreshStack, KernelRegs, Regs, CallerSaved

LEMMA EnterStep ==
  ASSUME NativeInv, enter
  PROVE  NativeInv' /\ Restores /\ BackByExit
<1>1. pc' = <<"code", 1>> /\ regs' = KernelRegs /\ mem' = FreshStack /\ call' = NoCall
  BY Labels DEF enter
<1>2. SYSCALL_READY' /\ LSTAR' = <<"code", 7>>
  BY Labels DEF enter, init_syscall_path, NativeInv, Fixed
<1>3. Shape' /\ Fixed'
  BY <1>1, <1>2, FreshWords DEF Shape, Fixed
<1>4. AtEnter(1)'
  BY <1>1, FreshWords DEF AtEnter
<1>5. AtPc'
  BY <1>1, <1>4 DEF AtPc
<1>6. QED BY <1>1, <1>3, <1>5, InsideCode DEF NativeInv
-----------------------------------------------------------------------------
LEMMA InitNativeInv == Init => NativeInv
BY FreshWords DEF Init, NativeInv, Shape, Fixed, AtPc

LEMMA NextNative ==
  ASSUME NativeInv, Next
  PROVE  NativeInv' /\ Restores /\ BackByExit
<1>1. CASE step
  <2>1. pc[1] = "code"
    BY <1>1 DEF step
  <2>2. \/ \E n \in 1 .. 6 : pc = <<"code", n>> /\ AtEnter(n)
        \/ \E n \in 7 .. 16 : pc = <<"code", n>> /\ AtSave(n)
        \/ \E n \in 17 .. 29 : pc = <<"code", n>> /\ AtMoves(n)
        \/ \E n \in 30 .. 38 : pc = <<"code", n>> /\ AtRestore(n)
        \/ \E n \in 39 .. 41 : pc = <<"code", n>> /\ AtExit(n)
    BY <2>1 DEF NativeInv, AtPc, KERNEL, FAULT, PROGRAM, DISPATCH, MARK_EXIT
  <2>3. QED BY <1>1, <2>2, EnterSteps, SaveSteps, MoveSteps, RestoreSteps, ExitSteps
<1>2. CASE enter
  BY <1>2, EnterStep
<1>3. CASE native_syscall_dispatch
  BY <1>3, DispatchStep
<1>4. CASE native_mark_exit
  BY <1>4, MarkExitStep
<1>5. CASE ProgramStep
  BY <1>5, ProgramSteps
<1>6. QED BY <1>1, <1>2, <1>3, <1>4, <1>5 DEF Next, ProgramStep

LEMMA StutterNative ==
  ASSUME NativeInv, UNCHANGED vars
  PROVE  NativeInv'
<1>1. Shape' /\ Fixed'
  BY DEF vars, NativeInv, Shape, Fixed
<1>2. \A k, f : InCall(k, f) => InCall(k, f)'
  BY DEF vars, InCall, ReturnSet, AtEntry, CallRsp
<1>3. \A n : Moved(n) => Moved(n)'
  BY DEF vars, Moved
<1>4. \A n : AtMoves(n) => AtMoves(n)'
  BY <1>2, <1>3 DEF vars, AtMoves, Waiting
<1>5. \A n : AtEnter(n) => AtEnter(n)'
  BY DEF vars, AtEnter
<1>6. \A n : AtSave(n) => AtSave(n)'
  BY <1>2 DEF vars, AtSave, Untouched, AtEntry
<1>7. \A n : AtRestore(n) => AtRestore(n)'
  BY <1>2 DEF vars, AtRestore, AtEntry
<1>8. \A n : AtExit(n) => AtExit(n)'
  BY <1>2 DEF vars, AtExit, ReturnSet
<1>9. /\ AtProgram => AtProgram'
      /\ AtDispatch => AtDispatch'
      /\ AtMarkExit => AtMarkExit'
  BY <1>2, <1>3 DEF vars, AtProgram, AtDispatch, AtMarkExit, ReturnSet
<1>10. AtPc'
  BY <1>4, <1>5, <1>6, <1>7, <1>8, <1>9 DEF vars, NativeInv, AtPc
<1>11. QED BY <1>1, <1>10 DEF NativeInv

\* Wherever the CPU is in the stubs, every value the program had at its SYSCALL is
\* where the invariant says.
THEOREM NativeInvariant == Spec => []NativeInv
<1>1. NativeInv /\ [Next]_vars => NativeInv'
  BY NextNative, StutterNative
<1>2. QED BY <1>1, InitNativeInv, PTL DEF Spec

\* leonos3_native_syscall_dispatch gets the number and the first five arguments of
\* the Linux convention, whatever the program's registers and however deep its stack.
THEOREM DispatchArguments == Spec => []DispatchGetsArguments
<1>1. NativeInv => DispatchGetsArguments
  <2>1. SUFFICES ASSUME NativeInv, pc = DISPATCH PROVE DispatchGetsArguments
    BY DEF DispatchGetsArguments
  <2>2. AtDispatch
    BY <2>1 DEF NativeInv, AtPc, DISPATCH, KERNEL, FAULT, PROGRAM, MARK_EXIT
  <2>3. QED BY <2>2 DEF AtDispatch, Moved, DispatchGetsArguments
<1>2. QED BY <1>1, NativeInvariant, PTL

\* A program that goes on after SYSCALL finds the result, its callee-saved registers,
\* its stack pointer and every word of its stack.
THEOREM SyscallKeepsContext == Spec => SyscallRestores
<1>1. NativeInv /\ [Next]_vars => [Restores]_vars
  BY NextNative
<1>2. Spec => [][Restores]_vars
  BY <1>1, NativeInvariant, PTL DEF Spec
<1>3. QED BY <1>2 DEF SyscallRestores, Restores

\* leonos3_native_enter returns to the kernel only for exit or exit_group, with the
\* kernel's stack pointer and the exit code recorded.
THEOREM ReturnsOnlyByExit == Spec => BackOnlyByExit
<1>1. NativeInv /\ [Next]_vars => [BackByExit]_vars
  BY NextNative
<1>2. Spec => [][BackByExit]_vars
  BY <1>1, NativeInvariant, PTL DEF Spec
<1>3. QED BY <1>2 DEF BackOnlyByExit, BackByExit
=============================================================================
