--------------------------- MODULE ProcessProofs ---------------------------
(***************************************************************************)
(* Proofs about Process, for every ramdisk, heap size, stack size and      *)
(* step limit.                                                             *)
(***************************************************************************)
EXTENDS Process, SequenceTheorems, TLAPS

USE ProcessAssumption
-----------------------------------------------------------------------------
(* Facts about the stack of frames *)

\* Replacing the top frame keeps the length and every frame below.
LEMMA ReplaceTop ==
  ASSUME NEW s \in Seq(Frames), s # <<>>, NEW f \in Frames
  PROVE  LET r == <<f>> \o Tail(s) IN
           /\ r \in Seq(Frames) /\ r # <<>> /\ Len(r) = Len(s)
           /\ Head(r) = f
           /\ \A i \in 2 .. Len(s) : r[i] = s[i]
           /\ r[1] = f
<1>1. Tail(s) \in Seq(Frames) /\ Len(Tail(s)) = Len(s) - 1
      /\ \A i \in 1 .. Len(s) - 1 : Tail(s)[i] = s[i + 1]
  BY HeadTailProperties
<1>2. <<f>> \in Seq(Frames) /\ Len(<<f>>) = 1 /\ <<f>>[1] = f
  OBVIOUS
<1> DEFINE r == <<f>> \o Tail(s)
<1>3. r \in Seq(Frames) /\ Len(r) = Len(s)
  BY <1>1, <1>2, ConcatProperties
<1>4. \A i \in 1 .. Len(r) : r[i] = IF i <= 1 THEN <<f>>[i] ELSE Tail(s)[i - 1]
  BY <1>1, <1>2, ConcatProperties
<1>5. Len(s) >= 1
  BY EmptySeq, LenProperties
<1>6. r[1] = f /\ r # <<>>
  BY <1>2, <1>3, <1>4, <1>5
<1>7. \A i \in 2 .. Len(s) : r[i] = s[i]
  BY <1>1, <1>3, <1>4
<1>8. Head(r) = f
  BY <1>3, <1>6, HeadTailProperties
<1>9. QED BY <1>3, <1>6, <1>7, <1>8

\* Pushing a frame.
LEMMA Push ==
  ASSUME NEW s \in Seq(Frames), NEW f \in Frames
  PROVE  LET r == <<f>> \o s IN
           /\ r \in Seq(Frames) /\ r # <<>> /\ Len(r) = Len(s) + 1
           /\ Head(r) = f
           /\ r[1] = f
           /\ \A i \in 2 .. Len(r) : r[i] = s[i - 1]
<1>2. <<f>> \in Seq(Frames) /\ Len(<<f>>) = 1 /\ <<f>>[1] = f
  OBVIOUS
<1> DEFINE r == <<f>> \o s
<1>3. r \in Seq(Frames) /\ Len(r) = Len(s) + 1
  BY <1>2, ConcatProperties
<1>4. \A i \in 1 .. Len(r) : r[i] = IF i <= 1 THEN <<f>>[i] ELSE s[i - 1]
  BY <1>2, ConcatProperties
<1>5. Len(s) \in Nat
  BY LenProperties
<1>6. r[1] = f /\ r # <<>>
  BY <1>2, <1>3, <1>4, <1>5
<1>7. \A i \in 2 .. Len(r) : r[i] = s[i - 1]
  BY <1>3, <1>4
<1>8. Head(r) = f
  BY <1>3, <1>6, HeadTailProperties
<1>9. QED BY <1>3, <1>6, <1>7, <1>8

\* Popping a frame.
LEMMA Pop ==
  ASSUME NEW s \in Seq(Frames), s # <<>>
  PROVE  /\ Head(s) \in Frames /\ Head(s) = s[1] /\ Len(s) >= 1 /\ Len(s) \in Nat
         /\ Tail(s) \in Seq(Frames) /\ Len(Tail(s)) = Len(s) - 1
         /\ \A i \in 1 .. Len(s) - 1 : Tail(s)[i] = s[i + 1]
BY HeadTailProperties, EmptySeq, LenProperties, ElementOfSeq
-----------------------------------------------------------------------------
AllInterp(s) == \A i \in 1 .. Len(s) : s[i].kind = "interp"

LEMMA FrameTypes ==
  NativeFrame \in Frames /\ InterpFrame \in Frames
BY DEF NativeFrame, InterpFrame, Frames

LEMMA FrameFields ==
  ASSUME NEW f \in Frames
  PROVE  /\ f.kind \in {"native", "interp"} /\ f.budget \in 0 .. MAX_STEPS
         /\ f.budget > 0 => /\ [f EXCEPT !.budget = @ - 1] \in Frames
                            /\ [f EXCEPT !.budget = @ - 1].kind = f.kind
BY DEF Frames

\* A stack of interpreters has no native frame on top and needs no writer.
LEMMA InterpStack ==
  ASSUME NEW s \in Seq(Frames), AllInterp(s)
  PROVE  /\ \A i \in 1 .. Len(s) : s[i].kind = "native" => Len(s) = 1
         /\ ~(s # <<>> /\ Head(s).kind = "native")
<1>1. \A i \in 1 .. Len(s) : s[i].kind = "native" => Len(s) = 1
  BY DEF AllInterp
<1>2. s # <<>> => Head(s).kind = "interp"
  BY Pop DEF AllInterp
<1>3. QED BY <1>1, <1>2

\* With an interpreter on top, every frame is one.
LEMMA InterpOnTop ==
  ASSUME TypeOK, StackInv, frames # <<>>, Head(frames).kind = "interp"
  PROVE  AllInterp(frames)
<1>1. frames \in Seq(Frames) BY DEF TypeOK
<1>2. /\ Head(frames) = frames[1] /\ Len(frames) \in Nat /\ Len(frames) >= 1
  BY <1>1, Pop
<1>3. \A i \in 1 .. Len(frames) : frames[i].kind \in {"native", "interp"}
  BY <1>1, ElementOfSeq, FrameFields
<1>4. SUFFICES ASSUME NEW i \in 1 .. Len(frames), frames[i].kind = "native" PROVE FALSE
  BY <1>3 DEF AllInterp
<1>5. Len(frames) = 1 BY <1>4 DEF StackInv
<1>6. i = 1 BY <1>2, <1>5
<1>7. QED BY <1>2, <1>4, <1>6

\* What the three ways an interpreted step changes the stack yield.
LEMMA InterpFrames ==
  ASSUME TypeOK, StackInv, frames # <<>>, Head(frames).kind = "interp"
  PROVE  /\ Tail(frames) \in Seq(Frames) /\ AllInterp(Tail(frames))
         /\ Head(frames).budget > 0 =>
              /\ Spent \in Seq(Frames) /\ Spent # <<>> /\ AllInterp(Spent)
              /\ <<InterpFrame>> \o Spent \in Seq(Frames)
              /\ <<InterpFrame>> \o Spent # <<>>
              /\ AllInterp(<<InterpFrame>> \o Spent)
<1>1. frames \in Seq(Frames) /\ AllInterp(frames)
  BY InterpOnTop DEF TypeOK
<1>2. Tail(frames) \in Seq(Frames) /\ AllInterp(Tail(frames))
  BY <1>1, Pop DEF AllInterp
<1> DEFINE top == [Head(frames) EXCEPT !.budget = @ - 1]
<1>3. Head(frames).budget > 0 => top \in Frames /\ top.kind = "interp"
  <2>1. Head(frames) \in Frames BY <1>1, Pop
  <2>2. QED BY <2>1, FrameFields
<1>4. ASSUME Head(frames).budget > 0
      PROVE  Spent \in Seq(Frames) /\ Spent # <<>> /\ AllInterp(Spent)
  <2>1. top \in Frames /\ top.kind = "interp" BY <1>3, <1>4
  <2>2. Spent = <<top>> \o Tail(frames) BY DEF Spent
  <2> HIDE DEF top
  <2>3. /\ Spent \in Seq(Frames) /\ Spent # <<>> /\ Len(Spent) = Len(frames)
        /\ \A i \in 2 .. Len(frames) : Spent[i] = frames[i]
        /\ Spent[1] = top
    BY <1>1, <2>1, <2>2, ReplaceTop
  <2>4. AllInterp(Spent)
    BY <1>1, <2>1, <2>3, LenProperties DEF AllInterp
  <2>5. QED BY <2>3, <2>4
<1>5. ASSUME Head(frames).budget > 0
      PROVE  /\ <<InterpFrame>> \o Spent \in Seq(Frames)
             /\ <<InterpFrame>> \o Spent # <<>>
             /\ AllInterp(<<InterpFrame>> \o Spent)
  <2>1. Spent \in Seq(Frames) /\ AllInterp(Spent) BY <1>4, <1>5
  <2>2. InterpFrame \in Frames /\ InterpFrame.kind = "interp"
    BY FrameTypes DEF InterpFrame
  <2> DEFINE r == <<InterpFrame>> \o Spent
  <2>3. /\ r \in Seq(Frames) /\ r # <<>> /\ Len(r) = Len(Spent) + 1
        /\ r[1] = InterpFrame
        /\ \A i \in 2 .. Len(r) : r[i] = Spent[i - 1]
    BY <2>1, <2>2, Push
  <2> HIDE DEF r
  <2>4. Len(Spent) \in Nat BY <2>1, LenProperties
  <2>5. AllInterp(r)
    <3>1. SUFFICES ASSUME NEW i \in 1 .. Len(r) PROVE r[i].kind = "interp"
      BY DEF AllInterp
    <3>2. CASE i = 1 BY <3>2, <2>2, <2>3
    <3>3. CASE i # 1
      <4>1. i \in 2 .. Len(r) /\ i - 1 \in 1 .. Len(Spent)
        BY <3>3, <2>3, <2>4
      <4>2. QED BY <4>1, <2>1, <2>3 DEF AllInterp
    <3>4. QED BY <3>2, <3>3
  <2>6. QED BY <2>3, <2>5 DEF r
<1>6. QED BY <1>2, <1>4, <1>5
-----------------------------------------------------------------------------
(* The invariant *)

\* Loading an image leaves a heap of a legal size.
LEMMA HeapTypes ==
  ASSUME TypeOK, NEW name \in Names, Programs[name] # NotFound
  PROVE  /\ native_heap(Programs[name]) \in 0 .. HEAP_SIZE
         /\ interp_heap(Programs[name]) \in 0 .. HEAP_SIZE
<1> DEFINE img == Programs[name]
<1>1. img \in Images OBVIOUS
<1>2. img.span \in Nat BY <1>1 DEF Images
<1>3. heap_free \in 0 .. HEAP_SIZE BY DEF TypeOK
<1> HIDE DEF img
<1>4. /\ heap_after(img, NATIVE_STACK) \in 0 .. HEAP_SIZE
      /\ heap_after(img, INTERP_STACK) \in 0 .. HEAP_SIZE
  BY <1>2, <1>3 DEF heap_after
<1>5. /\ native_heap(img) \in 0 .. HEAP_SIZE /\ interp_heap(img) \in 0 .. HEAP_SIZE
  BY <1>3, <1>4 DEF native_heap, interp_heap
<1>6. QED BY <1>5 DEF img

\* A step between stacks of interpreters: what is left to show of it.
LEMMA InterpKeepsInv ==
  ASSUME ProcessInv, hist.via # "native", OUT_FN = FALSE,
         TypeOK', AllInterp(frames'), OUT_FN' = FALSE, hist'.via = hist.via,
         mode' \in {"cpu", "stdin"} => frames' # <<>>,
         mode' = "unwind" => result' \in {"Ok", "Err"},
         mode' = "shell" => frames' = <<>>,
         CodeInv', ReapInv', ReportedCode'
  PROVE  ProcessInv'
<1>1. frames' \in Seq(Frames) BY DEF TypeOK
<1>2. /\ \A i \in 1 .. Len(frames') : frames'[i].kind = "native" => Len(frames') = 1
      /\ ~(frames' # <<>> /\ Head(frames').kind = "native")
  BY <1>1, InterpStack
<1>3. ~NativeOnTop' BY <1>2 DEF NativeOnTop
<1>4. StackInv' BY <1>2, <1>3 DEF StackInv
<1>5. WriterOnlyForNative' BY <1>3 DEF WriterOnlyForNative
<1>6. NativeReapsOnlyItself' BY DEF NativeReapsOnlyItself
<1>7. QED BY <1>4, <1>5, <1>6 DEF ProcessInv

\* With an interpreter on top there is no native program and no writer.
LEMMA InterpContext ==
  ASSUME ProcessInv, frames # <<>>, Head(frames).kind = "interp", mode # "halted"
  PROVE  hist.via # "native" /\ OUT_FN = FALSE
BY DEF ProcessInv, StackInv, WriterOnlyForNative, NativeOnTop, TypeOK

LEMMA InitInv == Init => ProcessInv
<1> SUFFICES ASSUME Init PROVE ProcessInv OBVIOUS
<1>2. frames = <<>> /\ frames \in Seq(Frames) /\ Len(frames) = 0
  BY EmptySeq DEF Init
<1>3. NoHist \in Hists /\ NoWait \in Waits /\ Report("none", 0) \in Reports
  BY DEF NoHist, Hists, NoWait, Waits, NotStored, Report, Reports
<1>4. TypeOK
  <2>1. heap_free \in 0 .. HEAP_SIZE BY DEF Init
  <2>2. mode \in Modes /\ result \in Results BY DEF Init, Modes, Results
  <2>3. /\ LAST_EXIT \in Codes /\ EXIT_WAITABLE \in BOOLEAN
        /\ OUT_FN \in BOOLEAN /\ SYSCALL_READY \in BOOLEAN
    BY DEF Init
  <2>4. report \in Reports /\ waited \in Waits /\ hist \in Hists
    BY <1>3 DEF Init
  <2>5. QED BY <1>2, <2>1, <2>2, <2>3, <2>4 DEF TypeOK
<1>5. StackInv /\ CodeInv /\ ReapInv
  BY <1>2 DEF Init, StackInv, CodeInv, ReapInv
<1>6. WriterOnlyForNative /\ ReportedCode /\ NativeReapsOnlyItself
  BY <1>2 DEF Init, WriterOnlyForNative, NativeOnTop, ReportedCode, Report,
              NativeReapsOnlyItself, NoWait
<1>7. QED BY <1>4, <1>5, <1>6 DEF ProcessInv

\* A step that ends in the shell or halts before any program got the CPU.
LEMMA NoFramesInv ==
  ASSUME ProcessInv, TypeOK', frames' = <<>>, mode' \in {"shell", "halted"},
         OUT_FN' = FALSE, report'.kind # "exited" \/ mode' = "halted",
         waited' = NoWait
  PROVE  ProcessInv'
<1>1. Len(frames') = 0 /\ ~NativeOnTop' BY EmptySeq DEF NativeOnTop
<1>2. StackInv' BY <1>1 DEF StackInv
<1>3. CodeInv' /\ ReapInv' /\ WriterOnlyForNative' /\ ReportedCode' /\ NativeReapsOnlyItself'
  BY <1>1 DEF CodeInv, ReapInv, WriterOnlyForNative, ReportedCode, NativeReapsOnlyItself,
              NoWait
<1>4. QED BY <1>2, <1>3 DEF ProcessInv

LEMMA BeganTypes ==
  ASSUME TypeOK, NEW via \in {"none", "native", "interp"}
  PROVE  /\ Began(via) \in Hists /\ NoWait \in Waits
         /\ Report("failed", 0) \in Reports
         /\ Began(via).via = via /\ Began(via).before = LAST_EXIT
         /\ Began(via).exited = FALSE /\ Began(via).execs = 0 /\ Began(via).reaps = 0
<1>1. /\ Began(via).via = via /\ Began(via).before = LAST_EXIT
      /\ Began(via).exited = FALSE /\ Began(via).execs = 0 /\ Began(via).reaps = 0
  BY DEF Began
<1>2. LAST_EXIT \in Codes BY DEF TypeOK
<1>3. Began(via) \in Hists BY <1>2 DEF Hists, Began
<1>4. NoWait \in Waits /\ Report("failed", 0) \in Reports
  BY DEF NoWait, Waits, NotStored, Report, Reports
<1>5. QED BY <1>1, <1>3, <1>4

LEMMA RunCommandInv ==
  ASSUME ProcessInv, NEW name \in Names,
         run_fails(name) \/ run_native(name) \/ run_interp(name) \/ run_halts(name)
  PROVE  ProcessInv'
<1>1. TypeOK /\ mode = "shell" /\ frames = <<>> /\ OUT_FN = FALSE
  BY DEF ProcessInv, StackInv, WriterOnlyForNative, NativeOnTop, TypeOK,
         run_fails, run_native, run_interp, run_halts
<1>2. /\ heap_free \in 0 .. HEAP_SIZE
      /\ Programs[name] # NotFound => /\ native_heap(Programs[name]) \in 0 .. HEAP_SIZE
                                      /\ interp_heap(Programs[name]) \in 0 .. HEAP_SIZE
  BY <1>1, HeapTypes DEF TypeOK
<1>3. <<>> \in Seq(Frames) /\ <<NativeFrame>> \in Seq(Frames) /\ <<InterpFrame>> \in Seq(Frames)
  BY FrameTypes
<1>4. CASE run_fails(name)
  <2>1. heap_free' \in 0 .. HEAP_SIZE /\ SYSCALL_READY' \in BOOLEAN
    BY <1>1, <1>2, <1>4 DEF run_fails, TypeOK
  <2>2. TypeOK'
    BY <1>1, <1>4, <2>1, BeganTypes DEF run_fails, TypeOK, exit_state
  <2>3. report'.kind # "exited" BY <1>4 DEF run_fails, Report
  <2>4. QED BY <1>1, <1>4, <2>2, <2>3, NoFramesInv DEF run_fails
<1>5. CASE run_halts(name)
  <2>1. TypeOK'
    BY <1>1, <1>2, <1>5, BeganTypes DEF run_halts, TypeOK, Modes, exit_state
  <2>2. QED BY <1>1, <1>5, <2>1, NoFramesInv DEF run_halts
<1>6. CASE run_native(name)
  <2>1. TypeOK'
    BY <1>1, <1>2, <1>3, <1>6, BeganTypes DEF run_native, TypeOK, Modes
  <2>2. /\ Len(frames') = 1 /\ frames' # <<>> /\ Head(frames') = NativeFrame
        /\ frames'[1] = NativeFrame
    BY <1>6 DEF run_native
  <2>3. NativeOnTop' BY <2>2 DEF NativeOnTop, NativeFrame
  <2>4. /\ hist'.via = "native" /\ ~hist'.exited /\ hist'.reaps = 0 /\ hist'.execs = 0
        /\ mode' = "cpu" /\ LAST_EXIT' = 0 /\ waited' = NoWait
        /\ OUT_FN' = TRUE /\ SYSCALL_READY' = TRUE
    BY <1>1, <1>6, BeganTypes DEF run_native
  <2>5. StackInv' BY <2>2, <2>3, <2>4 DEF StackInv
  <2>6. CodeInv' /\ ReapInv' BY <2>4 DEF CodeInv, ReapInv, Pending
  <2>7. WriterOnlyForNative' /\ ReportedCode' /\ NativeReapsOnlyItself'
    BY <2>2, <2>3, <2>4 DEF WriterOnlyForNative, ReportedCode, NativeReapsOnlyItself, NoWait
  <2>8. QED BY <2>1, <2>5, <2>6, <2>7 DEF ProcessInv
<1>7. CASE run_interp(name)
  <2>1. TypeOK'
    <3>1. /\ frames' \in Seq(Frames) /\ mode' \in Modes /\ report' \in Reports
      BY <1>1, <1>3, <1>7, BeganTypes DEF run_interp, TypeOK, Modes
    <3>2. heap_free' \in 0 .. HEAP_SIZE BY <1>2, <1>7 DEF run_interp
    <3>3. QED BY <1>1, <1>7, <3>1, <3>2, BeganTypes DEF run_interp, TypeOK, exit_state
  <2>2. /\ hist'.via = "interp" /\ ~hist'.exited /\ hist'.reaps = 0 /\ hist'.execs = 0
        /\ hist'.before = LAST_EXIT /\ LAST_EXIT' = LAST_EXIT
        /\ waited' = NoWait /\ OUT_FN' = FALSE /\ EXIT_WAITABLE' \in BOOLEAN
    BY <1>1, <1>7, BeganTypes DEF run_interp, exit_state, TypeOK
  <2>3. CASE frames' = <<>> /\ mode' \in {"shell", "halted"}
    <3>1. report'.kind # "exited" \/ mode' = "halted"
      <4>1. report' = Report("failed", 0) \/ mode' = "halted"
        BY <1>7, <2>3 DEF run_interp
      <4>2. Report("failed", 0).kind # "exited" BY DEF Report
      <4>3. QED BY <4>1, <4>2
    <3>2. QED BY <2>1, <2>2, <2>3, <3>1, NoFramesInv
  <2>4. CASE frames' = <<InterpFrame>> /\ mode' = "cpu"
    <3>1. /\ Len(frames') = 1 /\ frames' # <<>> /\ Head(frames') = InterpFrame
          /\ frames'[1] = InterpFrame
      BY <2>4
    <3>2. AllInterp(frames') BY <3>1 DEF AllInterp, InterpFrame
    <3>3. ~NativeOnTop' BY <3>1 DEF NativeOnTop, InterpFrame
    <3>4. StackInv' BY <2>2, <2>4, <3>1, <3>2, <3>3 DEF StackInv, AllInterp
    <3>5. CodeInv' /\ ReapInv' BY <2>2, <2>4 DEF CodeInv, ReapInv, Pending
    <3>6. WriterOnlyForNative' /\ ReportedCode' /\ NativeReapsOnlyItself'
      BY <2>2, <2>4, <3>3 DEF WriterOnlyForNative, ReportedCode, NativeReapsOnlyItself
    <3>7. QED BY <2>1, <3>4, <3>5, <3>6 DEF ProcessInv
  <2>5. QED BY <1>1, <1>7, <2>3, <2>4 DEF run_interp
<1>8. QED BY <1>4, <1>5, <1>6, <1>7

LEMMA ExitTypes ==
  ASSUME TypeOK, NEW c \in Codes, exit(c)
  PROVE  /\ LAST_EXIT' \in Codes /\ EXIT_WAITABLE' \in BOOLEAN /\ hist' \in Hists
         /\ LAST_EXIT' = c /\ hist'.exited = TRUE /\ hist'.code = c
         /\ hist'.via = hist.via /\ hist'.before = hist.before
         /\ hist'.execs = hist.execs /\ hist'.reaps = hist.reaps
BY DEF TypeOK, exit, Hists

\* wait4 clears the flag for every exit it reaps.
LEMMA WaitTypes ==
  ASSUME TypeOK, NEW pid_ok \in BOOLEAN, NEW stores \in BOOLEAN, sys_wait4(pid_ok, stores)
  PROVE  /\ LAST_EXIT' = LAST_EXIT /\ EXIT_WAITABLE' \in BOOLEAN
         /\ hist' \in Hists /\ waited' \in Waits
         /\ hist'.via = hist.via /\ hist'.before = hist.before
         /\ hist'.exited = hist.exited /\ hist'.code = hist.code
         /\ hist'.execs = hist.execs
         /\ hist'.reaps + (IF EXIT_WAITABLE' THEN 1 ELSE 0)
              <= hist.reaps + (IF EXIT_WAITABLE THEN 1 ELSE 0)
         /\ waited'.ret = "pid" => waited'.status \in {Status(LAST_EXIT), NotStored}
<1>1. LAST_EXIT \in Int /\ Status(LAST_EXIT) \in Int
  BY DEF TypeOK, Status
<1>2. hist \in Hists /\ hist.reaps \in Nat BY DEF TypeOK, Hists
<1> HIDE DEF Status
<1>3. CASE pid_ok /\ EXIT_WAITABLE
  <2>1. waited' \in Waits /\ (waited'.ret = "pid" => waited'.status \in {Status(LAST_EXIT), NotStored})
    BY <1>1, <1>3 DEF sys_wait4, Waits, NotStored
  <2>2. hist' = [hist EXCEPT !.reaps = @ + 1] /\ EXIT_WAITABLE' = FALSE /\ LAST_EXIT' = LAST_EXIT
    BY <1>3 DEF sys_wait4
  <2>3. /\ hist' \in Hists /\ hist'.via = hist.via /\ hist'.before = hist.before
        /\ hist'.exited = hist.exited /\ hist'.code = hist.code
        /\ hist'.execs = hist.execs /\ hist'.reaps = hist.reaps + 1
    BY <1>2, <2>2 DEF Hists
  <2>4. EXIT_WAITABLE = TRUE BY <1>3 DEF TypeOK
  <2>5. hist'.reaps + (IF EXIT_WAITABLE' THEN 1 ELSE 0)
          <= hist.reaps + (IF EXIT_WAITABLE THEN 1 ELSE 0)
    BY <1>2, <2>2, <2>3, <2>4
  <2>6. EXIT_WAITABLE' \in BOOLEAN BY <2>2
  <2>7. QED BY <2>1, <2>2, <2>3, <2>5, <2>6
<1>4. CASE ~(pid_ok /\ EXIT_WAITABLE)
  BY <1>2, <1>4 DEF sys_wait4, Waits, NotStored, exit_state, TypeOK
<1>5. QED BY <1>3, <1>4
-----------------------------------------------------------------------------
\* A native program's steps.
LEMMA NativeInv ==
  ASSUME ProcessInv, NativeStep \/ native_return
  PROVE  ProcessInv'
<1>1. TypeOK /\ StackInv /\ CodeInv /\ ReapInv /\ WriterOnlyForNative
      /\ ReportedCode /\ NativeReapsOnlyItself
  BY DEF ProcessInv
<1>2. /\ NativeOnTop /\ mode \in {"cpu", "unwind"} /\ hist.via = "native"
      /\ OUT_FN /\ SYSCALL_READY /\ Len(frames) = 1
  BY <1>1 DEF NativeStep, native_exit, native_wait4, native_read_stdin, native_fault,
              native_return, Native, NativeOnTop, StackInv, WriterOnlyForNative
<1>3. ASSUME NEW c \in Codes, native_exit(c) PROVE ProcessInv'
  <2>1. exit(c) /\ mode' = "unwind" /\ result' = "Ok"
        /\ UNCHANGED <<frames, OUT_FN, SYSCALL_READY, heap_free, report, waited>>
    BY <1>3 DEF native_exit, native_path
  <2>2. /\ LAST_EXIT' \in Codes /\ EXIT_WAITABLE' \in BOOLEAN /\ hist' \in Hists
        /\ LAST_EXIT' = c /\ hist'.exited = TRUE /\ hist'.code = c /\ hist'.via = "native"
    BY <1>1, <1>2, <2>1, ExitTypes
  <2>3. TypeOK' BY <1>1, <2>1, <2>2 DEF TypeOK, Modes, Results
  <2>4. NativeOnTop' BY <1>2, <2>1 DEF NativeOnTop
  <2>5. StackInv' BY <1>1, <2>1, <2>2, <2>4 DEF StackInv
  <2>6. CodeInv' /\ ReapInv'
    BY <1>2, <2>1, <2>2 DEF CodeInv, ReapInv, NativeOnTop
  <2>7. WriterOnlyForNative' /\ ReportedCode' /\ NativeReapsOnlyItself'
    BY <1>1, <1>2, <2>1, <2>2, <2>4 DEF WriterOnlyForNative, ReportedCode, NativeReapsOnlyItself
  <2>8. QED BY <2>3, <2>5, <2>6, <2>7 DEF ProcessInv
<1>4. ASSUME NEW pid_ok \in BOOLEAN, NEW stores \in BOOLEAN, native_wait4(pid_ok, stores)
      PROVE  ProcessInv'
  <2>1. /\ sys_wait4(pid_ok, stores) /\ mode = "cpu"
        /\ UNCHANGED <<mode, frames, result, OUT_FN, SYSCALL_READY, heap_free, report>>
    BY <1>4 DEF native_wait4, native_path, Native
  <2>2. /\ LAST_EXIT' = LAST_EXIT /\ EXIT_WAITABLE' \in BOOLEAN
        /\ hist' \in Hists /\ waited' \in Waits
        /\ hist'.via = hist.via /\ hist'.before = hist.before
        /\ hist'.exited = hist.exited /\ hist'.code = hist.code
        /\ hist'.execs = hist.execs
        /\ hist'.reaps + (IF EXIT_WAITABLE' THEN 1 ELSE 0)
             <= hist.reaps + (IF EXIT_WAITABLE THEN 1 ELSE 0)
        /\ waited'.ret = "pid" => waited'.status \in {Status(LAST_EXIT), NotStored}
    BY <1>1, <2>1, WaitTypes
  <2>3. TypeOK' BY <1>1, <2>1, <2>2 DEF TypeOK
  <2>4. NativeOnTop' BY <1>2, <2>1 DEF NativeOnTop
  <2>5. StackInv' BY <1>1, <1>2, <2>1, <2>2, <2>4 DEF StackInv
  <2>6. LAST_EXIT = 0 /\ ~hist.exited
    BY <1>1, <1>2, <2>1 DEF CodeInv, Pending
  <2>7. CodeInv' BY <1>2, <2>1, <2>2, <2>6 DEF CodeInv, Pending
  <2>8. ReapInv'
    <3>1. hist.reaps \in Nat /\ hist.execs \in Nat /\ hist'.reaps \in Nat
      BY <1>1, <2>2 DEF TypeOK, Hists
    <3>2. hist.reaps + (IF EXIT_WAITABLE THEN 1 ELSE 0) <= 1 + hist.execs
      BY <1>1, <2>1 DEF ReapInv
    <3>3. QED BY <2>1, <2>2, <3>1, <3>2 DEF ReapInv
  <2>9. Status(LAST_EXIT) = 0 BY <2>6 DEF Status
  <2>10. WriterOnlyForNative' /\ ReportedCode' /\ NativeReapsOnlyItself'
    BY <1>1, <1>2, <2>1, <2>2, <2>4, <2>9 DEF WriterOnlyForNative, ReportedCode, NativeReapsOnlyItself
  <2>11. QED BY <2>3, <2>5, <2>7, <2>8, <2>10 DEF ProcessInv
<1>5. ASSUME native_read_stdin \/ native_fault PROVE ProcessInv'
  <2>1. /\ mode = "cpu" /\ mode' \in {"stdin", "halted"}
        /\ UNCHANGED <<frames, result, LAST_EXIT, EXIT_WAITABLE, OUT_FN, SYSCALL_READY,
                       heap_free, report, waited, hist>>
    BY <1>5 DEF native_read_stdin, native_fault, native_path, exit_state, Native
  <2>2. TypeOK' BY <1>1, <2>1 DEF TypeOK, Modes
  <2>3. NativeOnTop' BY <1>2, <2>1 DEF NativeOnTop
  <2>4. StackInv' BY <1>1, <1>2, <2>1, <2>3 DEF StackInv, NativeOnTop
  <2>5. CodeInv' /\ ReapInv' BY <1>1, <2>1 DEF CodeInv, ReapInv, Pending
  <2>6. WriterOnlyForNative' /\ ReportedCode' /\ NativeReapsOnlyItself'
    BY <1>1, <1>2, <2>1, <2>3 DEF WriterOnlyForNative, ReportedCode, NativeReapsOnlyItself
  <2>7. QED BY <2>2, <2>4, <2>5, <2>6 DEF ProcessInv
<1>6. ASSUME native_return PROVE ProcessInv'
  <2>1. /\ mode = "unwind" /\ mode' = "shell" /\ frames' = <<>> /\ result' = "none"
        /\ OUT_FN' = FALSE /\ report' = Report("exited", LAST_EXIT)
        /\ UNCHANGED <<LAST_EXIT, EXIT_WAITABLE, SYSCALL_READY, heap_free, waited, hist>>
    BY <1>6 DEF native_return, exit_state
  <2>2. report' \in Reports /\ report'.code = LAST_EXIT
    BY <1>1, <2>1 DEF Report, Reports, TypeOK
  <2>3. frames' \in Seq(Frames) /\ Len(frames') = 0 BY <2>1, EmptySeq
  <2>4. TypeOK' BY <1>1, <2>1, <2>2, <2>3 DEF TypeOK, Modes, Results
  <2>5. ~NativeOnTop' BY <2>1 DEF NativeOnTop
  <2>6. StackInv' BY <2>1, <2>3 DEF StackInv
  <2>7. CodeInv' /\ ReapInv' BY <2>1 DEF CodeInv, ReapInv
  <2>8. ReportedCode'
    BY <1>1, <1>2, <2>1, <2>2 DEF CodeInv, ReportedCode
  <2>9. WriterOnlyForNative' /\ NativeReapsOnlyItself'
    BY <1>1, <2>1, <2>5 DEF WriterOnlyForNative, NativeReapsOnlyItself
  <2>10. QED BY <2>4, <2>6, <2>7, <2>8, <2>9 DEF ProcessInv
<1>7. QED BY <1>3, <1>4, <1>5, <1>6 DEF NativeStep
-----------------------------------------------------------------------------
\* Steps of an interpreted program that leave the exit state alone.
LEMMA InterpQuietInv ==
  ASSUME ProcessInv, Interp, frames' \in Seq(Frames), AllInterp(frames'),
         UNCHANGED <<LAST_EXIT, EXIT_WAITABLE, OUT_FN, SYSCALL_READY, heap_free, report,
                     waited, hist>>,
         \/ mode' \in {"cpu", "stdin"} /\ frames' # <<>> /\ result' = result
         \/ mode' = "unwind" /\ result' \in {"Ok", "Err"}
         \/ mode' = "halted" /\ result' = result
  PROVE  ProcessInv'
<1>1. TypeOK /\ StackInv /\ CodeInv /\ ReapInv /\ ReportedCode
  BY DEF ProcessInv
<1>2. hist.via # "native" /\ OUT_FN = FALSE /\ mode = "cpu"
  BY InterpContext DEF Interp
<1>3. TypeOK' BY <1>1 DEF TypeOK, Modes, Results
<1>4. CodeInv' BY <1>1, <1>2 DEF CodeInv, Pending
<1>5. ReapInv' BY <1>1, <1>2 DEF ReapInv
<1>6. ReportedCode' BY DEF ReportedCode
<1>7. QED BY <1>2, <1>3, <1>4, <1>5, <1>6, InterpKeepsInv

LEMMA InterpInv ==
  ASSUME ProcessInv, InterpStep
  PROVE  ProcessInv'
<1>1. TypeOK /\ StackInv /\ CodeInv /\ ReapInv /\ ReportedCode
  BY DEF ProcessInv
<1>2. Interp /\ mode = "cpu" /\ frames # <<>> /\ Head(frames).kind = "interp"
  BY DEF InterpStep, interp_step, interp_ret, interp_error, interp_panic, interp_read_stdin,
         interp_exit, interp_wait4, interp_wait4_status, execve_not_found, execve, step_limit,
         CanStep, Interp
<1>3. hist.via # "native" /\ OUT_FN = FALSE /\ ~hist.exited /\ LAST_EXIT = Pending
  BY <1>1, <1>2, InterpContext DEF CodeInv
<1>4. frames \in Seq(Frames) /\ AllInterp(frames)
  BY <1>1, <1>2, InterpOnTop DEF TypeOK
<1>5. /\ Tail(frames) \in Seq(Frames) /\ AllInterp(Tail(frames))
      /\ Head(frames).budget > 0 =>
           /\ Spent \in Seq(Frames) /\ Spent # <<>> /\ AllInterp(Spent)
           /\ <<InterpFrame>> \o Spent \in Seq(Frames)
           /\ <<InterpFrame>> \o Spent # <<>>
           /\ AllInterp(<<InterpFrame>> \o Spent)
  BY <1>1, <1>2, InterpFrames
<1>6. hist.reaps \in Nat /\ hist.execs \in Nat
      /\ hist.reaps + (IF EXIT_WAITABLE THEN 1 ELSE 0) <= 1 + hist.execs
  BY <1>1, <1>2 DEF TypeOK, Hists, ReapInv
<1>7. ASSUME \/ interp_step \/ interp_read_stdin
             \/ \E name \in Names : execve_not_found(name)
      PROVE  ProcessInv'
  <2>1. /\ frames' = Spent /\ Head(frames).budget > 0 /\ result' = result
        /\ mode' \in {"cpu", "stdin"}
        /\ UNCHANGED <<LAST_EXIT, EXIT_WAITABLE, OUT_FN, SYSCALL_READY, heap_free, report,
                       waited, hist>>
    BY <1>2, <1>7 DEF interp_step, interp_read_stdin, execve_not_found, CanStep, Spend,
                      exit_state, kept, native_path
  <2>2. QED BY <1>2, <1>5, <2>1, InterpQuietInv
<1>8. ASSUME interp_ret \/ interp_error \/ step_limit PROVE ProcessInv'
  <2>1. /\ frames' = Tail(frames) /\ mode' = "unwind" /\ result' \in {"Ok", "Err"}
        /\ UNCHANGED <<LAST_EXIT, EXIT_WAITABLE, OUT_FN, SYSCALL_READY, heap_free, report,
                       waited, hist>>
    BY <1>8 DEF interp_ret, interp_error, step_limit, Return, exit_state, kept, native_path
  <2>2. QED BY <1>2, <1>5, <2>1, InterpQuietInv
<1>9. ASSUME interp_panic PROVE ProcessInv'
  <2>1. /\ frames' = frames /\ mode' = "halted" /\ result' = result
        /\ UNCHANGED <<LAST_EXIT, EXIT_WAITABLE, OUT_FN, SYSCALL_READY, heap_free, report,
                       waited, hist>>
    BY <1>9 DEF interp_panic, exit_state, kept, native_path
  <2>2. QED BY <1>2, <1>4, <2>1, InterpQuietInv
<1>10. ASSUME NEW c \in Codes, interp_exit(c) PROVE ProcessInv'
  <2>1. /\ exit(c) /\ frames' = Tail(frames) /\ mode' = "unwind" /\ result' = "Ok"
        /\ UNCHANGED <<OUT_FN, SYSCALL_READY, heap_free, report, waited>>
    BY <1>10 DEF interp_exit, Return, kept, native_path
  <2>2. /\ LAST_EXIT' \in Codes /\ EXIT_WAITABLE' \in BOOLEAN /\ hist' \in Hists
        /\ LAST_EXIT' = c /\ hist'.exited = TRUE /\ hist'.code = c /\ hist'.via = hist.via
    BY <1>1, <2>1, ExitTypes
  <2>3. TypeOK' BY <1>1, <1>5, <2>1, <2>2 DEF TypeOK, Modes, Results
  <2>4. CodeInv' /\ ReapInv' /\ ReportedCode'
    BY <1>3, <2>1, <2>2 DEF CodeInv, ReapInv, ReportedCode
  <2>5. QED BY <1>3, <1>5, <2>1, <2>2, <2>3, <2>4, InterpKeepsInv
<1>11. ASSUME NEW pid_ok \in BOOLEAN, interp_wait4(pid_ok) \/ interp_wait4_status(pid_ok)
       PROVE  ProcessInv'
  <2>1. /\ sys_wait4(pid_ok, FALSE) /\ frames' = Spent /\ Head(frames).budget > 0
        /\ mode' \in {"cpu", "halted"} /\ result' = result
        /\ UNCHANGED <<OUT_FN, SYSCALL_READY, heap_free, report>>
    BY <1>2, <1>11 DEF interp_wait4, interp_wait4_status, CanStep, Spend, kept, native_path
  <2>2. /\ LAST_EXIT' = LAST_EXIT /\ EXIT_WAITABLE' \in BOOLEAN
        /\ hist' \in Hists /\ waited' \in Waits
        /\ hist'.via = hist.via /\ hist'.before = hist.before
        /\ hist'.exited = hist.exited /\ hist'.code = hist.code
        /\ hist'.execs = hist.execs
        /\ hist'.reaps + (IF EXIT_WAITABLE' THEN 1 ELSE 0)
             <= hist.reaps + (IF EXIT_WAITABLE THEN 1 ELSE 0)
    BY <1>1, <2>1, WaitTypes
  <2>3. TypeOK' BY <1>1, <1>5, <2>1, <2>2 DEF TypeOK, Modes
  <2>4. CodeInv' /\ ReportedCode'
    BY <1>3, <2>1, <2>2 DEF CodeInv, ReportedCode, Pending
  <2>5. ReapInv'
    <3>1. hist'.reaps \in Nat BY <2>2 DEF Hists
    <3>2. QED BY <1>6, <2>1, <2>2, <3>1 DEF ReapInv
  <2>6. QED BY <1>3, <1>5, <2>1, <2>2, <2>3, <2>4, <2>5, InterpKeepsInv
<1>12. ASSUME NEW name \in Names, NEW argv_fits \in BOOLEAN, execve(name, argv_fits)
       PROVE  ProcessInv'
  <2>1. /\ LAST_EXIT' = 0 /\ EXIT_WAITABLE' = TRUE /\ Head(frames).budget > 0
        /\ hist' = [hist EXCEPT !.execs = @ + 1]
        /\ frames' \in {Spent, <<InterpFrame>> \o Spent} /\ mode' \in {"cpu", "halted"}
        /\ Programs[name] # NotFound /\ heap_free' = interp_heap(Programs[name])
        /\ UNCHANGED <<result, OUT_FN, SYSCALL_READY, report, waited>>
    BY <1>2, <1>12 DEF execve, CanStep, native_path
  <2>2. /\ hist' \in Hists /\ hist'.via = hist.via /\ hist'.exited = hist.exited
        /\ hist'.execs = hist.execs + 1 /\ hist'.reaps = hist.reaps
    <3>1. hist \in Hists BY <1>1 DEF TypeOK
    <3>2. hist' = [hist EXCEPT !.execs = @ + 1] BY <2>1
    <3>3. QED BY <3>1, <3>2 DEF Hists
  <2>3. heap_free' \in 0 .. HEAP_SIZE BY <1>1, <2>1, HeapTypes
  <2>4. frames' \in Seq(Frames) /\ frames' # <<>> /\ AllInterp(frames')
    BY <1>5, <2>1
  <2>5. TypeOK' BY <1>1, <2>1, <2>2, <2>3, <2>4 DEF TypeOK, Modes
  <2>6. CodeInv' /\ ReportedCode'
    BY <1>3, <1>6, <2>1, <2>2 DEF CodeInv, ReportedCode, Pending
  <2>7. ReapInv'
    BY <1>6, <2>1, <2>2 DEF ReapInv
  <2>8. QED BY <1>3, <2>1, <2>2, <2>4, <2>5, <2>6, <2>7, InterpKeepsInv
<1>13. QED
  BY <1>7, <1>8, <1>9, <1>10, <1>11, <1>12 DEF InterpStep

\* Unwinding, and input for a program that waits for it.
LEMMA ReturnInv ==
  ASSUME ProcessInv,
         execve_returns_ok \/ execve_returns_err \/ run_returns \/ stdin_ready
  PROVE  ProcessInv'
<1>1. TypeOK /\ StackInv /\ CodeInv /\ ReapInv /\ WriterOnlyForNative
      /\ ReportedCode /\ NativeReapsOnlyItself
  BY DEF ProcessInv
<1>2. CASE execve_returns_ok
  <2>1. /\ frames # <<>> /\ Head(frames).kind = "interp" /\ mode = "unwind"
        /\ result = "Ok" /\ frames' = Tail(frames)
        /\ UNCHANGED <<mode, result, LAST_EXIT, EXIT_WAITABLE, OUT_FN, SYSCALL_READY,
                       heap_free, report, waited, hist>>
    BY <1>2 DEF execve_returns_ok, exit_state, kept, native_path
  <2>2. frames' \in Seq(Frames) /\ AllInterp(frames')
    BY <1>1, <2>1, InterpFrames
  <2>3. hist.via # "native" /\ OUT_FN = FALSE BY <2>1, InterpContext
  <2>4. TypeOK' BY <1>1, <2>1, <2>2 DEF TypeOK
  <2>5. CodeInv' /\ ReapInv' /\ ReportedCode'
    BY <1>1, <2>1, <2>3 DEF CodeInv, ReapInv, ReportedCode, Pending
  <2>6. QED BY <2>1, <2>2, <2>3, <2>4, <2>5, InterpKeepsInv
<1>3. CASE execve_returns_err
  <2>1. /\ frames # <<>> /\ Head(frames).kind = "interp" /\ mode = "unwind"
        /\ result = "Err" /\ mode' = "cpu" /\ result' = "none"
        /\ UNCHANGED <<frames, LAST_EXIT, EXIT_WAITABLE, OUT_FN, SYSCALL_READY,
                       heap_free, report, waited, hist>>
    BY <1>3 DEF execve_returns_err, exit_state, kept, native_path
  <2>2. AllInterp(frames') BY <1>1, <2>1, InterpOnTop
  <2>3. hist.via # "native" /\ OUT_FN = FALSE BY <2>1, InterpContext
  <2>4. TypeOK' BY <1>1, <2>1 DEF TypeOK, Modes, Results
  <2>5. CodeInv' /\ ReapInv' /\ ReportedCode'
    BY <1>1, <2>1, <2>3 DEF CodeInv, ReapInv, ReportedCode, Pending
  <2>6. QED BY <2>1, <2>2, <2>3, <2>4, <2>5, InterpKeepsInv
<1>4. CASE run_returns
  <2>1. /\ mode = "unwind" /\ frames = <<>> /\ mode' = "shell" /\ result' = "none"
        /\ report' = IF result = "Ok" THEN Report("exited", LAST_EXIT) ELSE Report("failed", 0)
        /\ UNCHANGED <<frames, LAST_EXIT, EXIT_WAITABLE, OUT_FN, SYSCALL_READY,
                       heap_free, waited, hist>>
    BY <1>4 DEF run_returns, exit_state, native_path
  <2>2. hist.via # "native" BY <1>1, <2>1 DEF CodeInv
  <2>3. OUT_FN = FALSE BY <1>1, <2>1 DEF WriterOnlyForNative, NativeOnTop, TypeOK
  <2>4. report' \in Reports BY <1>1, <2>1 DEF Report, Reports, TypeOK
  <2>5. TypeOK' BY <1>1, <2>1, <2>4 DEF TypeOK, Modes, Results
  <2>6. AllInterp(frames') BY <2>1, EmptySeq DEF AllInterp
  <2>7. CodeInv' /\ ReapInv' BY <2>1 DEF CodeInv, ReapInv
  <2>8. ReportedCode'
    BY <1>1, <2>1, <2>2 DEF CodeInv, Pending, ReportedCode, Report
  <2>9. QED BY <2>1, <2>2, <2>3, <2>5, <2>6, <2>7, <2>8, InterpKeepsInv
<1>5. CASE stdin_ready
  <2>1. /\ mode = "stdin" /\ mode' = "cpu"
        /\ UNCHANGED <<frames, result, LAST_EXIT, EXIT_WAITABLE, OUT_FN, SYSCALL_READY,
                       heap_free, report, waited, hist>>
    BY <1>5 DEF stdin_ready, exit_state, kept, native_path
  <2>2. TypeOK' BY <1>1, <2>1 DEF TypeOK, Modes
  <2>3. StackInv' BY <1>1, <2>1 DEF StackInv, NativeOnTop
  <2>4. CodeInv' /\ ReapInv' BY <1>1, <2>1 DEF CodeInv, ReapInv, Pending
  <2>5. WriterOnlyForNative' /\ ReportedCode' /\ NativeReapsOnlyItself'
    BY <1>1, <2>1 DEF WriterOnlyForNative, NativeOnTop, ReportedCode, NativeReapsOnlyItself
  <2>6. QED BY <2>2, <2>3, <2>4, <2>5 DEF ProcessInv
<1>6. QED BY <1>2, <1>3, <1>4, <1>5
-----------------------------------------------------------------------------
(* The theorems *)

\* ProcessInv holds of every reachable state.
THEOREM ProcessInvariant == Spec => []ProcessInv
<1>1. Init => ProcessInv BY InitInv
<1>2. ProcessInv /\ [Next]_vars => ProcessInv'
  <2> SUFFICES ASSUME ProcessInv, [Next]_vars PROVE ProcessInv'
    OBVIOUS
  <2>1. CASE RunCommand BY <2>1, RunCommandInv DEF RunCommand
  <2>2. CASE NativeStep BY <2>2, NativeInv
  <2>3. CASE InterpStep BY <2>3, InterpInv
  <2>4. CASE KernelReturn BY <2>4, NativeInv, ReturnInv DEF KernelReturn
  <2>5. CASE stdin_ready BY <2>5, ReturnInv
  <2>6. CASE UNCHANGED vars
    BY <2>6 DEF vars, ProcessInv, TypeOK, StackInv, CodeInv, ReapInv, Pending, NativeOnTop,
                WriterOnlyForNative, ReportedCode, NativeReapsOnlyItself
  <2>7. QED BY <2>1, <2>2, <2>3, <2>4, <2>5, <2>6 DEF Next, spin_forever
<1>3. QED BY <1>1, <1>2, PTL DEF Spec

\* Every variable keeps its type; in particular the heap left for images
\* never becomes negative, whatever is run.
THEOREM TypeCorrect == Spec => []TypeOK
<1>1. ProcessInv => TypeOK BY DEF ProcessInv
<1>2. QED BY <1>1, ProcessInvariant, PTL

\* native_runner.rs: OUT_FN is set exactly while a native program has the CPU.
THEOREM WriterIsNative == Spec => []WriterOnlyForNative
<1>1. ProcessInv => WriterOnlyForNative BY DEF ProcessInv
<1>2. QED BY <1>1, ProcessInvariant, PTL

\* main.rs: which code the run command reports, for native and interpreted runs.
THEOREM ReportIsKnown == Spec => []ReportedCode
<1>1. ProcessInv => ReportedCode BY DEF ProcessInv
<1>2. QED BY <1>1, ProcessInvariant, PTL

\* syscall.rs, sys_wait4: a native program reaps only the zero marked for it.
THEOREM NativeReapsZero == Spec => []NativeReapsOnlyItself
<1>1. ProcessInv => NativeReapsOnlyItself BY DEF ProcessInv
<1>2. QED BY <1>1, ProcessInvariant, PTL

\* syscall.rs, sys_wait4: no recorded exit is reaped twice.
THEOREM NoDoubleReap == Spec => []ReapedOnce
<1>1. ProcessInv => ReapedOnce BY DEF ProcessInv, ReapInv, ReapedOnce
<1>2. QED BY <1>1, ProcessInvariant, PTL

\* elf_runner.rs, handle_syscall: once a program has ended, every step unwinds
\* one of the runners below it and none of them executes an instruction.
THEOREM EndIsFinal == Spec => EndedStaysEnded
<1>1. ASSUME ProcessInv, Next, mode = "unwind", result = "Ok"
      PROVE  /\ mode' \in {"unwind", "shell"}
             /\ frames' = (IF frames = <<>> THEN <<>> ELSE Tail(frames))
             /\ UNCHANGED exit_state
  <2>1. native_return \/ execve_returns_ok \/ run_returns
    BY <1>1 DEF Next, RunCommand, NativeStep, InterpStep, KernelReturn, stdin_ready, spin_forever,
         run_fails, run_native, run_interp, run_halts,
         native_exit, native_wait4, native_read_stdin, native_fault, Native,
         interp_step, interp_ret, interp_error, interp_panic, interp_read_stdin,
         interp_exit, interp_wait4, interp_wait4_status, execve_not_found, execve, step_limit,
         CanStep, Interp, execve_returns_err
  <2>2. CASE native_return
    <3>1. frames # <<>> /\ frames' = <<>> /\ mode' = "shell" /\ UNCHANGED exit_state
      BY <2>2 DEF native_return
    <3>2. frames \in Seq(Frames) /\ Len(frames) = 1
      BY <1>1, <2>2 DEF ProcessInv, TypeOK, WriterOnlyForNative, NativeOnTop, native_return
    <3>3. Tail(frames) \in Seq(Frames) /\ Len(Tail(frames)) = 0
      BY <3>1, <3>2, Pop
    <3>4. Tail(frames) = <<>> BY <3>3, EmptySeq
    <3>5. QED BY <3>1, <3>4
  <2>3. CASE execve_returns_ok BY <1>1, <2>3 DEF execve_returns_ok
  <2>4. CASE run_returns BY <2>4 DEF run_returns
  <2>5. QED BY <2>1, <2>2, <2>3, <2>4
<1>2. ProcessInv /\ [Next]_vars =>
        [mode = "unwind" /\ result = "Ok" =>
           /\ mode' \in {"unwind", "shell"}
           /\ frames' = (IF frames = <<>> THEN <<>> ELSE Tail(frames))
           /\ UNCHANGED exit_state]_vars
  BY <1>1
<1>3. QED BY <1>2, ProcessInvariant, PTL DEF Spec, EndedStaysEnded
=============================================================================
