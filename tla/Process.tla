------------------------------- MODULE Process -------------------------------
(***************************************************************************)
(* One `run` command of the shell (kernel/src/main.rs) from the file it    *)
(* opens to the code it reports: the native runner (native_runner.rs), the *)
(* interpreter it falls back to (elf_runner.rs), interpreted execve, and   *)
(* the exit state that exit and wait4 share (syscall.rs).                  *)
(*                                                                         *)
(* A program is nondeterministic: it may execute any instruction at any    *)
(* time.  What the loaders look at in its file is an ELF record.           *)
(***************************************************************************)
EXTENDS Integers, Sequences

CONSTANTS
  Names,            \* names given to run and to execve
  Programs,         \* the ELF image fs::open finds under a name, or NotFound
  NotFound,
  Codes,            \* exit codes, after their truncation to i32
  HEAP_SIZE,        \* bytes of heap left for program images after boot
  NATIVE_STACK, INTERP_STACK,
  MAX_NATIVE_MEM, MAX_INTERP_MEM, MAX_SEGMENTS,
  MAX_STEPS,        \* instructions one interpreter frame may execute
  Executable        \* ensure_region_executable succeeds on the heap's pages

\* What a runner's segment copy and stack set-up come to; the memory they have
\* differs, and module Loader computes these verdicts from the headers.
Copies == {"fits", "outside", "panics"}
\* Where the entry point leads once it is relocated; the sum may overflow.
Entries == {"inside", "outside", "panics"}
Images == [parsed: BOOLEAN,                      \* parse_elf64 accepts the file
           e_type: {"ET_EXEC", "ET_DYN"},
           segments: Nat,                        \* PT_LOAD headers
           span: Nat,                            \* max_vaddr - min_vaddr, 0 if not positive
           copy: [native: Copies, interp: Copies],
           entry: Entries]

ASSUME ProcessAssumption ==
  /\ Programs \in [Names -> Images \cup {NotFound}]
  /\ Codes \subseteq Int /\ 0 \in Codes
  /\ HEAP_SIZE \in Nat /\ NATIVE_STACK \in Nat \ {0} /\ INTERP_STACK \in Nat \ {0}
  /\ MAX_NATIVE_MEM \in Nat /\ MAX_INTERP_MEM \in Nat /\ MAX_SEGMENTS \in Nat
  /\ MAX_STEPS \in Nat
  /\ Executable \in BOOLEAN

VARIABLES
  mode,           \* who has the CPU, see Modes
  frames,         \* the runners on the kernel's stack, innermost first
  result,         \* what the innermost runner returned, when mode is "unwind"
  LAST_EXIT, EXIT_WAITABLE,
  OUT_FN,         \* the native terminal writer is installed
  SYSCALL_READY,  \* LSTAR and EFER.SCE are set
  heap_free,      \* the bump allocator never takes memory back
  report,         \* what the last run command printed
  waited,         \* what the last wait4 of this run returned
  hist            \* auxiliary: what happened since the run command began
vars == <<mode, frames, result, LAST_EXIT, EXIT_WAITABLE, OUT_FN, SYSCALL_READY,
          heap_free, report, waited, hist>>
exit_state == <<LAST_EXIT, EXIT_WAITABLE>>
native_path == <<OUT_FN, SYSCALL_READY>>

Modes == {"shell", "cpu", "stdin", "unwind", "halted"}
Frames == [kind: {"native", "interp"}, budget: 0 .. MAX_STEPS]
Results == {"none", "Ok", "Err"}
Reports == [kind: {"none", "exited", "failed"}, code: Codes]
Waits == [ret: {"none", "pid", "ECHILD"},
          status: Int]        \* the status word stored, or NotStored
Hists == [via: {"none", "native", "interp"},
          before: Codes,      \* LAST_EXIT when the command began
          exited: BOOLEAN,    \* the program called exit ...
          code: Codes,        \* ... with this code
          execs: Nat,         \* execve calls that reached the loader
          reaps: Nat]         \* wait4 calls that returned a pid

\* The value of every variable is of its type.
TypeOK ==
  /\ mode \in Modes
  /\ frames \in Seq(Frames)
  /\ result \in Results
  /\ LAST_EXIT \in Codes /\ EXIT_WAITABLE \in BOOLEAN
  /\ OUT_FN \in BOOLEAN /\ SYSCALL_READY \in BOOLEAN
  /\ heap_free \in 0 .. HEAP_SIZE
  /\ report \in Reports
  /\ waited \in Waits
  /\ hist \in Hists

NoHist == [via |-> "none", before |-> 0, exited |-> FALSE, code |-> 0,
           execs |-> 0, reaps |-> 0]
NotStored == -1
NoWait == [ret |-> "none", status |-> NotStored]
Report(k, c) == [kind |-> k, code |-> c]

Init ==
  /\ mode = "shell" /\ frames = <<>> /\ result = "none"
  /\ LAST_EXIT = 0 /\ EXIT_WAITABLE = FALSE
  /\ OUT_FN = FALSE /\ SYSCALL_READY = FALSE
  /\ heap_free = HEAP_SIZE
  /\ report = Report("none", 0) /\ waited = NoWait /\ hist = NoHist
-----------------------------------------------------------------------------
(* The loaders, as functions of the image and of the heap that is left *)

\* vec![0u8; total_len] and what can still fail after it.
placed(img, copy, stack, rest) ==
  IF img.span + stack > heap_free \/ copy = "panics" THEN "Halt"
  ELSE IF copy = "fits" THEN rest ELSE "Err"

\* Mutant of heap_after: the remaining size is not looked at.
heap_after_unchecked(img, stack) == heap_free - (img.span + stack)

heap_after(img, stack) ==
  IF img.span + stack > heap_free THEN heap_free ELSE heap_free - (img.span + stack)

WellFormed(img) == img.parsed /\ img.segments > 0
Sized(img, max) == img.span \in 1 .. max /\ img.segments <= MAX_SEGMENTS

\* The entry point, and then the pages.
native_rest(img) ==
  IF img.entry = "panics" THEN "Halt"
  ELSE IF img.entry = "inside" /\ Executable THEN "Run" ELSE "Err"

\* run_native_elf_with_args up to the jump.
native_load(img) ==
  IF ~WellFormed(img) THEN "Err"
  ELSE IF img.e_type = "ET_EXEC" THEN "FixedVaddrUnsupported"
  ELSE IF ~Sized(img, MAX_NATIVE_MEM) THEN "Err"
  ELSE placed(img, img.copy.native, NATIVE_STACK, native_rest(img))

native_heap(img) ==
  IF WellFormed(img) /\ img.e_type = "ET_DYN" /\ Sized(img, MAX_NATIVE_MEM)
  THEN heap_after(img, NATIVE_STACK) ELSE heap_free

\* run_linux_elf_with_args up to its loop; argv may be too long for the stack.
interp_load(img, argv_fits) ==
  IF ~WellFormed(img) \/ ~Sized(img, MAX_INTERP_MEM) THEN "Err"
  ELSE placed(img, img.copy.interp, INTERP_STACK, IF argv_fits THEN "Run" ELSE "Err")

interp_heap(img) ==
  IF WellFormed(img) /\ Sized(img, MAX_INTERP_MEM)
  THEN heap_after(img, INTERP_STACK) ELSE heap_free

NativeFrame == [kind |-> "native", budget |-> 0]
InterpFrame == [kind |-> "interp", budget |-> MAX_STEPS]
-----------------------------------------------------------------------------
(* The run command *)

Began(v) == [via |-> v, before |-> LAST_EXIT, exited |-> FALSE, code |-> 0,
             execs |-> 0, reaps |-> 0]

\* run: the file is not there, or the native loader refuses it.
run_fails(name) ==
  /\ mode = "shell"
  /\ IF Programs[name] = NotFound
     THEN UNCHANGED <<SYSCALL_READY, heap_free>>
     ELSE /\ native_load(Programs[name]) = "Err"
          /\ SYSCALL_READY' = TRUE
          /\ heap_free' = native_heap(Programs[name])
  /\ report' = Report("failed", 0)
  /\ hist' = Began("none") /\ waited' = NoWait
  /\ UNCHANGED <<mode, frames, result, exit_state, OUT_FN>>

\* Mutant of run_native: the exit code of the run before is kept.
run_native_keeping(name) ==
  /\ mode = "shell" /\ Programs[name] # NotFound
  /\ native_load(Programs[name]) = "Run"
  /\ mode' = "cpu" /\ frames' = <<NativeFrame>>
  /\ SYSCALL_READY' = TRUE /\ OUT_FN' = TRUE
  /\ heap_free' = native_heap(Programs[name])
  /\ hist' = Began("native") /\ waited' = NoWait
  /\ UNCHANGED <<result, exit_state, report>>

\* run: the native loader marks exit code 0, installs the writer and jumps.
run_native(name) ==
  /\ mode = "shell" /\ Programs[name] # NotFound
  /\ native_load(Programs[name]) = "Run"
  /\ mode' = "cpu" /\ frames' = <<NativeFrame>>
  /\ LAST_EXIT' = 0 /\ EXIT_WAITABLE' = TRUE
  /\ SYSCALL_READY' = TRUE /\ OUT_FN' = TRUE
  /\ heap_free' = native_heap(Programs[name])
  /\ hist' = Began("native") /\ waited' = NoWait
  /\ UNCHANGED <<result, report>>

\* run: fixed addresses, so the interpreter gets the file instead.
run_interp(name) ==
  /\ mode = "shell" /\ Programs[name] # NotFound
  /\ native_load(Programs[name]) = "FixedVaddrUnsupported"
  /\ SYSCALL_READY' = TRUE
  /\ heap_free' = interp_heap(Programs[name])
  /\ hist' = Began("interp") /\ waited' = NoWait
  /\ LET verdict == interp_load(Programs[name], TRUE) IN
       \/ /\ verdict = "Run"
          /\ mode' = "cpu" /\ frames' = <<InterpFrame>> /\ UNCHANGED report
       \/ /\ verdict = "Err"
          /\ report' = Report("failed", 0) /\ UNCHANGED <<mode, frames>>
       \/ /\ verdict = "Halt"
          /\ mode' = "halted" /\ UNCHANGED <<frames, report>>
  /\ UNCHANGED <<result, exit_state, OUT_FN>>

\* run: the native loader runs out of heap, or panics while it copies or relocates.
run_halts(name) ==
  /\ mode = "shell" /\ Programs[name] # NotFound
  /\ native_load(Programs[name]) = "Halt"
  /\ mode' = "halted" /\ SYSCALL_READY' = TRUE
  /\ heap_free' = native_heap(Programs[name])
  /\ hist' = Began("none") /\ waited' = NoWait
  /\ UNCHANGED <<frames, result, exit_state, OUT_FN, report>>
-----------------------------------------------------------------------------
(* System calls common to both runners *)

Native == mode = "cpu" /\ frames # <<>> /\ Head(frames).kind = "native"

exit(c) ==
  /\ LAST_EXIT' = c /\ EXIT_WAITABLE' = TRUE
  /\ hist' = [hist EXCEPT !.exited = TRUE, !.code = c]

\* The status word of wait4: the low byte of the code, shifted.
Status(code) == (code % 256) * 256

\* Mutant of sys_wait4: loads the flag without clearing it.
sys_wait4_load(pid_ok, stores) ==
  IF pid_ok /\ EXIT_WAITABLE
  THEN /\ waited' = [ret |-> "pid",
                      status |-> IF stores THEN Status(LAST_EXIT) ELSE NotStored]
       /\ hist' = [hist EXCEPT !.reaps = @ + 1]
       /\ UNCHANGED exit_state
  ELSE /\ waited' = [ret |-> "ECHILD", status |-> NotStored]
       /\ UNCHANGED <<exit_state, hist>>

\* pid_ok: the pid argument is our own pid, or not positive.
sys_wait4(pid_ok, stores) ==
  IF pid_ok /\ EXIT_WAITABLE
  THEN /\ EXIT_WAITABLE' = FALSE
       /\ waited' = [ret |-> "pid",
                      status |-> IF stores THEN Status(LAST_EXIT) ELSE NotStored]
       /\ hist' = [hist EXCEPT !.reaps = @ + 1]
       /\ UNCHANGED LAST_EXIT
  ELSE /\ waited' = [ret |-> "ECHILD", status |-> NotStored]
       /\ UNCHANGED <<exit_state, hist>>
-----------------------------------------------------------------------------
(* A native program.  What it does between these steps changes nothing here *)

\* exit or exit_group: the entry stub marks the code and jumps back.
native_exit(c) ==
  /\ Native
  /\ exit(c)
  /\ mode' = "unwind" /\ result' = "Ok"
  /\ UNCHANGED <<frames, native_path, heap_free, report, waited>>

\* wait4 with a status pointer of its own, or NULL.
native_wait4(pid_ok, stores) ==
  /\ Native
  /\ sys_wait4(pid_ok, stores)
  /\ UNCHANGED <<mode, frames, result, native_path, heap_free, report>>

native_read_stdin ==
  /\ Native
  /\ mode' = "stdin"
  /\ UNCHANGED <<frames, result, exit_state, native_path, heap_free, report, waited, hist>>

\* Any fault, a return from its entry point included: the handlers halt.
native_fault ==
  /\ Native
  /\ mode' = "halted"
  /\ UNCHANGED <<frames, result, exit_state, native_path, heap_free, report, waited, hist>>

\* Mutant of native_return: the writer is left installed.
native_return_keeping ==
  /\ mode = "unwind" /\ frames # <<>> /\ Head(frames).kind = "native"
  /\ frames' = <<>> /\ mode' = "shell" /\ result' = "none"
  /\ report' = Report("exited", LAST_EXIT)
  /\ UNCHANGED <<exit_state, native_path, heap_free, waited, hist>>

\* leonos3_native_enter returns; the run command reports the exit code.
native_return ==
  /\ mode = "unwind" /\ frames # <<>> /\ Head(frames).kind = "native"
  /\ OUT_FN' = FALSE
  /\ frames' = <<>> /\ mode' = "shell" /\ result' = "none"
  /\ report' = Report("exited", LAST_EXIT)
  /\ UNCHANGED <<exit_state, SYSCALL_READY, heap_free, waited, hist>>
-----------------------------------------------------------------------------
(* An interpreted program: each instruction is one turn of the MAX_STEPS loop *)

Interp == mode = "cpu" /\ frames # <<>> /\ Head(frames).kind = "interp"
CanStep == Interp /\ Head(frames).budget > 0

\* The turn of the loop is used up and the frame stays.
Spent == <<[Head(frames) EXCEPT !.budget = @ - 1]>> \o Tail(frames)
Spend == frames' = Spent
\* The frame returns r to its caller.
Return(r) == frames' = Tail(frames) /\ mode' = "unwind" /\ result' = r

kept == <<native_path, heap_free, report>>

\* An instruction, or a system call that touches nothing modelled here.
interp_step ==
  /\ CanStep /\ Spend
  /\ UNCHANGED <<mode, result, exit_state, kept, waited, hist>>

\* RET or HLT: the interpreter takes either for the end of the program.
interp_ret ==
  /\ CanStep /\ Return("Ok")
  /\ UNCHANGED <<exit_state, kept, waited, hist>>

\* Unsupported instruction, or an address outside the image.
interp_error ==
  /\ CanStep /\ Return("Err")
  /\ UNCHANGED <<exit_state, kept, waited, hist>>

\* An addition that overflows: the kernel is built with overflow checks.
interp_panic ==
  /\ CanStep /\ mode' = "halted"
  /\ UNCHANGED <<frames, result, exit_state, kept, waited, hist>>

interp_read_stdin ==
  /\ CanStep /\ Spend /\ mode' = "stdin"
  /\ UNCHANGED <<result, exit_state, kept, waited, hist>>

interp_exit(c) ==
  /\ CanStep /\ exit(c) /\ Return("Ok")
  /\ UNCHANGED <<kept, waited>>

\* wait4(pid, NULL).
interp_wait4(pid_ok) ==
  /\ CanStep /\ Spend /\ sys_wait4(pid_ok, FALSE)
  /\ UNCHANGED <<mode, result, kept>>

\* wait4 with a status pointer: it is not translated, so when there is
\* something to reap the kernel writes to that address of its own space.
interp_wait4_status(pid_ok) ==
  /\ CanStep /\ Spend /\ sys_wait4(pid_ok, FALSE)
  /\ mode' \in IF pid_ok /\ EXIT_WAITABLE THEN {"halted", "cpu"} ELSE {"cpu"}
  /\ UNCHANGED <<result, kept>>

\* execve of a name that is not there, or of a bad pointer.
execve_not_found(name) ==
  /\ CanStep /\ Spend /\ Programs[name] = NotFound
  /\ UNCHANGED <<mode, result, exit_state, kept, waited, hist>>

\* Mutant of execve: the exit code of an earlier program is kept.
execve_keeping(name, argv_fits) ==
  /\ CanStep /\ Programs[name] # NotFound
  /\ heap_free' = interp_heap(Programs[name])
  /\ hist' = [hist EXCEPT !.execs = @ + 1]
  /\ LET verdict == interp_load(Programs[name], argv_fits) IN
       \/ verdict = "Run" /\ frames' = <<InterpFrame>> \o Spent /\ UNCHANGED mode
       \/ verdict = "Err" /\ frames' = Spent /\ UNCHANGED mode
       \/ verdict = "Halt" /\ frames' = Spent /\ mode' = "halted"
  /\ UNCHANGED <<result, exit_state, native_path, report, waited>>

\* execve: the exit code is reset before the new image is even parsed.
execve(name, argv_fits) ==
  /\ CanStep /\ Programs[name] # NotFound
  /\ LAST_EXIT' = 0 /\ EXIT_WAITABLE' = TRUE
  /\ heap_free' = interp_heap(Programs[name])
  /\ hist' = [hist EXCEPT !.execs = @ + 1]
  /\ LET verdict == interp_load(Programs[name], argv_fits) IN
       \/ verdict = "Run" /\ frames' = <<InterpFrame>> \o Spent /\ UNCHANGED mode
       \/ verdict = "Err" /\ frames' = Spent /\ UNCHANGED mode
       \/ verdict = "Halt" /\ frames' = Spent /\ mode' = "halted"
  /\ UNCHANGED <<result, native_path, report, waited>>

\* Mutant of step_limit: the loop starts over.
step_limit_restarts ==
  /\ Interp /\ Head(frames).budget = 0
  /\ frames' = <<InterpFrame>> \o Tail(frames)
  /\ UNCHANGED <<mode, result, exit_state, kept, waited, hist>>

\* The loop is over and the program is not.
step_limit ==
  /\ Interp /\ Head(frames).budget = 0
  /\ Return("Err")
  /\ UNCHANGED <<exit_state, kept, waited, hist>>
-----------------------------------------------------------------------------
(* Returning through the interpreters that called execve *)

\* Mutant of execve_returns_ok: the caller carries on after the new program.
execve_resumes ==
  /\ mode = "unwind" /\ frames # <<>> /\ Head(frames).kind = "interp"
  /\ result = "Ok"
  /\ mode' = "cpu" /\ result' = "none"
  /\ UNCHANGED <<frames, exit_state, kept, waited, hist>>

\* The new program ended: so does the one that called execve.
execve_returns_ok ==
  /\ mode = "unwind" /\ frames # <<>> /\ Head(frames).kind = "interp"
  /\ result = "Ok"
  /\ frames' = Tail(frames)
  /\ UNCHANGED <<mode, result, exit_state, kept, waited, hist>>

\* The new program failed: execve returns ENOEXEC and the caller goes on.
execve_returns_err ==
  /\ mode = "unwind" /\ frames # <<>> /\ Head(frames).kind = "interp"
  /\ result = "Err"
  /\ mode' = "cpu" /\ result' = "none"
  /\ UNCHANGED <<frames, exit_state, kept, waited, hist>>

\* The outermost interpreter returns to the run command.
run_returns ==
  /\ mode = "unwind" /\ frames = <<>>
  /\ report' = IF result = "Ok" THEN Report("exited", LAST_EXIT) ELSE Report("failed", 0)
  /\ mode' = "shell" /\ result' = "none"
  /\ UNCHANGED <<frames, exit_state, native_path, heap_free, waited, hist>>

\* A line arrived: read(0) returns to the program.
stdin_ready ==
  /\ mode = "stdin"
  /\ mode' = "cpu"
  /\ UNCHANGED <<frames, result, exit_state, kept, waited, hist>>

\* halt_forever, the panic handler and the allocation error handler.
spin_forever == mode = "halted" /\ UNCHANGED vars
-----------------------------------------------------------------------------
RunCommand ==
  \E name \in Names :
    run_fails(name) \/ run_native(name) \/ run_interp(name) \/ run_halts(name)

NativeStep ==
  \/ \E c \in Codes : native_exit(c)
  \/ \E pid_ok, stores \in BOOLEAN : native_wait4(pid_ok, stores)
  \/ native_read_stdin
  \/ native_fault

InterpStep ==
  \/ interp_step \/ interp_ret \/ interp_error \/ interp_panic
  \/ interp_read_stdin
  \/ \E c \in Codes : interp_exit(c)
  \/ \E pid_ok \in BOOLEAN : interp_wait4(pid_ok) \/ interp_wait4_status(pid_ok)
  \/ \E name \in Names : execve_not_found(name)
  \/ \E name \in Names, argv_fits \in BOOLEAN : execve(name, argv_fits)
  \/ step_limit

KernelReturn == native_return \/ execve_returns_ok \/ execve_returns_err \/ run_returns

Next ==
  \/ RunCommand \/ NativeStep \/ InterpStep \/ KernelReturn
  \/ stdin_ready \/ spin_forever

Spec == Init /\ [][Next]_vars

\* One core with interrupts off runs nothing else: the interpreter loop and
\* the kernel's return path make progress.  A native program may loop.
FairSpec == Spec /\ WF_vars(InterpStep \/ KernelReturn)
-----------------------------------------------------------------------------
(* Properties *)

NativeOnTop == frames # <<>> /\ Head(frames).kind = "native"

\* The terminal writer, a raw pointer into the run command's frame, is
\* installed exactly while a native program owns the CPU (halted in a fault
\* included); the program then runs alone and with the syscall MSRs set.
WriterOnlyForNative ==
  /\ OUT_FN <=> NativeOnTop
  /\ NativeOnTop => Len(frames) = 1 /\ SYSCALL_READY

\* The code `run` prints is the one given to exit, by the program or by what
\* it became through execve, if exit was called.  Otherwise it is 0 when some
\* execve got as far as its loader, and else the code of the run before.
ReportedCode ==
  mode = "shell" /\ report.kind = "exited" =>
    report.code = IF hist.exited THEN hist.code
                  ELSE IF hist.execs > 0 THEN 0 ELSE hist.before

\* A native program can reap nothing but the zero recorded for itself before
\* it started: wait4 never shows it another program's exit.
NativeReapsOnlyItself ==
  hist.via = "native" /\ waited.ret = "pid" => waited.status \in {0, NotStored}

\* wait4 reaps a recorded exit at most once: during a run it succeeds no more
\* often than once for what was pending or marked at the start and once for
\* every execve.
ReapedOnce ==
  mode \in {"cpu", "stdin"} =>
    hist.reaps + (IF EXIT_WAITABLE THEN 1 ELSE 0) <= 1 + hist.execs

\* After a program has ended, no instruction of it nor of a program that
\* called execve on the way to it is executed, and its exit state stands
\* until the shell has reported it.
EndedStaysEnded ==
  [][mode = "unwind" /\ result = "Ok" =>
       /\ mode' \in {"unwind", "shell"}
       /\ frames' = (IF frames = <<>> THEN <<>> ELSE Tail(frames))
       /\ UNCHANGED exit_state]_vars

\* An interpreted program that does not wait for the keyboard gives the CPU
\* back to the shell, unless the kernel halts: MAX_STEPS bounds each frame and
\* the heap, never reclaimed, bounds the nesting of execve.
InterpReturns ==
  (hist.via = "interp" /\ mode \in {"cpu", "unwind"}) ~> (mode \in {"shell", "stdin", "halted"})
-----------------------------------------------------------------------------
(* The inductive invariant behind the safety properties *)

\* A native frame is alone on the stack, and the mode fits the stack.
StackInv ==
  /\ \A i \in 1 .. Len(frames) : frames[i].kind = "native" => Len(frames) = 1
  /\ mode = "shell" => frames = <<>>
  /\ mode \in {"cpu", "stdin"} => frames # <<>>
  /\ mode = "unwind" => result \in {"Ok", "Err"}
  /\ frames # <<>> /\ mode # "halted" => (NativeOnTop <=> hist.via = "native")

\* LAST_EXIT while no exit has been called in this run.
Pending == IF hist.via = "native" \/ hist.execs > 0 THEN 0 ELSE hist.before

CodeInv ==
  /\ mode \in {"cpu", "stdin"} => ~hist.exited /\ LAST_EXIT = Pending
  /\ mode = "unwind" =>
       /\ LAST_EXIT = IF hist.exited THEN hist.code ELSE Pending
       /\ result = "Err" => ~hist.exited
       /\ hist.via = "native" => hist.exited /\ result = "Ok" /\ frames # <<>>

ReapInv ==
  mode \in {"cpu", "stdin"} \/ (mode = "unwind" /\ result = "Err") =>
    hist.reaps + (IF EXIT_WAITABLE THEN 1 ELSE 0) <= 1 + hist.execs

ProcessInv ==
  /\ TypeOK /\ StackInv /\ CodeInv /\ ReapInv
  /\ WriterOnlyForNative /\ ReportedCode /\ NativeReapsOnlyItself
-----------------------------------------------------------------------------
(* What the repository says and the code does not do *)

\* userspace/wait4_reap.c:1: the first status a program reaps is the exit
\* status of the program that ran before it.
WaitReapsLastExit ==
  waited.ret = "pid" /\ waited.status # NotStored /\ hist.reaps = 1 =>
    waited.status = Status(hist.before)
=============================================================================
