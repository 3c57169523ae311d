------------------------------- MODULE Kernel --------------------------------
(***************************************************************************)
(* The kernel as a whole: kernel_main of kernel/src/main.rs up to the      *)
(* shell, the shell commands that change kernel state, and the programs    *)
(* the run command starts, whose calls go to the descriptor layer          *)
(* (FdTable), to the memory calls (MemCalls) and to the exit state         *)
(* (Process).  All of it runs on one core with interrupts off: a step is   *)
(* one command, one call of dispatch, or one step of a program.            *)
(***************************************************************************)
EXTENDS FdTable, MemCalls

CONSTANTS
  BootInfos,                                   \* what the boot loader may hand over
  Elfs,                                        \* what the ramdisk's entries contain
  Names, NotFound, Codes, HEAP_SIZE, NATIVE_STACK, INTERP_STACK,   \* Process
  MAX_NATIVE_MEM, MAX_INTERP_MEM, MAX_SEGMENTS, MAX_STEPS,
  StdinCounts                                  \* bound: buffer sizes for the keyboard

VARIABLES
  boot_info,               \* BootInfo, as the boot loader filled it in
  stage,                   \* how far kernel_main has got
  RAMDISK_INFO,            \* a ramdisk was loaded
  PHYSICAL_MEMORY_OFFSET,  \* the page tables can be reached
  ran,                     \* auxiliary: a program was started since the last mount
  mode, frames, result, LAST_EXIT, EXIT_WAITABLE, OUT_FN, SYSCALL_READY,
  heap_free, report, waited, hist

boot == <<boot_info, stage, RAMDISK_INFO, PHYSICAL_MEMORY_OFFSET>>
proc_vars == <<mode, frames, result, LAST_EXIT, EXIT_WAITABLE, OUT_FN, SYSCALL_READY,
               heap_free, report, waited, hist>>
vars == <<boot, ran, fd_vars, proc_vars, mem_vars>>

\* What fs::open finds on the ramdisk under a name.
Ramdisk ==
  [n \in Names |-> IF hits(n) = {} THEN NotFound
                   ELSE Elfs[CHOOSE r \in 1 .. Len(Image) : open(n, r)]]

\* ensure_region_executable needs the offset to walk the page tables.
Proc == INSTANCE Process WITH Programs <- Ramdisk, Executable <- TRUE
ProcNoOffset == INSTANCE Process WITH Programs <- Ramdisk, Executable <- FALSE

BootInfoRecords ==
  [ramdisk: {"none", "bad header", "lfs1"}, offset: BOOLEAN, framebuffer: BOOLEAN]

ASSUME KernelAssumption ==
  /\ BootInfos \subseteq BootInfoRecords
  /\ StdinCounts \subseteq Counts \ {0}
  /\ 3 * PAGE \in Lengths /\ MAX_STEPS \in Nat

\* Each entry is a file the loaders can be given, and not every name is on the disk.
ASSUME ProgramsAssumption ==
  /\ Elfs \in [1 .. Len(Image) -> Proc!Images] /\ \E n \in Names : hits(n) = {}
  /\ Codes \subseteq Int /\ 0 \in Codes /\ HEAP_SIZE \in Nat
  /\ {NATIVE_STACK, INTERP_STACK} \subseteq Nat \ {0}
  /\ {MAX_NATIVE_MEM, MAX_INTERP_MEM, MAX_SEGMENTS} \subseteq Nat

\* The names are written out in build.rs, and none of them is "." or "..".
ASSUME FilesAssumption ==
  \A r \in 1 .. Len(Image) :
    Image[r].ok => Image[r].name \notin {"", ".", ".."} /\ Elfs[r] # NotFound

Init ==
  /\ boot_info \in BootInfos /\ stage = "entry"
  /\ RAMDISK_INFO = FALSE /\ PHYSICAL_MEMORY_OFFSET = FALSE /\ ran = FALSE
  /\ FdInit /\ Proc!Init /\ MemInit
-----------------------------------------------------------------------------
(* kernel_main *)

\* The keyboard reader, the heap and the traps are set up; what the boot loader
\* found is noted down.
init_kernel ==
  /\ stage = "entry" /\ stage' = "console"
  /\ PHYSICAL_MEMORY_OFFSET' = boot_info.offset
  /\ RAMDISK_INFO' = (boot_info.ramdisk # "none")
  /\ UNCHANGED <<boot_info, ran, fd_vars, proc_vars, mem_vars>>

\* Mutant of header_ok: the ramdisk is there, its header is not looked at.
header_unchecked == RAMDISK_INFO

\* ramdisk_bytes and fs::header.
header_ok == RAMDISK_INFO /\ boot_info.ramdisk = "lfs1"

\* With a framebuffer: the terminal, the mount, and the shell.
start_shell ==
  /\ stage = "console" /\ boot_info.framebuffer
  /\ IF header_ok THEN set_rootfs ELSE UNCHANGED fd_vars
  /\ stage' = "shell"
  /\ UNCHANGED <<boot_info, RAMDISK_INFO, PHYSICAL_MEMORY_OFFSET, ran, proc_vars, mem_vars>>

\* Without one: a message in the VGA memory, then hlt for ever.
vga_fallback ==
  /\ stage = "console" /\ ~boot_info.framebuffer
  /\ stage' = "hlt"
  /\ UNCHANGED <<boot_info, RAMDISK_INFO, PHYSICAL_MEMORY_OFFSET, ran, fd_vars, proc_vars, mem_vars>>

hlt_loop == stage = "hlt" /\ UNCHANGED vars
-----------------------------------------------------------------------------
(* Commands of the shell *)

Prompt == stage = "shell" /\ mode = "shell"

\* "ramdisk": mounts again, which closes every descriptor.
ramdisk_command ==
  /\ Prompt
  /\ IF header_ok THEN set_rootfs /\ ran' = FALSE ELSE UNCHANGED <<fd_vars, ran>>
  /\ UNCHANGED <<boot, proc_vars, mem_vars>>

\* "syscall": getpid, brk(0), mmap of three pages, and openat with directory -1.
syscall_command ==
  /\ Prompt
  /\ mmap(3 * PAGE)
  /\ sys_openat(-1, BADSTR, FALSE)
  /\ UNCHANGED <<boot, ran, proc_vars>>

\* "run": fs::open refuses the header.  Without a ramdisk it says nothing.
run_refused ==
  /\ report' = Proc!Report("failed", 0) /\ hist' = Proc!Began("none") /\ waited' = Proc!NoWait
  /\ UNCHANGED <<mode, frames, result, LAST_EXIT, EXIT_WAITABLE, OUT_FN, SYSCALL_READY, heap_free>>

run_command ==
  /\ Prompt
  /\ IF header_ok
     THEN IF PHYSICAL_MEMORY_OFFSET THEN Proc!RunCommand ELSE ProcNoOffset!RunCommand
     ELSE IF RAMDISK_INFO THEN run_refused ELSE UNCHANGED proc_vars
  /\ ran' = (ran \/ frames' # <<>>)
  /\ UNCHANGED <<boot, fd_vars, mem_vars>>
-----------------------------------------------------------------------------
(* Programs *)

\* A program makes a call that leaves the state of Process alone; to the
\* interpreter it is one more turn of the loop.
Turn == (Proc!Native /\ UNCHANGED proc_vars) \/ Proc!interp_step

FdCall ==
  \/ FdSyscall
  \/ \E fd \in Fds, buf \in BOOLEAN, n \in Counts :
       ~(fd = 0 /\ buf /\ n > 0) /\ sys_read(fd, buf, n)

\* A descriptor call.
fd_call == Turn /\ FdCall /\ UNCHANGED <<boot, ran, mem_vars>>

\* mmap, the memory call that can fail: a length that overflows takes the kernel
\* down.  The other calls of MemCalls change nothing any other part reads.
mmap_call ==
  /\ \E len \in Lengths : mmap(len)
  /\ IF panicked' THEN Proc!native_fault \/ Proc!interp_panic ELSE Turn
  /\ UNCHANGED <<boot, ran, fd_vars>>

\* Mutant of program_step: execve closes the descriptors.
program_step_closing ==
  /\ Proc!NativeStep \/ Proc!InterpStep \/ Proc!KernelReturn
  /\ hist'.execs # hist.execs => ROOTFS
  /\ FD_TABLE' = IF hist'.execs > hist.execs THEN [i \in Slots |-> Free] ELSE FD_TABLE
  /\ UNCHANGED <<boot, ran, ROOTFS, CWD, call, scan, mem_vars>>

\* Everything else a program does, and the way back to the shell.  execve looks
\* for its file in ROOTFS.
program_step ==
  /\ Proc!NativeStep \/ Proc!InterpStep \/ Proc!KernelReturn
  /\ hist'.execs # hist.execs => ROOTFS
  /\ UNCHANGED <<boot, ran, fd_vars, mem_vars>>

\* The keyboard has delivered what read(0) was waiting for.
stdin_ready ==
  /\ Proc!stdin_ready
  /\ \E n \in StdinCounts : sys_read(0, TRUE, n)
  /\ UNCHANGED <<boot, ran, mem_vars>>

spin_forever == Proc!spin_forever /\ UNCHANGED vars
-----------------------------------------------------------------------------
Boot == init_kernel \/ start_shell \/ vga_fallback
Command == ramdisk_command \/ syscall_command \/ run_command
Program == fd_call \/ mmap_call \/ program_step

Next == Boot \/ hlt_loop \/ Command \/ Program \/ stdin_ready \/ spin_forever

Spec == Init /\ [][Next]_vars
-----------------------------------------------------------------------------
(* Properties *)

\* The run command reads the ramdisk through RAMDISK_INFO, execve and the file
\* calls through ROOTFS, which boot sets only behind a check of the header: the
\* two views agree.  With a valid image both see the same files, so that a
\* program can open the file it was started from; otherwise nothing ever runs
\* and nothing can be opened but the root.
OneDisk ==
  stage = "shell" =>
    /\ frames # <<>> => ROOTFS
    /\ \A n \in Names : (boot_info.ramdisk = "lfs1" /\ Ramdisk[n] # NotFound)
                           <=> OpensFile(Text("", <<n>>))

\* No descriptor is left over in front of the first program after boot or after
\* the ramdisk command, whatever earlier programs had open.
CleanAfterMount == ~ran => \A i \in Slots : FD_TABLE[i] = Free

\* The descriptor table changes only while a program has the CPU, or when the
\* ramdisk is mounted with no program on the kernel's stack: starting, ending or
\* replacing a program closes nothing and opens nothing, and no shell command
\* leaves a descriptor behind.
TableChangesOnlyByPrograms ==
  [][FD_TABLE' # FD_TABLE =>
       \/ mode = "cpu" /\ mode' = "cpu" /\ Len(frames') = Len(frames)
       \/ call'.nr = "set_rootfs" /\ frames = <<>> /\ frames' = <<>>]_vars
-----------------------------------------------------------------------------
(* The inductive invariant *)

\* Behind init_kernel what the boot loader found is known, ROOTFS follows its ramdisk
\* from the moment the shell starts, a program on the kernel's stack has a mounted
\* image below it, and the shell has its prompt only when no program is left.
KernelInv ==
  /\ stage \in {"entry", "console", "shell", "hlt"}
  /\ stage # "entry" => /\ RAMDISK_INFO <=> boot_info.ramdisk # "none"
                        /\ PHYSICAL_MEMORY_OFFSET = boot_info.offset
  /\ ROOTFS <=> (stage = "shell" /\ boot_info.ramdisk = "lfs1")
  /\ frames \in Seq(Proc!Frames)
  /\ frames # <<>> => ROOTFS /\ ran
  /\ mode = "shell" => frames = <<>>
  /\ CleanAfterMount
=============================================================================
