# LeonOS 3 in TLA+

LeonOS 3 is a small x86-64 kernel in Rust: one core, interrupts off, one
program at a time. It boots into a line shell, mounts a read-only ramdisk,
and runs Linux ELF programs from it, natively or in an interpreter, on a subset
of the Linux system calls. This directory holds TLA+ models of the parts of it
that keep state or compute something, TLC runs that check them on small
instances, and TLAPS proofs of safety properties for all instances.

## 1. The system

| Component | Source (`kernel/src`) | State | Operations |
|---|---|---|---|
| Descriptor calls | `syscall.rs` | `FD_TABLE`, `ROOTFS`, `CWD_BUF` | openat, read, write, close, lseek, stat, fstat, newfstatat, getdents64, getcwd, chdir, access, readlink, dup, dup2; `set_rootfs` |
| Memory and other calls | `syscall.rs`, `posix.rs` | `MMAP_BASE`, `brk`, `ARCH_FS`, `ARCH_GS` | mmap, brk, arch_prctl, uname, the clocks, getrandom, constants |
| LFS1 reader, image builder | `fs.rs`, `build.rs` | the image | header, entry, list, open; `build_lfs1` |
| Heap | `allocator.rs` | four atomics | `init_heap`, `alloc`; `dealloc` is empty |
| ELF parser, loaders | `elf.rs`, `native_runner.rs`, `elf_runner.rs` | program memory, page flags | parse, scan, copy, initial stack, entry, make executable |
| Program lifecycle | `native_runner.rs`, `elf_runner.rs`, `main.rs`, `syscall.rs` | runner stack, `LAST_EXIT`, `EXIT_WAITABLE`, `OUT_FN`, `SYSCALL_READY` | `run`, load, enter, exit, wait4, execve, fault, step limit, return |
| Native stubs | `native_runner.rs` (assembly) | registers, two stacks, the saved way back | enter, system call, exit |
| Interpreter | `elf_runner.rs` | registers, flags, program memory | its instruction forms, six system calls of its own and a catch-all |
| Shell and keyboard | `shell.rs`, `main.rs`, `posix.rs` | line buffer, `SHIFT_DOWN`, the controller's buffer | scan codes, line editing, command dispatch, blocking read |
| Exceptions, panics | `traps.rs`, `main.rs` | none | print and halt |
| Boot, terminal, log | `main.rs`, `logger.rs` | `RAMDISK_INFO`, `PHYSICAL_MEMORY_OFFSET`, framebuffer | set-up, mount, start of the shell |
| Launcher | `src/main.rs` | none (host) | start QEMU |

How they meet: the shell polls the keyboard and calls the command handler,
which opens the ramdisk and calls the native runner; that refuses fixed-address
images and the handler then calls the interpreter. Programs come back through
`syscall::dispatch`, which shares `LAST_EXIT` with the handler and the keyboard
with the shell. Every image is carved out of the heap that never takes memory
back. Panics, faults and an exhausted heap all end in an endless loop.

What is hard here is not parallelism (there is one core, and interrupts stay
off) but long sequences of legal calls over global state that outlives
programs, and arithmetic on numbers that come from files and programs:
descriptors moved by lseek and copied by dup, an exit state that several
programs, execve and wait4 write and read, a nested interpreter per execve, a
keyboard shared by shell and program, tables and buffers at their limit,
offsets and addresses that wrap around or straddle the end of memory.
`PROJECT.json` lists these hazards by line, with the properties that cover them
and the reason where none does.

## 2. The modules

| Module | What it is |
|---|---|
| `RootFs` | the image as `fs.rs` decodes it: a sequence of entries, each decodable or not |
| `Lfs1` | the image byte by byte: `build.rs` as the writer, `fs.rs` as the reader |
| `Errno` | the error numbers of the system calls |
| `FdTable` | the descriptor layer; one action per system call |
| `MemCalls` | the calls that hand out or keep addresses, and those that only answer |
| `Heap` | what the kernel expects of an allocator (abstract) |
| `BumpAllocator` | `allocator.rs`, one action per atomic access |
| `Loader` | `parse_elf64` and both loaders up to the jump, on bytes |
| `Process` | a `run` command from file to reported code |
| `NativeContext` | the assembly stubs, instruction by instruction |
| `X86Forms` | scaled numbers, registers and the instruction forms the interpreter decodes |
| `X86` | what a processor does for each form (abstract), with the listed differences |
| `Interp` | `exec_one` and `handle_syscall` |
| `Shell` | keyboard, line editor, commands, a program's reads |
| `Kernel` | boot, and `FdTable`, `MemCalls` and `Process` composed |
| `Lfs1Proofs`, `BumpAllocatorProofs`, `LoaderProofs`, `ProcessProofs`, `NativeContextProofs`, `InterpProofs`, `ShellProofs`, `KernelProofs` | the theorems about each; those about `FdTable` and `MemCalls` are in `KernelProofs` |
| `MC*` | the constants of the TLC runs |

Three of the pairs are refinements that TLC checks and that are proved: `BumpAllocator` implements
`Heap`, `Interp` implements `X86`, and on every image and damaged image `Lfs1`
gives the table `RootFs` and so `FdTable` start from. Three more are proved only:
`Kernel` implements `FdTable`, `MemCalls` and `Process`. `Loader` computes the verdicts that
`Process` takes as constants (`OutcomeIsAbstract`).

Definitions keep the names of the code. Auxiliary variables, which the code does
not have, are marked in the declarations: `call` and `scan` in `FdTable`,
`grants` in `BumpAllocator`, `hist` and `waited` in `Process`, `strayed` and
`misread` in `Shell`, `regions` in `MemCalls`, `starts`, `cut` and `hit` in `Lfs1`, `ins` and `tty` in `Interp`, `ran` in `Kernel`. Operators
introduced as "Mutant of" are not part of any specification: they are plausible
mistakes, and each property is shown to fail when one replaces the definition it
is a mutant of.

**FdTable.** A call is atomic: nothing else runs while the kernel is in
`dispatch`. The state is the table, whether a root is mounted, and the working
directory; an action covers all argument checks in their order. A path is a
record of its leading text, its components and surrounding blanks, which is what
`normalize_path` and the literal comparisons with `""`, `"."`, `"/"`, `".."` tell
apart; execve's `normalize_exec_path` is a fourth walker over the same records.
Names in an image carry no slash or blanks: they are literals in `build.rs`. A file entry holds the index of its record instead of pointer and
length. A read of descriptor 0 returns some count; how it gets there is `Shell`.
`isize` saturates at the constant `ISIZE_MAX`. Addresses are NULL, unreadable,
or good.

**MemCalls.** `mmap` maps nothing: it rounds the length up and moves `MMAP_BASE`.
The addition before the rounding is checked in a debug build and panics, the
atomic `fetch_add` wraps. The address space is `U64` bytes in pages of `PAGE`.
What uname, the clocks and getrandom write is left out, what they answer is not.

**Lfs1.** Bytes have `BYTE` values, field widths are the code's. `from_utf8` takes
a byte below half of `BYTE` as a character and any other as invalid; the length of
names, which `build.rs` asserts, is an assumption. An image is written from every
set of files that may exist, then cut at any length or has one byte replaced. `build.rs`
writes counts and offsets with `as u16` and `as u32`, which drop what does not fit: what is
read back is said of images that fit (`Fits`), fewer than 2^16 files and less than 2^32 bytes.

**BumpAllocator.** Contexts interleave at every atomic access. In this kernel
allocations do not in fact overlap, because interrupts are off and faults
halt; the model checks what the compare-exchange loop is written for and so
covers the code under any later use. A null result leads to `alloc_error`,
which spins ("oom"). `align_up` is written with `%`, equal to the mask for the
powers of two that `Layout` allows. Sums in `align_up` cannot overflow by the
assumption that the heap does not end within one alignment of the address space.

**Loader.** A file is its headers and a length; a byte of it is its offset, so a
copy to the wrong place shows. The parser reads one program header per step, the
copy loop one segment, the stack one string, the page loop one page. Additions are modelled as the code writes them:
saturating, checked, or plain, where a plain one that overflows panics: the end of the
interpreter's memory, and the entry point of a native program when it is relocated, before it
is looked for inside the memory. The last step of a native program is `native_enter`, whose
`call` pushes the return address below the stack that was built. A cell of the memory says which
byte of the file, of a string, of a word or of that return address it holds. The page
tables are a function from pages to present, huge or absent.

**Process.** An image is what the loaders look at: whether it parses, its type,
number of segments and span, what copying its segments does in either runner
(fits, is refused, panics), and whether the relocated entry is inside, outside, or panics
because the sum overflows. Programs are
nondeterministic. `frames` is the
stack of runners, since execve is a nested call of the interpreter. Steps of a
native program that change none of this state are stutters; interpreted ones
spend the budget of the frame. RET ends an interpreted program, as in the code;
a native program that returns from its entry jumps to `argc` and faults. A status
pointer given to wait4 by an interpreted program is not translated, so the write either
faults or lands somewhere in the kernel's space: the choice is left open.
`heap_free` counts program images only; small allocations are left out.

**NativeContext.** Each group of moves, each push, pop, call and jump of the
stubs is an action on named registers and on a stack of `Words` words. The program may set
any register and move its stack pointer between calls; the Rust dispatcher keeps
the callee-saved registers and may change all others. The stub works on the
program's own stack, so words below the stack pointer (a red zone) are lost; the
properties speak of the words at and above it.

**X86Forms, X86, Interp.** The decoder is modelled by the forms it knows, in the order of
its arms: a form is a record of the operation and its operands, with the length
the instruction has in memory. `Interp` is the code: signed and unsigned
additions that panic or wrap as written, accesses checked against the memory, flags set
where the code sets them, the system calls with their translated and untranslated
pointers. `X86` says what the processor would do, and lists as differences what
the interpreter does otherwise: RET and HLT end the program, `48 C7` does not extend
the sign, some destination registers are ignored, a call through a pointer that
leads outside goes to `rdi`, the last instruction may be completed with zeros, an
unknown instruction ends the program. The flags after an arithmetic instruction
are left open. `X86` panics only where a sum of addresses, rip or the rounding of an mmap length
overflows, or where a call that uses an argument as an address of the kernel gets one that is
not null; there "panic" also stands for whatever an access to the kernel's own data leads to.
The calls that are handed on answer any number that `dispatch` has for them: 0, 1, the pid, an
argument, a count or an error; mmap answers any page, brk any earlier value. Which bytes
`from_utf8` accepts is the constant `utf8`. System call numbers above the largest scaled byte are one more number that
is not known. Powers and the numbers that bytes spell are recursive functions (`Pow`,
`le_number`). The bitwise `|` and `&` are constants, of which only that they give words is
assumed: both modules apply the same one to the same operands. The run takes them from
`Bitwise`.

**Shell.** The port is a bounded queue of scan codes, so the user can type ahead
of whoever polls. All keys with two characters are alike, so one letter key
stands for them. The table of commands is the constant `Meaning`. The answer to
an unmatched text is the one of the misplaced `else` in `handle_custom_command`.

**Kernel.** `kernel_main` up to the shell, for every combination of ramdisk (none,
bad header, valid), physical memory offset and framebuffer, and then `FdTable` and
`MemCalls`, which it extends, with `Process` instantiated on the same state. A system call of a native
program leaves the variables of `Process` alone, one of an interpreted program is
also a turn of its loop; an overflow in mmap is a fault of whoever called. Both
lookups of a name are there: `run` reads through `RAMDISK_INFO`, execve and the
file calls through `ROOTFS`. Of `MemCalls` a program calls mmap only, since no
other part reads what the rest changes.

## 3. The runs

| Run | States | Shows |
|---|---|---|
| `descriptors` | 55 thousand | two usable slots, an image with an undecodable entry: `StdSlotsFree`, `ReadInsideFile`, `ChangedOnlyByOwnCalls`, `PathVerdictsNest`, `ScanListsOpenable` |
| `mem_calls` | 21 thousand | three mmap calls from less than a page to the whole space: `RegionsDisjoint`, `AddressesAreNotErrors` |
| `lfs1` | 232 thousand | three catalog files, every cut, every byte replaced: `RoundTrip`, `CutIsAllOrNothing`, `DamageIsContained`, `ImplementsRootFs` |
| `allocator` | 232 thousand | two contexts, ten bytes, three layouts: `ImplementsHeap`, `AllocTerminates` |
| `loader` | 586 thousand | files of one and two segments with odd headers, argument lists of every size: `HeadersInsideFile`, `ImageIntact`, `StackReadsBack`, `OutcomeIsAbstract`, `RegionExecutable` |
| `process` | 124 thousand | nine files, one per verdict of the loaders: `WriterOnlyForNative`, `ReportedCode`, `NativeReapsOnlyItself`, `ReapedOnce`, `EndedStaysEnded`, `InterpReturns` |
| `native_context` | 95 thousand | calls at any stack depth: `DispatchGetsArguments`, `SyscallRestores`, `BackOnlyByExit` |
| `interpreter` | 1.9 million | every pair of instructions from registers at the edges: `ImplementsX86`, `ConsoleMatchesMemory` |
| `shell` | 305 thousand | one letter key, two shift keys, lines of two, two codes in flight: `ScreenShowsLine`, `ShiftKept`, `ReadStopsAtEnter`, `EnterAnswered` |
| `kernel` | 379 thousand | every outcome of the boot loader, commands, one program for each runner: `OneDisk`, `CleanAfterMount`, `TableChangesOnlyByPrograms` |
| `wait_reap`, `clobber_list` | | the code does otherwise than a test program says or declares, see section 5 |

Type invariants are checked in `descriptors` (`FdTypeOK`), `allocator`, `process` and `shell`
(`TypeOK`), whose proofs build on them; `NoGrantBeforeInit` of the allocator is proved and
not among the run's properties.

Bounds. `descriptors` has two usable slots: enough for a table that is full, for a
duplicate beside its original, and for a hole below a used slot. Its offsets
(-1 and 2) and `ISIZE_MAX` = 4 make seeks that are refused, that pass the end of
the two-byte file, and that saturate; buffers of 1 and 48 bytes hold no record and
two records of a listing. `PathVerdictsNest` goes through every spelling of up to two
components; that listings are complete for other images, sound ones included, is
proved. `mem_calls` has 16 pages
of four bytes, the first mmap address in the middle: requests fill a page, need
rounding, wrap the counter and overflow the rounding. In `process` the heap (8)
holds four interpreted images, or two native and one interpreted, so both
exhaustion and three nested execve calls occur; three instructions per frame let
a program do something before and after an execve. In `allocator` the heap starts
unaligned, so blocks with and without padding occur before it is full. In
`shell` a line of two characters can be full, trimmed and erased; with two codes
in flight a letter is read after its shift key has been released. `loader` has
words of two bytes, an alignment of four and addresses up to 63, with segments
that overlap, are empty, end at the top of the address space, or have more in the file than in
memory. `lfs1` has bytes of 16 values, so offsets of an image of four entries
still take several digits. `native_context` gives the program a stack of thirteen
words, two more than the stub needs. `interpreter` has bytes of four values, u32
of two and u64 of four bytes, memory of 18 bytes at address 0, as a position-independent file has it, across the
signed edge and at the top of the address space, an mmap length on each side of the overflow, and runs two instructions: enough for one to
set flags, a pointer or memory that the next one uses; the step relation is checked, so
longer programs add register contents only. `kernel` has one usable descriptor,
heap for two images and two turns of the interpreter, so that a descriptor
outlives its program, an execve follows a call, and the table is full; counts of 1
and 24 read a part of a file and one record of a listing.

Deadlock is checked except in `allocator`, `shell`, `native_context`, `lfs1` and
`interpreter`, where the code or the experiment really stops: all contexts out of
memory, the machine halted while the keyboard buffer is full, the program gone,
the image damaged, the last instruction executed.

Fairness. Weak fairness is assumed only of the kernel itself: the steps of a call
in the allocator, the interpreter loop and the return path, the polling loops of the
shell and of a blocked read. One core with interrupts off executes nothing else, so
an enabled step of the running loop is taken. Nothing is assumed of the user or of
a native program. In `AllocTerminates` the retry loop ends because a failed
exchange means that another call used up part of a finite heap.

## 4. The proofs

| Module | Theorems | Inductive invariant |
|---|---|---|
| `Lfs1Proofs` | `ImageRoundTrip`, `CutImagesAreSafe`, `DamageStaysLocal`, `ReadersImplementRootFs` | `Lfs1Inv`: types, `Written` |
| `BumpAllocatorProofs` | `TypeCorrect`, `NoEarlyGrant`, `BumpRefinesHeap` | `BumpInv` |
| `LoaderProofs` | `ParserReadsInside`, `ImageIsIntact`, `StackIsReadBack`, `RegionIsExecutable`, `OutcomeMatchesProcess` | `LoaderInv`, on top of it `ImageInv`, and on both `VerdictInv` |
| `ProcessProofs` | `TypeCorrect`, `WriterIsNative`, `ReportIsKnown`, `NativeReapsZero`, `NoDoubleReap`, `EndIsFinal` | `ProcessInv` |
| `NativeContextProofs` | `DispatchArguments`, `SyscallKeepsContext`, `ReturnsOnlyByExit` | `NativeInv` |
| `InterpProofs` | `ConsoleShowsMemory`, `InterpreterImplementsX86` | `InterpInv`: types, `ConsoleMatchesMemory` |
| `ShellProofs` | `ShellTypes`, `ShellShowsLine`, `ShellKeepsShift`, `ShellReadStops` | `ShellInv`: types, `ReadInv`, `ShiftInv` |
| `KernelProofs` | `KernelTableClean`, `KernelOneDisk`, `KernelTableOwners`, `KernelImplementsFdTable`, `KernelImplementsMemCalls`, `KernelImplementsProcess`, `KernelReportsKnownCode`, `KernelEndIsFinal` | `KernelInv` |
| `KernelProofs`, of `FdTable` | `FdTypeCorrect`, `StdSlotsStayFree`, `ReadsStayInside`, `DescriptorsKeepTheirOwn`, `ListingComplete`, `WalkersNest`, and of the kernel `KernelDescriptorsSafe`, `KernelDescriptorsKeepTheirOwn` | `FdInv`: types, free standard slots, and `ListedPrefix` |
| `KernelProofs`, of `MemCalls` | `MmapRegionsDisjoint`, `MmapNeverLooksFailed`, and of the kernel `KernelMemorySafe` | `MemInv`: types, `PageAligned`, `BelowBase` |

All hold for every value of the constants that meets the named assumptions
(`ImageAssumption`, `FdAssumption`, `Lfs1Assumption`, `MemAssumption`, `HeapAssumption`,
`LoaderAssumption`, `ProcessAssumption`, `WordsAssumption`, `FormsAssumption`,
`InterpAssumption`, `ShellAssumption`,
`KernelAssumption`, `FilesAssumption`, `ProgramsAssumption`), which TLC evaluates on the instances. That every
invariant is inductive was first tried with TLC, as an invariant of the run. The
assumption to know of is `FilesAssumption`: no file of the image is called "", "."
or "..". The names are literals in `build.rs`, and none of them is; with one,
`run` and `openat` would not find the same file and `OneDisk` would be false.

*FdTable* (in `KernelProofs`). `ScanListsOpenable` speaks of the moment getdents64 returns 0. What
makes it inductive is `ListedPrefix`: a directory descriptor that lseek never moved has
listed exactly the entries below its position, and all of them decode. From a
return of 0 it follows that the position is the end or the first undecodable
entry, which is where `fs::open` stops searching as well. Reads and the
ownership of slots follow from the types and from which slot each call replaces.
`WalkersNest` is about the state only through the mounted image: it compares the four
walkers case by case, for every image.

*Lfs1.* `Written` says that every field of the header, of the entries and every byte of data
is where it was put: `Holds` is that for one run of bytes, with the damaged position and
what lies behind the end left out. `starts`, the place where the data of each file really
went, makes it more than a restatement of the cursor: the entry must hold that
number. The data lie behind the table and in order, so a later entry or file writes over
none of it, and one damaged byte is in at most one of these places. From it the
four properties follow for any catalog, cut and byte. A field that holds `le16` or `le32` of
a number that fits decodes to that number; the entry of a file whose bytes are there decodes to the
file; and `fs::open`, which stops at the first entry that does not decode or has the name,
stops at the first file of that name, since those before it decode to other names. A cut
takes away a part of the table (then the header is refused) or the end of the data, and
then the entry is refused, because its end is compared with the length of the image.
`ReadersImplementRootFs` uses nothing of the invariant but that the image is made of bytes.

*MemCalls* (in `KernelProofs`). Disjointness of the regions is not inductive: it needs that those handed out
since `MMAP_BASE` last wrapped lie below it, which each mmap reestablishes for its own
region. That no address looks like an error needs the alignment of `MMAP_BASE`, kept also
by the wrapping addition because a page divides the address space.

*BumpAllocator.* A refinement needs that every block handed out before ends at or
below `next`, that a context's `current` is never above `next`, and that whoever
passed the `initialized` check reads the real bounds; `BumpInv` adds to
these what each single store of `init` has established.

*Loader.* `LoaderInv` follows the stages. The header table ends inside the file, so each
header read does. The memory is the image and the stack above it. `Pushed` says that the
strings pushed so far lie at or above the stack pointer and read back; a later push, or
the words, write only below it, so they stay. After the words, each is where the program
will look: at the stack pointer, or above the return address, which `native_enter` writes
below them. The page loop has made the pages behind its counter executable, and the last
page it computes is the page of the last byte. `ImageInv` adds the contents: of a
well-formed file the segments copied so far are in place, the rest of the image is zero,
and no byte of the file lies above the image. The stack can only spoil this from above, so the image is
whole as long as the stack pointer ends above it; `StackRoom` bounds how far down it can have
come, by the sum of the strings' lengths, and so lists that fit keep it there. That sum is
a recursive function. What it satisfies is proved by looking at the least index where it
would not (`LeastOf`), which takes the place of an induction rule. `VerdictInv` says of each
stage which outcomes of `Process` are no longer possible: a file in memory has passed every
test on its sizes, no segment before the loop counter stops the copy (so the first one that
does decides), and behind `start_stack` the segments fit. What can still fail then are the
lists, only when `StackNeed` exceeds the stack (`StackRoom` again), the entry point, and the
pages. So `Process`, and with it `Kernel`, stands on what the loaders do for every file.

*Process.* The reported code is correct only if `LAST_EXIT` is known at every
moment of the run: `CodeInv` says what it is while the program runs and while the
runners return, and that after an `Err` no exit was called. `StackInv` says that a native
frame is alone, so that the return path cannot mix the two kinds. `ReapInv`
carries the count of reaped exits through a failing execve.

*NativeContext.* A symbolic execution: for each instruction `NativeInv` says where the values
the program had at SYSCALL are now, in which register or at which depth of its stack, and
that the words at and above its stack pointer are as they were. The way back of exit is kept
from the first instruction on. The assumption is a stack of at least twelve words.

*Interp.* `FormsAssumption` scales the machine: a byte has an even number of values, up to 256,
u64 has twice the bytes of u32. `InterpAssumption` ends the memory below the top of the address space: it begins at the lowest
address of the file, 0 for a position-independent one, and its end is computed by a plain
addition (`elf_runner.rs:115`), which panics before any instruction is executed. So the last
address is never inside, and a string or a vector that reaches it ends there instead of going
on at address 0. The refinement needs the types, since an addition wraps, or a
number is read as signed, as on a processor only if the operands are words, and it is shown
once per arm of `exec_one`: when the arm runs, the step is the processor's; when it returns an
error, the address or the target is one the processor of `X86` is not allowed; when it
panics, `X86` names the sum or the pointer; a fetch that is filled up with zeros is the listed difference. An arm
makes its checks in order and the first that fails decides (`Verdict`), so the lemmas first say
this of one check and of two lists joined, and then of the loads, stores and pushes built from
them. That bytes loaded are a word of their width is a fact about `le_number`, which, like `Pow`, is
characterised by the least place where it would not hold (`LeastOf`). Of the system calls, what `read` stores stays in the buffer because it
is cut to `cap`; a string or vector that execve can walk to its end is readable, so the walk
does not stop it, and the address of a vector's next word never overflows. `ConsoleMatchesMemory`
follows from the same facts about `put`.

*Shell.* A letter is read some time after it was typed. `ShiftInv` says of every code in
flight what `SHIFT_DOWN` will be when its turn comes: the last shift code before it says so,
or there is none and it is so already.

*Kernel.* A step of the kernel is a step of one component or a combination of two, as with the
system call of an interpreted program. The refinements show that, whoever makes it, what it
does to the descriptor table, the root and the working directory is a step of `FdTable`, and what it
does to the addresses is a step of `MemCalls`; so the theorems about these hold of the whole
kernel (`KernelDescriptorsSafe`, `KernelDescriptorsKeepTheirOwn`, `KernelMemorySafe`). `KernelInv` ties `ROOTFS` to the boot loader's ramdisk and a running program to a
mounted image. What it does to frames, exit state and heap is a step of `Process`. There are
two instances of `Process`, since without the offset of the physical memory no region can be
made executable; the offset is fixed at boot, so a behaviour of the kernel implements one of
them throughout. A `run` on a ramdisk with a bad header is one more name that is not found,
which needs that some name is not on the disk (`ProgramsAssumption`: the user may type
any). The theorems of `ProcessProofs` are then instantiated, after its assumption has
been proved from the kernel's, and hold of the kernel.

Only model-checked: the liveness properties (`AllocTerminates`, `InterpReturns`,
`EnterAnswered`), since the prover handles neither fairness nor ENABLED. Every other
property of a passing run is a theorem.

## 5. Where the repository disagrees with itself

Two disagreements are shown by runs of their own:

* `wait_reap`: the native runner marks exit code 0 as waitable before the program
  starts. So a program's first `wait4(-1)` returns its own pid with status 0, where
  `userspace/wait4_reap.c` expects the status of the program before, and
  `userspace/wait4_echild.c` expects `-ECHILD`. `NativeReapsOnlyItself` states
  what the code does instead, and is proved.
* `clobber_list`: the system call stub leaves its own values in the argument
  registers, while the inline assembly of the user programs
  (`userspace/exit7.c:12`) tells the compiler that only rcx, r11 and memory change.

Others are part of the models as the code has them:

* The interpreter path of `run` does not reset `LAST_EXIT`; a program that ends
  with RET is reported with an earlier program's code. `ReportedCode` says so, and
  is proved.
* An `else` in `handle_custom_command` belongs to the outer `if`, so an unknown
  command prints "run: ramdisk not loaded", and `run` without a ramdisk prints nothing.
* `leonos3_native_enter` is declared `extern "C"` and saves none of the callee-saved
  registers: its caller gets them back with the program's values.
* `leonos3_native_enter` calls the entry point (`native_runner.rs:70`), so a native program starts with
  a return address at `[rsp]` and `argc` at `[rsp+8]`; an interpreted one finds `argc` at `[rsp]`, as the
  System V convention has it. `BUSYBOX_PORT.md:24` lists a real argv and envp stack as not
  implemented: what `StackReadsBack` shows is that the words are there and intact, in the place each runner
  gives them, not that a program of another system would find them.
* `mov ebx, imm32` is skipped by the interpreter (`elf_runner.rs:726`), under a comment that
  says the register is zero-extended; it is among the differences of `X86`.

## 6. Not modelled

Pixels, fonts, the VGA text and the serial log are output without state. The QEMU
launcher is a host program, and `src/allocator.rs` and `src/os_terminal.rs` belong
to an earlier kernel and are compiled by no crate. How deep execve may nest
before the boot loader's kernel stack overflows depends on compiled frame sizes.
Small allocations of the kernel (messages, argument lists), which also are never
freed, are not counted in `heap_free`.
