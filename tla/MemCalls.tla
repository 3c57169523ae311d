------------------------------ MODULE MemCalls -------------------------------
(***************************************************************************)
(* The calls of kernel/src/syscall.rs that hand out addresses or keep an   *)
(* address for the program: mmap, munmap, mprotect, brk (posix.rs) and     *)
(* arch_prctl, and those that fill a structure of the caller.  Nothing is  *)
(* ever mapped: an mmap only moves MMAP_BASE on.  The statics live as long *)
(* as the kernel, over all programs.                                       *)
(***************************************************************************)
EXTENDS Errno, Integers, Sequences

CONSTANTS
  U64,                    \* 2^64, scaled down
  PAGE,                   \* 0x1000
  MMAP_START, BRK_START,  \* 0x7000_0000 and 0x4000_0000
  Lengths, Addresses,     \* arguments of programs
  MaxRegions              \* bound: mmap calls

Words == 0 .. U64 - 1

ASSUME MemAssumption ==
  /\ PAGE \in Nat \ {0} /\ U64 \in Nat /\ U64 % PAGE = 0 /\ U64 % 2 = 0
  /\ MMAP_START \in Words /\ BRK_START \in Words /\ MMAP_START % PAGE = 0
  /\ Lengths \subseteq Words /\ Addresses \subseteq Words
  /\ MaxRegions \in Nat

VARIABLES
  MMAP_BASE, brk, ARCH_FS, ARCH_GS,
  answer,                 \* what the last call returned
  panicked,               \* an addition overflowed, the kernel has stopped
  regions                 \* auxiliary: what mmap handed out, in order: start, length
                          \* asked for, and whether the call took MMAP_BASE past 2^64
mem_vars == <<MMAP_BASE, brk, ARCH_FS, ARCH_GS, answer, panicked, regions>>

MemInit ==
  /\ MMAP_BASE = MMAP_START /\ brk = BRK_START /\ ARCH_FS = 0 /\ ARCH_GS = 0
  /\ answer = 0 /\ panicked = FALSE /\ regions = <<>>
-----------------------------------------------------------------------------
\* as isize
signed(v) == IF v < U64 \div 2 THEN v ELSE v - U64

length(len) == IF len < PAGE THEN PAGE ELSE len

\* Mutant of overflows: the sum wraps, as without overflow checks.
overflows_never(len) == FALSE

overflows(len) == length(len) + PAGE - 1 >= U64

\* Mutant of align_len: the length is not rounded up to a page.
align_len_exact(len) == length(len)

align_len(len) == (((length(len) + PAGE - 1) % U64) \div PAGE) * PAGE

\* AtomicU64::fetch_add wraps around, also with overflow checks.
fetch_add(v, n) == (v + n) % U64

mmap(len) ==
  /\ ~panicked /\ Len(regions) < MaxRegions
  /\ IF overflows(len) THEN panicked' = TRUE /\ UNCHANGED <<MMAP_BASE, answer, regions>>
     ELSE /\ MMAP_BASE' = fetch_add(MMAP_BASE, align_len(len))
          /\ answer' = signed(MMAP_BASE)
          /\ regions' = Append(regions, [start |-> MMAP_BASE, asked |-> len,
                                         wraps |-> MMAP_BASE + align_len(len) >= U64])
          /\ UNCHANGED panicked
  /\ UNCHANGED <<brk, ARCH_FS, ARCH_GS>>

\* The calls that answer a constant: munmap, mprotect, the signal calls, nanosleep,
\* futex and the user ids 0, the parent, the group and setsid 1, getpid, gettid and
\* set_tid_address 3, ioctl -ENOTTY.
constant_call(value) ==
  /\ ~panicked /\ answer' = value
  /\ UNCHANGED <<MMAP_BASE, brk, ARCH_FS, ARCH_GS, panicked, regions>>

\* brk_set stores any value but 0 and answers what is stored.
brk_set(new) ==
  /\ ~panicked
  /\ brk' = (IF new # 0 THEN new ELSE brk)
  /\ answer' = signed(brk')
  /\ UNCHANGED <<MMAP_BASE, ARCH_FS, ARCH_GS, panicked, regions>>

\* ARCH_SET_GS, ARCH_SET_FS; the two getters answer 0 and store nothing.
arch_prctl(code, addr) ==
  /\ ~panicked
  /\ ARCH_GS' = (IF code = 4097 THEN addr ELSE ARCH_GS)
  /\ ARCH_FS' = (IF code = 4098 THEN addr ELSE ARCH_FS)
  /\ answer' = (IF code \in 4097 .. 4100 THEN 0 ELSE -EINVAL)
  /\ UNCHANGED <<MMAP_BASE, brk, panicked, regions>>

\* uname, clock_gettime and getrandom, which answers len, refuse a null buffer;
\* gettimeofday answers 0 for it.
fill(nr, buf, len) ==
  /\ ~panicked
  /\ answer' = CASE buf = 0 /\ nr # "gettimeofday" -> -EFAULT
                 [] buf # 0 /\ nr = "getrandom" -> signed(len)
                 [] OTHER -> 0
  /\ UNCHANGED <<MMAP_BASE, brk, ARCH_FS, ARCH_GS, panicked, regions>>

\* The panic handler spins.
spin == panicked /\ UNCHANGED mem_vars

MemSyscall ==
  \/ \E len \in Lengths : mmap(len)
  \/ \E value \in {0, 1, 3, -ENOTTY} : constant_call(value)
  \/ \E new \in Addresses : brk_set(new)
  \/ \E code \in 4096 .. 4100, addr \in Addresses : arch_prctl(code, addr)
  \/ \E nr \in {"uname", "clock_gettime", "gettimeofday", "getrandom"}, buf \in Addresses,
        len \in Lengths : fill(nr, buf, len)

MemNext == MemSyscall \/ spin

MemSpec == MemInit /\ [][MemNext]_mem_vars
-----------------------------------------------------------------------------
(* Properties *)

\* What the programs were told they have is disjoint, over all programs the
\* kernel runs: MMAP_BASE never moves back, by munmap, by exit or by a new
\* program, the minimum and the rounding never give less than was asked, and the
\* overflow check stops a huge request before it wraps around to a small one.
\* Only requests that together pass 2^64 take MMAP_BASE around.
RegionsDisjoint ==
  \A i, j \in 1 .. Len(regions) :
    i < j /\ (\A k \in i .. j : ~regions[k].wraps)
      => regions[i].start + regions[i].asked <= regions[j].start

\* An address from mmap is never taken for an error: errors are -4095 to -1,
\* and a page-aligned number is not among them, also after wrapping around.
AddressesAreNotErrors ==
  \A i \in 1 .. Len(regions) : signed(regions[i].start) \notin -(PAGE - 1) .. -1
-----------------------------------------------------------------------------
(* The inductive invariant *)

Region == [start: Words, asked: Words, wraps: BOOLEAN]

\* The value of every variable is of its type.
MemTypeOK ==
  /\ MMAP_BASE \in Words /\ brk \in Words /\ ARCH_FS \in Words /\ ARCH_GS \in Words
  /\ answer \in Int /\ panicked \in BOOLEAN
  /\ regions \in Seq(Region)

\* Every address handed out, and the next one, is the start of a page.
PageAligned ==
  /\ MMAP_BASE % PAGE = 0
  /\ \A i \in 1 .. Len(regions) : regions[i].start % PAGE = 0

\* What was handed out since the last wrap lies below the next address.
BelowBase ==
  \A i \in 1 .. Len(regions) :
    (\A k \in i .. Len(regions) : ~regions[k].wraps)
      => regions[i].start + regions[i].asked <= MMAP_BASE

MemInv == MemTypeOK /\ PageAligned /\ BelowBase /\ RegionsDisjoint
=============================================================================
