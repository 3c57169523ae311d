------------------------------- MODULE FdTable -------------------------------
(***************************************************************************)
(* The descriptor layer of kernel/src/syscall.rs: the static FD_TABLE, the *)
(* mounted root file system, the working directory, and every system call  *)
(* that reads or writes them.  One action is one call of dispatch (or one  *)
(* call of set_rootfs), from its first check to its return value.          *)
(***************************************************************************)
EXTENDS RootFs, Errno, FiniteSetsExt

CONSTANTS
  MAX_FDS,     \* size of FD_TABLE (64)
  ISIZE_MAX,   \* largest isize, where saturating_add stops (2^63 - 1)
  Paths,       \* path arguments a program passes, see below
  Counts,      \* buffer sizes a program passes
  Offsets,     \* lseek offsets a program passes
  NULL,        \* a null pointer
  BADSTR       \* a pointer to a string read_cstr rejects

FD_BASE == 3
AT_FDCWD == -100

Slots == 0 .. MAX_FDS - 1
Fds   == 0 .. MAX_FDS          \* descriptor arguments; MAX_FDS is out of range

(***************************************************************************)
(* A path is the text  lead \o comps[1] \o "/" \o comps[2] ...  where lead *)
(* is "", "/", "//" or "./"; pad says that blanks surround it              *)
(* (normalize_path trims them; the tests for ".", "/" and ".." do not).    *)
(***************************************************************************)
PathForms == [pad: BOOLEAN, lead: {"", "/", "//", "./"}, comps: Seq(STRING)]

ASSUME FdAssumption ==
  /\ MAX_FDS \in Nat /\ MAX_FDS > FD_BASE
  /\ ISIZE_MAX \in Nat /\ ISIZE_MAX >= file_count + 2
  /\ \A i \in 1 .. file_count : Image[i].len <= ISIZE_MAX
  /\ Counts \subseteq Nat
  /\ Offsets \subseteq Int
  /\ Paths \subseteq PathForms

Text(l, c) == [pad |-> FALSE, lead |-> l, comps |-> c]
EmptyPath  == Text("", <<>>)
RootNames  == {EmptyPath, Text("", <<".">>), Text("/", <<>>)}
DotDot     == Text("", <<"..">>)

VARIABLES
  ROOTFS,    \* an image is mounted
  FD_TABLE,  \* the descriptor table
  CWD,       \* CWD_BUF up to its NUL: "" before the first mount or chdir
  call,      \* the last call and what it returned
  scan       \* auxiliary: what each directory descriptor has listed
fd_vars == <<ROOTFS, FD_TABLE, CWD, call, scan>>

Free       == [kind |-> "Free", rec |-> 0, pos |-> 0]
RootDir(p) == [kind |-> "RootDir", rec |-> 0, pos |-> p]
File(r, p) == [kind |-> "File", rec |-> r, pos |-> p]

Positions == 0 .. ISIZE_MAX
FdEntries == {Free} \cup {RootDir(p) : p \in Positions}
                    \cup {File(r, p) : r \in 1 .. file_count, p \in Positions}

\* What a directory descriptor has listed since it was opened, until lseek moves it.
NewScan    == [names |-> {}, seeked |-> FALSE]
SeekedScan == [names |-> {}, seeked |-> TRUE]
ListedNames == {".", ".."} \cup {Image[i].name : i \in 1 .. file_count}
Scans == [names: SUBSET ListedNames, seeked: BOOLEAN]

CallNames == {"none", "set_rootfs", "openat", "read", "write", "close", "lseek", "stat",
              "fstat", "newfstatat", "getdents64", "getcwd", "chdir", "access",
              "readlink", "dup", "dup2"}
Calls == [nr: CallNames, fd: Int, ret: Int, from: Nat]

TableOK ==
  /\ ROOTFS \in BOOLEAN
  /\ FD_TABLE \in [Slots -> FdEntries]
  /\ CWD \in {"", "/"}
  /\ scan \in [Slots -> Scans]
CallOK == call \in Calls
FdTypeOK == TableOK /\ CallOK
-----------------------------------------------------------------------------
(* Helpers shared by the calls *)

Return(nr, fd, r) == call' = [nr |-> nr, fd |-> fd, ret |-> r, from |-> 0]
Keep == UNCHANGED <<ROOTFS, FD_TABLE, CWD, scan>>
Fail(nr, fd, e) == Return(nr, fd, -e) /\ Keep

InTable(fd) == fd < MAX_FDS
Kind(fd) == FD_TABLE[fd].kind
Used(fd) == fd \in Slots /\ Kind(fd) # "Free"

\* Replaces one slot of the table.
Put(i, entry, s) ==
  /\ FD_TABLE' = [FD_TABLE EXCEPT ![i] = entry]
  /\ scan' = [scan EXCEPT ![i] = s]
  /\ UNCHANGED <<ROOTFS, CWD>>

\* Mutant of alloc_fd: hands out the lowest slot without looking at it.
alloc_fd_unchecked(nr, fd, entry, s) ==
  Put(FD_BASE, entry, s) /\ Return(nr, fd, FD_BASE)

\* alloc_fd: the lowest free slot from FD_BASE up, EBUSY when there is none.
alloc_fd(nr, fd, entry, s) ==
  \/ \E i \in FD_BASE .. MAX_FDS - 1 :
       /\ Kind(i) = "Free"
       /\ \A j \in FD_BASE .. i - 1 : Kind(j) # "Free"
       /\ Put(i, entry, s)
       /\ Return(nr, fd, i)
  \/ /\ \A i \in FD_BASE .. MAX_FDS - 1 : Kind(i) # "Free"
     /\ Fail(nr, fd, EBUSY)

is_dirfd_ok(d) == d = AT_FDCWD \/ (d \in Slots /\ Kind(d) = "RootDir")

\* normalize_path gives up on a path with an inner slash; otherwise what is
\* left of it is its only component, or nothing.
Nested(p) == Len(p.comps) > 1
normalize_path(p) == IF p.comps = <<>> THEN "" ELSE Head(p.comps)

\* rootfs() and fs::open on a normalized path find a file.
Found(p) == ROOTFS /\ hits(normalize_path(p)) # {}

root_entries_count == IF ROOTFS THEN file_count + 2 ELSE 2
-----------------------------------------------------------------------------
(* What the path system calls make of a path *)

\* Mutant of OpensRoot: the check of an empty normalized name is missing.
OpensRootByNameOnly(p) == p \in RootNames \cup {DotDot}

OpensRoot(p) == p \in RootNames \cup {DotDot} \/ (~Nested(p) /\ normalize_path(p) = "")
OpensFile(p) == ~OpensRoot(p) /\ ~Nested(p) /\ Found(p)

StatsRoot(p) == p \in RootNames
StatsFile(p) == ~StatsRoot(p) /\ ~Nested(p) /\ Found(p)
StatResult(p) == IF StatsRoot(p) \/ StatsFile(p) THEN 0 ELSE -ENOENT

path_exists(p) == \/ p \in RootNames
                  \/ ~Nested(p) /\ (normalize_path(p) = "" \/ Found(p))

\* normalize_exec_path of elf_runner.rs gives up on an empty name too, and execve
\* looks the rest up in the same image.
Executes(p) == p.comps # <<>> /\ ~Nested(p) /\ Found(p)

ReadsExeLink(p) == p \in {Text(l, <<"proc", "self", "exe">>) : l \in {"", "/"}}
ExeLinkLen == 12   \* length of "/bin/busybox"
-----------------------------------------------------------------------------
(* Directory listing *)

\* root_name_by_index finds a name for position j ("." and ".." come first).
DirEntryOk(j) == j < 2 \/ (ROOTFS /\ entry_ok(j - 1))
DirName(j) == CASE j = 0 -> "." [] j = 1 -> ".." [] OTHER -> Image[j - 1].name
DirNameLen(j) == IF j < 2 THEN j + 1 ELSE Image[j - 1].nlen

dirent_record_len(n) == ((20 + n + 7) \div 8) * 8

\* Bytes the k records from position p occupy.
Written(p, k) == MapThenSumSet(LAMBDA j : dirent_record_len(DirNameLen(j)), p .. p + k - 1)

\* The loop of sys_getdents64 stops after k records from position p.
Emits(p, k, count) ==
  /\ \A j \in p .. p + k - 1 : DirEntryOk(j)
  /\ Written(p, k) \in 24 * k .. count    \* no record is shorter than 24 bytes
  /\ p + k < root_entries_count /\ DirEntryOk(p + k) => Written(p, k + 1) > count
-----------------------------------------------------------------------------
(* The calls *)

FdInit ==
  /\ ROOTFS = FALSE
  /\ FD_TABLE = [i \in Slots |-> Free]
  /\ CWD = ""
  /\ call = [nr |-> "none", fd |-> 0, ret |-> 0, from |-> 0]
  /\ scan = [i \in Slots |-> NewScan]

\* Mutant of set_rootfs: the descriptors stay open.
set_rootfs_keeping ==
  /\ ROOTFS' = TRUE /\ CWD' = "/"
  /\ Return("set_rootfs", 0, 0)
  /\ UNCHANGED <<FD_TABLE, scan>>

\* Called at boot and again by the shell command "ramdisk", only for an image
\* whose header fs::header accepts.
set_rootfs ==
  /\ ROOTFS' = TRUE
  /\ FD_TABLE' = [i \in Slots |-> Free]
  /\ scan' = [i \in Slots |-> NewScan]
  /\ CWD' = "/"
  /\ Return("set_rootfs", 0, 0)

sys_openat(d, p, directory) ==
  \/ p = NULL /\ Fail("openat", d, EFAULT)
  \/ p # NULL /\ ~is_dirfd_ok(d) /\ Fail("openat", d, EBADF)
  \/ /\ p # NULL /\ is_dirfd_ok(d)
     /\ \/ p = BADSTR /\ Fail("openat", d, EFAULT)
        \/ /\ p # BADSTR
           /\ \/ OpensRoot(p) /\ alloc_fd("openat", d, RootDir(0), NewScan)
              \/ OpensFile(p) /\ directory /\ Fail("openat", d, ENOTDIR)
              \/ /\ OpensFile(p) /\ ~directory
                 /\ \E r \in 1 .. file_count :
                      /\ open(normalize_path(p), r)
                      /\ alloc_fd("openat", d, File(r, 0), NewScan)
              \/ ~OpensRoot(p) /\ ~OpensFile(p) /\ Fail("openat", d, ENOENT)

\* Mutant of ReadCount: the position is left out of the bound.
ReadCountFromStart(e, len) == Min({len, Image[e.rec].len})

\* Bytes a read of len bytes copies from a file whose position is inside it.
ReadCount(e, len) == Min({len, Image[e.rec].len - e.pos})

\* SYS_READ.  Descriptor 0 blocks on the keyboard until it has a line or a full
\* buffer, so it returns any count from 1 to the size asked for.
sys_read(fd, buf, len) ==
  \/ /\ fd = 0
     /\ \/ (~buf \/ len = 0) /\ Return("read", fd, 0)
        \/ buf /\ \E n \in 1 .. len : Return("read", fd, n)
     /\ Keep
  \/ fd \in 1 .. 2 /\ Fail("read", fd, EBADF)
  \/ fd > 2 /\ ~buf /\ Fail("read", fd, EFAULT)
  \/ fd > 2 /\ buf /\ ~InTable(fd) /\ Fail("read", fd, EBADF)
  \/ /\ fd > 2 /\ buf /\ InTable(fd)
     /\ \/ Kind(fd) = "Free" /\ Fail("read", fd, EBADF)
        \/ Kind(fd) = "RootDir" /\ Fail("read", fd, EISDIR)
        \/ /\ Kind(fd) = "File"
           /\ LET e == FD_TABLE[fd]
                  total == Image[e.rec].len
              IN \/ e.pos >= total /\ Return("read", fd, 0) /\ Keep
                 \/ /\ e.pos < total
                    /\ LET n == ReadCount(e, len)
                       IN /\ Put(fd, File(e.rec, e.pos + n), scan[fd])
                          /\ call' = [nr |-> "read", fd |-> fd, ret |-> n, from |-> e.pos]

\* SYS_WRITE: the POSIX layer accepts standard output and error only.
sys_write(fd, len) ==
  /\ Return("write", fd, IF fd \in 1 .. 2 THEN len ELSE -EBADF)
  /\ Keep

sys_close(fd) ==
  \/ fd <= 2 /\ Return("close", fd, 0) /\ Keep
  \/ fd > 2 /\ ~Used(fd) /\ Fail("close", fd, EBADF)
  \/ /\ fd > 2 /\ Used(fd)
     /\ Put(fd, Free, NewScan)
     /\ Return("close", fd, 0)

\* Where lseek counts from: the start, the position, or the end.
SeekBase(e, whence) ==
  CASE whence = 0 -> 0
    [] whence = 1 -> e.pos
    [] OTHER      -> IF e.kind = "RootDir" THEN root_entries_count ELSE Image[e.rec].len

\* Mutant of saturating_add: an addition that runs past the largest isize.
unbounded_add(a, b) == a + b

\* isize::saturating_add, upper end.  The lower end stays negative and is refused.
saturating_add(a, b) == IF a + b > ISIZE_MAX THEN ISIZE_MAX ELSE a + b

sys_lseek(fd, off, whence) ==
  \/ fd <= 2 /\ Return("lseek", fd, off) /\ Keep
  \/ fd > 2 /\ ~Used(fd) /\ Fail("lseek", fd, EBADF)
  \/ /\ fd > 2 /\ Used(fd)
     /\ \/ whence \notin 0 .. 2 /\ Fail("lseek", fd, EINVAL)
        \/ /\ whence \in 0 .. 2
           /\ LET new_pos == saturating_add(SeekBase(FD_TABLE[fd], whence), off)
              IN \/ new_pos < 0 /\ Fail("lseek", fd, EINVAL)
                 \/ /\ new_pos >= 0
                    /\ Put(fd, [FD_TABLE[fd] EXCEPT !.pos = new_pos],
                           IF Kind(fd) = "RootDir" THEN SeekedScan ELSE scan[fd])
                    /\ Return("lseek", fd, new_pos)

\* SYS_STAT, SYS_LSTAT
sys_stat_path(p, stat) ==
  /\ Return("stat", 0, IF p \in {NULL, BADSTR} \/ ~stat THEN -EFAULT ELSE StatResult(p))
  /\ Keep

FstatResult(fd) ==
  IF fd <= 2 \/ Used(fd) THEN 0 ELSE -EBADF

sys_fstat(fd, stat) ==
  /\ Return("fstat", fd, IF ~stat THEN -EFAULT ELSE FstatResult(fd))
  /\ Keep

sys_newfstatat(d, p, stat, empty_path) ==
  /\ Keep
  /\ \/ (~stat \/ p \in {NULL, BADSTR}) /\ Return("newfstatat", d, -EFAULT)
     \/ /\ stat /\ p = EmptyPath /\ empty_path
        /\ Return("newfstatat", d, CASE d = AT_FDCWD -> 0
                                     [] d # AT_FDCWD /\ d < 0 -> -EBADF
                                     [] OTHER -> FstatResult(d))
     \/ /\ stat /\ p \notin {NULL, BADSTR} /\ ~(p = EmptyPath /\ empty_path)
        /\ Return("newfstatat", d, IF is_dirfd_ok(d) THEN StatResult(p) ELSE -EBADF)

\* Mutant of EmitRecords: the position has moved past the record that did not fit.
EmitRecordsSkipping(fd, k) ==
  LET p == FD_TABLE[fd].pos
  IN Put(fd, RootDir(p + k + 1),
         [scan[fd] EXCEPT !.names = @ \cup {DirName(j) : j \in p .. p + k - 1}])

\* The k records from a descriptor's position on go to the program.
EmitRecords(fd, k) ==
  LET p == FD_TABLE[fd].pos
  IN Put(fd, RootDir(p + k),
         IF scan[fd].seeked THEN scan[fd]
         ELSE [scan[fd] EXCEPT !.names = @ \cup {DirName(j) : j \in p .. p + k - 1}])

sys_getdents64(fd, dirp, count) ==
  \/ ~dirp /\ Fail("getdents64", fd, EFAULT)
  \/ dirp /\ ~InTable(fd) /\ Fail("getdents64", fd, EBADF)
  \/ dirp /\ InTable(fd) /\ Kind(fd) # "RootDir" /\ Fail("getdents64", fd, ENOTDIR)
  \/ /\ dirp /\ InTable(fd) /\ Kind(fd) = "RootDir"
     /\ LET p == FD_TABLE[fd].pos
            total == root_entries_count
        IN \/ p >= total /\ Return("getdents64", fd, 0) /\ Keep
           \/ /\ p < total
              /\ \E k \in 0 .. total - p :
                   /\ Emits(p, k, count)
                   /\ \/ k = 0 /\ DirEntryOk(p) /\ Fail("getdents64", fd, EINVAL)
                      \/ /\ k > 0 \/ ~DirEntryOk(p)
                         /\ EmitRecords(fd, k)
                         /\ Return("getdents64", fd, Written(p, k))

\* The buffer address a successful getcwd returns is represented by 1.
sys_getcwd(buf, size) ==
  /\ Return("getcwd", 0, CASE ~buf \/ size = 0  -> -EINVAL
                           [] buf /\ size = 1   -> -ERANGE
                           [] OTHER             -> 1)
  /\ Keep

sys_chdir(p) ==
  \/ p \in {NULL, BADSTR} /\ Fail("chdir", 0, EFAULT)
  \/ p \in RootNames /\ CWD' = "/" /\ Return("chdir", 0, 0) /\ UNCHANGED <<ROOTFS, FD_TABLE, scan>>
  \/ p \notin RootNames \cup {NULL, BADSTR} /\ Fail("chdir", 0, ENOENT)

\* SYS_ACCESS and SYS_FACCESSAT, which ignores its directory argument
sys_access(p) ==
  /\ Return("access", 0, CASE p \in {NULL, BADSTR} -> -EFAULT
                           [] p \notin {NULL, BADSTR} /\ path_exists(p) -> 0
                           [] OTHER -> -ENOENT)
  /\ Keep

\* SYS_READLINK and SYS_READLINKAT, which ignores its directory argument
sys_readlink(p, buf, bufsz) ==
  /\ Return("readlink", 0, CASE p \in {NULL, BADSTR} -> -EFAULT
                             [] p \notin {NULL, BADSTR} /\ (~buf \/ bufsz = 0) -> -EINVAL
                             [] p \notin {NULL, BADSTR} /\ buf /\ bufsz > 0 /\ ReadsExeLink(p)
                                  -> Min({ExeLinkLen, bufsz})
                             [] OTHER -> -ENOENT)
  /\ Keep

\* dup copies the entry, position included: the copies then move on their own.
sys_dup(fd) ==
  \/ fd <= 2 /\ Return("dup", fd, fd) /\ Keep
  \/ fd > 2 /\ ~Used(fd) /\ Fail("dup", fd, EBADF)
  \/ fd > 2 /\ Used(fd) /\ alloc_fd("dup", fd, FD_TABLE[fd], scan[fd])

\* Mutant of sys_dup2: the test newfd < FD_BASE is missing.
sys_dup2_anywhere(oldfd, newfd) ==
  /\ oldfd > 2 /\ InTable(newfd) /\ Used(oldfd)
  /\ Put(newfd, FD_TABLE[oldfd], scan[oldfd])
  /\ Return("dup2", newfd, newfd)

sys_dup2(oldfd, newfd) ==
  \/ oldfd <= 2 /\ newfd <= 2 /\ Return("dup2", newfd, newfd) /\ Keep
  \/ oldfd <= 2 /\ newfd > 2 /\ Fail("dup2", newfd, EBADF)
  \/ /\ oldfd > 2 /\ ~(newfd \in FD_BASE .. MAX_FDS - 1 /\ Used(oldfd))
     /\ Fail("dup2", newfd, EBADF)
  \/ /\ oldfd > 2 /\ newfd \in FD_BASE .. MAX_FDS - 1 /\ Used(oldfd)
     /\ Put(newfd, FD_TABLE[oldfd], scan[oldfd])
     /\ Return("dup2", newfd, newfd)

PathArgs == Paths \cup {NULL, BADSTR}
DirFds   == Fds \cup {AT_FDCWD, -1}

\* Every call of dispatch but read, which may wait for the keyboard.
FdSyscall ==
  \/ \E d \in DirFds, p \in PathArgs, dir \in BOOLEAN : sys_openat(d, p, dir)
  \/ \E fd \in Fds, n \in Counts : sys_write(fd, n)
  \/ \E fd \in Fds : sys_close(fd)
  \/ \E fd \in Fds, off \in Offsets, w \in 0 .. 3 : sys_lseek(fd, off, w)
  \/ \E p \in PathArgs, stat \in BOOLEAN : sys_stat_path(p, stat)
  \/ \E fd \in Fds, stat \in BOOLEAN : sys_fstat(fd, stat)
  \/ \E d \in DirFds, p \in PathArgs, stat, e \in BOOLEAN : sys_newfstatat(d, p, stat, e)
  \/ \E fd \in Fds, dirp \in BOOLEAN, n \in Counts : sys_getdents64(fd, dirp, n)
  \/ \E buf \in BOOLEAN, n \in Counts : sys_getcwd(buf, n)
  \/ \E p \in PathArgs : sys_chdir(p)
  \/ \E p \in PathArgs : sys_access(p)
  \/ \E p \in PathArgs, buf \in BOOLEAN, n \in Counts : sys_readlink(p, buf, n)
  \/ \E fd \in Fds : sys_dup(fd)
  \/ \E oldfd, newfd \in Fds : sys_dup2(oldfd, newfd)

FdNext ==
  \/ set_rootfs
  \/ \E fd \in Fds, buf \in BOOLEAN, n \in Counts : sys_read(fd, buf, n)
  \/ FdSyscall

FdSpec == FdInit /\ [][FdNext]_fd_vars
-----------------------------------------------------------------------------
(* Properties *)

\* dispatch answers descriptors 0, 1 and 2 itself without looking at FD_TABLE,
\* and is_dirfd_ok and sys_getdents64 look at their slots: no call ever
\* leaves an entry there that the hard-wired standard streams would hide.
StdSlotsFree == \A i \in 0 .. FD_BASE - 1 : FD_TABLE[i] = Free

\* A read copies only bytes of the file: lseek may have left the position
\* anywhere up to isize::MAX, and sys_read's unsigned subtraction must not see it.
ReadInsideFile ==
  call.nr = "read" /\ call.fd >= FD_BASE /\ call.ret > 0 =>
    /\ FD_TABLE[call.fd].kind = "File"
    /\ call.from + call.ret <= Image[FD_TABLE[call.fd].rec].len
    /\ FD_TABLE[call.fd].pos = call.from + call.ret

\* A descriptor in use changes (its object or its offset) only in a call that
\* names it, or when the root file system is mounted again.  In particular a
\* duplicate keeps its own offset, and no allocation takes over a used slot.
ChangedOnlyByOwnCalls ==
  [][\A i \in Slots :
       FD_TABLE[i] # Free /\ FD_TABLE'[i] # FD_TABLE[i] =>
         \/ call'.nr = "set_rootfs"
         \/ call'.fd = i /\ call'.nr \in {"read", "lseek", "getdents64", "close", "dup2"}]_fd_vars

\* Paths of up to two components, in every spelling.
ShortPaths ==
  LET words == {".", ".."} \cup {Image[i].name : i \in 1 .. file_count}
      comps == {<<>>} \cup {<<n>> : n \in words} \cup {<<n, n>> : n \in words}
  IN [pad: BOOLEAN, lead: {"", "/", "//", "./"}, comps: comps]

\* The four path walkers form a chain: what execve runs stat accepts, what stat
\* accepts access accepts, and what access accepts openat opens.  (They are separate code with separate
\* special cases; ".." and "//" show that the chain is strict.)
PathVerdictsNest ==
  \A p \in ShortPaths :
    /\ Executes(p) => StatResult(p) = 0
    /\ StatResult(p) = 0 => path_exists(p)
    /\ path_exists(p) => OpensRoot(p) \/ OpensFile(p)

\* A directory descriptor that lseek never moved stands where its listing stands:
\* the entries below its position are the ones it has listed, and all decode.
ScanFits(e, s) ==
  e.kind = "RootDir" /\ ~s.seeked =>
    /\ e.pos <= root_entries_count
    /\ \A j \in 0 .. e.pos - 1 : DirEntryOk(j)
    /\ s.names = {DirName(j) : j \in 0 .. e.pos - 1}
ListedPrefix == \A i \in Slots : ScanFits(FD_TABLE[i], scan[i])

\* The inductive invariant of the proofs.
FdInv == FdTypeOK /\ StdSlotsFree /\ ListedPrefix

\* Names of the image's files that openat opens when given the plain name.
Openable == {n \in {Image[i].name : i \in 1 .. file_count} : OpensFile(Text("", <<n>>))}

\* When getdents64 reports the end of a directory on a descriptor that was never
\* repositioned, the names it listed, over however many calls and through
\* whatever duplicates, are exactly the files openat can open - also when an
\* entry of the image does not decode, which stops both code paths.
ScanListsOpenable ==
  call.nr = "getdents64" /\ call.ret = 0 /\ ~scan[call.fd].seeked =>
    scan[call.fd].names = {".", ".."} \cup Openable
=============================================================================
