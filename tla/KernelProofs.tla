---------------------------- MODULE KernelProofs -----------------------------
(***************************************************************************)
(* The descriptor layer, the memory calls and the kernel as a whole, for   *)
(* every image, every set of programs and every boot loader.  Descriptors, *)
(* memory calls and programs stay those of FdTable, MemCalls and Process   *)
(* whichever program, runner or shell command makes the step, there is one *)
(* disk, and the table is clean after each mount.                          *)
(***************************************************************************)
EXTENDS Kernel, SequenceTheorems, WellFoundedInduction, TLAPS
-----------------------------------------------------------------------------
(* The descriptor layer.  Every call either keeps the table (Keep) or      *)
(* replaces one slot above the standard streams (Put); what these two do   *)
(* to the invariant is proved once and used for every call.                *)

\* The smaller of two numbers.
LEMMA MinOfTwo ==
  ASSUME NEW a \in Nat, NEW b \in Nat
  PROVE  Min({a, b}) \in Nat /\ Min({a, b}) <= a /\ Min({a, b}) <= b
BY DEF Min

\* What a descriptor in the table looks like.
LEMMA EntryShape ==
  ASSUME FdTypeOK, NEW i \in Slots
  PROVE  /\ FD_TABLE[i] \in FdEntries /\ scan[i] \in Scans
         /\ \/ FD_TABLE[i] = Free
            \/ \E p \in Positions : FD_TABLE[i] = RootDir(p)
            \/ \E r \in 1 .. file_count, p \in Positions : FD_TABLE[i] = File(r, p)
<1>1. FD_TABLE[i] \in FdEntries /\ scan[i] \in Scans
  BY DEF FdTypeOK, TableOK
<1> QED BY <1>1 DEF FdEntries

\* Facts about the constants.
LEMMA Constants ==
  /\ file_count \in Nat
  /\ MAX_FDS \in Nat /\ MAX_FDS > 3
  /\ \A i \in 1 .. file_count : Image[i].len \in Nat
<1>1. Image \in Seq(Entries)
  BY ImageAssumption
<1>2. Len(Image) \in Nat /\ \A i \in 1 .. Len(Image) : Image[i] \in Entries
  BY <1>1
<1> QED BY <1>2, FdAssumption DEF file_count, FD_BASE, Entries

\* The error numbers are integers.
LEMMA Errnos ==
  /\ ENOENT \in Int /\ EBADF \in Int /\ EFAULT \in Int /\ EBUSY \in Int /\ ENOTDIR \in Int
  /\ EISDIR \in Int /\ EINVAL \in Int /\ ERANGE \in Int
BY DEF ENOENT, EBADF, EFAULT, EBUSY, ENOTDIR, EISDIR, EINVAL, ERANGE

\* A call that keeps the table keeps the invariant.
LEMMA KeepInv ==
  ASSUME FdInv, Keep, call' \in Calls
  PROVE  FdInv'
<1>1. FdTypeOK'
  BY DEF FdInv, FdTypeOK, TableOK, CallOK, Keep
<1>2. StdSlotsFree'
  BY DEF FdInv, StdSlotsFree, Keep
<1>3. ListedPrefix'
  BY DEF FdInv, ListedPrefix, ScanFits, Keep, root_entries_count, DirEntryOk
<1> QED BY <1>1, <1>2, <1>3 DEF FdInv

\* So does a call that replaces one slot above the standard streams.
LEMMA PutInv ==
  ASSUME FdInv, call' \in Calls,
         NEW i \in FD_BASE .. MAX_FDS - 1, NEW e \in FdEntries, NEW s \in Scans,
         Put(i, e, s), ScanFits(e, s)
  PROVE  FdInv'
<1>1. i \in Slots /\ \A j \in 0 .. FD_BASE - 1 : j # i /\ j \in Slots
  BY Constants DEF Slots, FD_BASE
<1>2. FdTypeOK'
  BY <1>1 DEF FdInv, FdTypeOK, TableOK, CallOK, Put
<1>3. StdSlotsFree'
  BY <1>1 DEF FdInv, FdTypeOK, TableOK, StdSlotsFree, Put
<1>4. ListedPrefix'
  <2> SUFFICES ASSUME NEW j \in Slots PROVE ScanFits(FD_TABLE[j], scan[j])'
    BY DEF ListedPrefix
  <2>1. ROOTFS' = ROOTFS
    BY DEF Put
  <2>2. CASE j = i
    <3>1. FD_TABLE'[j] = e /\ scan'[j] = s
      BY <1>1, <2>2 DEF FdInv, FdTypeOK, TableOK, Put
    <3> QED BY <2>1, <3>1 DEF ScanFits, root_entries_count, DirEntryOk
  <2>3. CASE j # i
    <3>1. FD_TABLE'[j] = FD_TABLE[j] /\ scan'[j] = scan[j]
      BY <1>1, <2>3 DEF FdInv, FdTypeOK, TableOK, Put
    <3> QED BY <2>1, <3>1 DEF FdInv, ListedPrefix, ScanFits, root_entries_count, DirEntryOk
  <2> QED BY <2>2, <2>3
<1> QED BY <1>2, <1>3, <1>4 DEF FdInv

\* A call's record has its type when its parts have.
LEMMA CallType ==
  ASSUME NEW nr \in CallNames, NEW fd \in Int, NEW r \in Int, NEW f \in Nat
  PROVE  [nr |-> nr, fd |-> fd, ret |-> r, from |-> f] \in Calls
BY DEF Calls

LEMMA ReturnType ==
  ASSUME NEW nr \in CallNames, NEW fd \in Int, NEW r \in Int, Return(nr, fd, r)
  PROVE  call' \in Calls
BY CallType DEF Return

LEMMA FailInv ==
  ASSUME FdInv, NEW nr \in CallNames, NEW fd \in Int, NEW e \in Int, Fail(nr, fd, e)
  PROVE  FdInv'
<1>1. call' \in Calls
  BY CallType DEF Fail, Return
<1> QED BY <1>1, KeepInv DEF Fail

\* alloc_fd puts the new entry into a free slot or fails.
LEMMA AllocInv ==
  ASSUME FdInv, NEW nr \in CallNames, NEW fd \in Int, NEW e \in FdEntries, NEW s \in Scans,
         ScanFits(e, s), alloc_fd(nr, fd, e, s)
  PROVE  FdInv'
<1>1. CASE \E i \in FD_BASE .. MAX_FDS - 1 : Put(i, e, s) /\ Return(nr, fd, i)
  <2>1. PICK i \in FD_BASE .. MAX_FDS - 1 : Put(i, e, s) /\ Return(nr, fd, i)
    BY <1>1
  <2>2. call' \in Calls
    BY <2>1, Constants, CallType DEF FD_BASE, Return
  <2> QED BY <2>1, <2>2, PutInv
<1>2. CASE Fail(nr, fd, EBUSY)
  BY <1>2, FailInv, Errnos
<1> QED BY <1>1, <1>2 DEF alloc_fd

\* A freshly opened directory has listed nothing.
LEMMA FreshEntries ==
  /\ NewScan \in Scans /\ SeekedScan \in Scans /\ Free \in FdEntries
  /\ RootDir(0) \in FdEntries /\ ScanFits(RootDir(0), NewScan)
  /\ ScanFits(Free, NewScan)
  /\ \A r \in 1 .. file_count : File(r, 0) \in FdEntries /\ ScanFits(File(r, 0), NewScan)
<1>1. 0 \in Positions
  BY FdAssumption DEF Positions
<1>2. root_entries_count >= 0
  BY Constants DEF root_entries_count
<1>3. NewScan \in Scans /\ SeekedScan \in Scans
  BY DEF NewScan, SeekedScan, Scans
<1>4. Free \in FdEntries /\ RootDir(0) \in FdEntries
      /\ \A r \in 1 .. file_count : File(r, 0) \in FdEntries
  BY <1>1 DEF FdEntries
<1>5. ScanFits(RootDir(0), NewScan)
  <2>1. 0 .. RootDir(0).pos - 1 = {}
    BY DEF RootDir
  <2>2. {DirName(j) : j \in 0 .. RootDir(0).pos - 1} = {}
    BY <2>1
  <2> QED BY <1>2, <2>1, <2>2 DEF ScanFits, NewScan, RootDir
<1>6. ScanFits(Free, NewScan) /\ \A r \in 1 .. file_count : ScanFits(File(r, 0), NewScan)
  BY DEF ScanFits, Free, File
<1> QED BY <1>3, <1>4, <1>5, <1>6

-----------------------------------------------------------------------------
(* The calls *)

LEMMA OpenatInv ==
  ASSUME FdInv, NEW d \in Int, NEW p, NEW dir, sys_openat(d, p, dir)
  PROVE  FdInv'
<1> "openat" \in CallNames
  BY DEF CallNames
<1>1. CASE \E e \in {EFAULT, EBADF, ENOENT, ENOTDIR} : Fail("openat", d, e)
  BY <1>1, FailInv, Errnos
<1>2. CASE alloc_fd("openat", d, RootDir(0), NewScan)
  BY <1>2, AllocInv, FreshEntries
<1>3. CASE \E r \in 1 .. file_count : alloc_fd("openat", d, File(r, 0), NewScan)
  BY <1>3, AllocInv, FreshEntries
<1> QED BY <1>1, <1>2, <1>3 DEF sys_openat

LEMMA ReadInv ==
  ASSUME FdInv, NEW fd \in Fds, NEW buf, NEW len \in Nat, sys_read(fd, buf, len)
  PROVE  FdInv'
<1> "read" \in CallNames /\ fd \in Int
  BY Constants DEF Fds, CallNames
<1>1. CASE \E e \in {EFAULT, EBADF, EISDIR} : Fail("read", fd, e)
  BY <1>1, FailInv, Errnos
<1>2. CASE Keep /\ \E n \in Nat : Return("read", fd, n)
  <2>1. call' \in Calls
    BY <1>2, CallType DEF Return
  <2> QED BY <1>2, <2>1, KeepInv
<1>3. CASE /\ fd > 2 /\ InTable(fd) /\ Kind(fd) = "File"
           /\ FD_TABLE[fd].pos < Image[FD_TABLE[fd].rec].len
           /\ LET n == ReadCount(FD_TABLE[fd], len)
              IN /\ Put(fd, File(FD_TABLE[fd].rec, FD_TABLE[fd].pos + n), scan[fd])
                 /\ call' = [nr |-> "read", fd |-> fd, ret |-> n, from |-> FD_TABLE[fd].pos]
  <2>1. fd \in Slots /\ fd \in FD_BASE .. MAX_FDS - 1
    BY <1>3, Constants DEF InTable, Fds, Slots, FD_BASE
  <2>2. PICK r \in 1 .. file_count, pos \in Positions : FD_TABLE[fd] = File(r, pos)
    <3>1. FD_TABLE[fd].kind = "File"
      BY <1>3 DEF Kind
    <3>2. FD_TABLE[fd] # Free /\ \A p : FD_TABLE[fd] # RootDir(p)
      BY <3>1 DEF Free, RootDir
    <3> QED BY <2>1, <3>2, EntryShape DEF FdInv
  <2> DEFINE total == Image[r].len
             n == ReadCount(FD_TABLE[fd], len)
  <2>3. total \in Nat /\ pos \in Nat /\ total <= ISIZE_MAX /\ pos < total
    BY <1>3, <2>2, Constants, FdAssumption DEF Positions, File
  <2>4. n \in Nat /\ n <= total - pos
    <3>1. total - pos \in Nat /\ len \in Nat
      BY <2>3, FdAssumption
    <3>2. FD_TABLE[fd].rec = r /\ FD_TABLE[fd].pos = pos
      BY <2>2 DEF File
    <3>3. n = Min({len, total - pos})
      BY <3>2, Zenon DEF ReadCount
    <3>4. Min({len, total - pos}) \in Nat /\ Min({len, total - pos}) <= total - pos
      BY <3>1, MinOfTwo
    <3> QED BY <3>3, <3>4
  <2>5. pos + n \in Positions
    BY <2>3, <2>4, FdAssumption DEF Positions
  <2>6. File(r, pos + n) \in FdEntries /\ ScanFits(File(r, pos + n), scan[fd])
    BY <2>5 DEF FdEntries, ScanFits, File
  <2>7. FD_TABLE[fd].rec = r /\ FD_TABLE[fd].pos = pos
    BY <2>2 DEF File
  <2> HIDE DEF n
  <2>8. call' \in Calls
    BY <1>3, <2>3, <2>4, <2>7, CallType DEF n
  <2>9. Put(fd, File(r, pos + n), scan[fd])
    BY <1>3, <2>7 DEF n
  <2>10. scan[fd] \in Scans
    BY <2>1, EntryShape DEF FdInv
  <2> QED BY <2>1, <2>6, <2>8, <2>9, <2>10, PutInv
<1> QED BY <1>1, <1>2, <1>3, Constants DEF sys_read, Fds

LEMMA WriteInv ==
  ASSUME FdInv, NEW fd \in Int, NEW len \in Nat, sys_write(fd, len)
  PROVE  FdInv'
<1>1. call' \in Calls
  <2> "write" \in CallNames
    BY DEF CallNames
  <2> QED BY CallType DEF sys_write, Return, EBADF
<1> QED BY <1>1, KeepInv DEF sys_write

LEMMA CloseInv ==
  ASSUME FdInv, NEW fd \in Int, sys_close(fd)
  PROVE  FdInv'
<1> "close" \in CallNames
  BY DEF CallNames
<1>1. CASE Return("close", fd, 0) /\ Keep
  <2>1. call' \in Calls
    BY <1>1, CallType DEF Return
  <2> QED BY <1>1, <2>1, KeepInv
<1>2. CASE Fail("close", fd, EBADF)
  BY <1>2, FailInv, Errnos
<1>3. CASE fd > 2 /\ Used(fd) /\ Put(fd, Free, NewScan) /\ Return("close", fd, 0)
  <2>1. fd \in FD_BASE .. MAX_FDS - 1
    BY <1>3, Constants DEF Used, Slots, FD_BASE
  <2>2. call' \in Calls
    BY <1>3, CallType DEF Return
  <2> QED BY <1>3, <2>1, <2>2, PutInv, FreshEntries
<1> QED BY <1>1, <1>2, <1>3 DEF sys_close

\* A call that only answers a question.
LEMMA QueryInv ==
  ASSUME FdInv, NEW nr \in CallNames, NEW fd \in Int, NEW r \in Int, Return(nr, fd, r), Keep
  PROVE  FdInv'
<1>1. call' \in Calls
  BY CallType DEF Return
<1> QED BY <1>1, KeepInv

\* What the queries answer is an integer.
LEMMA AnswerTypes ==
  /\ \A p : StatResult(p) \in Int
  /\ \A fd : FstatResult(fd) \in Int
BY DEF StatResult, FstatResult, ENOENT, EBADF

LEMMA LseekInv ==
  ASSUME FdInv, NEW fd \in Int, NEW off \in Int, NEW w \in 0 .. 3, sys_lseek(fd, off, w)
  PROVE  FdInv'
<1> "lseek" \in CallNames
  BY DEF CallNames
<1>1. CASE Return("lseek", fd, off) /\ Keep
  BY <1>1, QueryInv
<1>2. CASE \E e \in {EBADF, EINVAL} : Fail("lseek", fd, e)
  BY <1>2, FailInv, Errnos
<1>3. CASE /\ fd > 2 /\ Used(fd) /\ w \in 0 .. 2
           /\ LET new_pos == saturating_add(SeekBase(FD_TABLE[fd], w), off)
              IN /\ new_pos >= 0
                 /\ Put(fd, [FD_TABLE[fd] EXCEPT !.pos = new_pos],
                            IF Kind(fd) = "RootDir" THEN SeekedScan ELSE scan[fd])
                 /\ Return("lseek", fd, new_pos)
  <2> DEFINE e == FD_TABLE[fd]
             new_pos == saturating_add(SeekBase(e, w), off)
             s == IF Kind(fd) = "RootDir" THEN SeekedScan ELSE scan[fd]
  <2>1. fd \in Slots /\ fd \in FD_BASE .. MAX_FDS - 1 /\ e # Free
    BY <1>3, Constants DEF Used, Slots, FD_BASE, Kind, Free
  <2>2. SeekBase(e, w) \in Int
    <3>1. CASE \E p \in Positions : e = RootDir(p)
      BY <1>3, <3>1, Constants, FdAssumption DEF SeekBase, RootDir, Positions, root_entries_count
    <3>2. CASE \E r \in 1 .. file_count, p \in Positions : e = File(r, p)
      BY <1>3, <3>2, Constants, FdAssumption DEF SeekBase, File, Positions
    <3> QED BY <2>1, <3>1, <3>2, EntryShape DEF FdInv
  <2>3. new_pos \in Int /\ new_pos >= 0 /\ new_pos <= ISIZE_MAX
    <3>1. new_pos >= 0
      BY <1>3
    <3> HIDE DEF e
    <3> QED BY <2>2, <3>1, FdAssumption DEF saturating_add
  <2> HIDE DEF new_pos
  <2>4. new_pos \in Positions
    BY <2>3, FdAssumption DEF Positions
  <2>5. /\ [e EXCEPT !.pos = new_pos] \in FdEntries
        /\ ScanFits([e EXCEPT !.pos = new_pos], s) /\ s \in Scans
    <3>1. CASE \E p \in Positions : e = RootDir(p)
      <4>1. Kind(fd) = "RootDir" /\ [e EXCEPT !.pos = new_pos] = RootDir(new_pos)
        BY <3>1 DEF RootDir, Kind
      <4>2. s = SeekedScan
        BY <4>1
      <4>3. RootDir(new_pos) \in FdEntries /\ ScanFits(RootDir(new_pos), SeekedScan)
        BY <2>4 DEF FdEntries, ScanFits, SeekedScan
      <4> QED BY <4>1, <4>2, <4>3, FreshEntries
    <3>2. CASE \E r \in 1 .. file_count, p \in Positions : e = File(r, p)
      <4>1. PICK r \in 1 .. file_count, p \in Positions : e = File(r, p)
        BY <3>2
      <4>2. Kind(fd) = "File" /\ [e EXCEPT !.pos = new_pos] = File(r, new_pos)
        BY <4>1 DEF File, Kind
      <4>3. s = scan[fd] /\ s \in Scans
        BY <2>1, <4>2, EntryShape DEF FdInv
      <4>4. File(r, new_pos) \in FdEntries /\ ScanFits(File(r, new_pos), s)
        BY <2>4 DEF FdEntries, ScanFits, File
      <4> QED BY <4>2, <4>3, <4>4
    <3> QED BY <2>1, <3>1, <3>2, EntryShape DEF FdInv
  <2>6. call' \in Calls
    <3>1. Return("lseek", fd, new_pos)
      BY <1>3 DEF new_pos
    <3> QED BY <2>3, <3>1, CallType DEF Return
  <2>7. Put(fd, [e EXCEPT !.pos = new_pos], s)
    BY <1>3 DEF new_pos
  <2> HIDE DEF e, s
  <2> QED BY <2>1, <2>5, <2>6, <2>7, PutInv
<1> QED BY <1>1, <1>2, <1>3 DEF sys_lseek

LEMMA StatInv ==
  ASSUME FdInv, NEW p, NEW stat, sys_stat_path(p, stat)
  PROVE  FdInv'
<1>1. "stat" \in CallNames /\ 0 \in Int /\ -EFAULT \in Int
  BY Errnos DEF CallNames
<1>2. PICK r \in Int : Return("stat", 0, r) /\ Keep
  BY <1>1, AnswerTypes DEF sys_stat_path
<1> QED BY <1>1, <1>2, QueryInv

LEMMA FstatInv ==
  ASSUME FdInv, NEW fd \in Int, NEW stat, sys_fstat(fd, stat)
  PROVE  FdInv'
<1>1. "fstat" \in CallNames /\ -EFAULT \in Int
  BY Errnos DEF CallNames
<1>2. PICK r \in Int : Return("fstat", fd, r) /\ Keep
  BY <1>1, AnswerTypes DEF sys_fstat
<1> QED BY <1>1, <1>2, QueryInv

LEMMA NewfstatatInv ==
  ASSUME FdInv, NEW d \in Int, NEW p, NEW stat, NEW e, sys_newfstatat(d, p, stat, e)
  PROVE  FdInv'
<1>1. "newfstatat" \in CallNames /\ -EFAULT \in Int /\ -EBADF \in Int /\ 0 \in Int
  BY Errnos DEF CallNames
<1>2. PICK r \in Int : Return("newfstatat", d, r) /\ Keep
  <2>1. (CASE d = AT_FDCWD -> 0
           [] d # AT_FDCWD /\ d < 0 -> -EBADF
           [] OTHER -> FstatResult(d)) \in Int
    BY <1>1, AnswerTypes
  <2>2. (IF is_dirfd_ok(d) THEN StatResult(p) ELSE -EBADF) \in Int
    BY <1>1, AnswerTypes
  <2> QED BY <1>1, <2>1, <2>2 DEF sys_newfstatat
<1> QED BY <1>1, <1>2, QueryInv

\* ScanFits for a directory, spelled out.
LEMMA ScanFitsRootDir ==
  ASSUME NEW q, NEW s,
         ~s.seeked => /\ q <= root_entries_count
                      /\ \A j \in 0 .. q - 1 : DirEntryOk(j)
                      /\ s.names = {DirName(j) : j \in 0 .. q - 1}
  PROVE  ScanFits(RootDir(q), s)
BY DEF ScanFits, RootDir

\* The k records that follow the listed ones extend the listing by k names.
LEMMA EmitInv ==
  ASSUME FdInv, NEW fd \in FD_BASE .. MAX_FDS - 1, Kind(fd) = "RootDir",
         FD_TABLE[fd].pos < root_entries_count,
         NEW k \in 0 .. root_entries_count - FD_TABLE[fd].pos,
         \A j \in FD_TABLE[fd].pos .. FD_TABLE[fd].pos + k - 1 : DirEntryOk(j),
         EmitRecords(fd, k), call' \in Calls
  PROVE  FdInv'
<1>1. fd \in Slots
  BY Constants DEF Slots, FD_BASE
<1>2. PICK p \in Positions : FD_TABLE[fd] = RootDir(p)
  <2>1. FD_TABLE[fd] # Free /\ \A r, p : FD_TABLE[fd] # File(r, p)
    BY DEF Free, File, Kind
  <2> QED BY <1>1, <2>1, EntryShape DEF FdInv
<1>3. FD_TABLE[fd].pos = p /\ p \in Nat /\ root_entries_count \in Nat
  BY <1>2, Constants, FdAssumption DEF RootDir, Positions, root_entries_count
<1>4. k \in Nat /\ p + k <= root_entries_count /\ p + k \in Positions
  BY <1>3, Constants, FdAssumption DEF Positions, root_entries_count
<1>5. RootDir(p + k) \in FdEntries
  BY <1>4 DEF FdEntries
<1> DEFINE more == {DirName(j) : j \in p .. p + k - 1}
           s == IF scan[fd].seeked THEN scan[fd] ELSE [scan[fd] EXCEPT !.names = @ \cup more]
<1>6. scan[fd] \in Scans
  BY <1>1, EntryShape DEF FdInv
<1>7. more \in SUBSET ListedNames
  <2> SUFFICES ASSUME NEW j \in p .. p + k - 1 PROVE DirName(j) \in ListedNames
    OBVIOUS
  <2>1. j \in Nat /\ j < root_entries_count
    BY <1>3, <1>4
  <2>2. CASE j < 2
    BY <2>1, <2>2 DEF DirName, ListedNames
  <2>3. CASE j >= 2
    <3>1. j - 1 \in 1 .. file_count
      BY <2>1, <2>3, Constants DEF root_entries_count
    <3> QED BY <2>1, <2>3, <3>1 DEF DirName, ListedNames
  <2> QED BY <2>1, <2>2, <2>3
<1>8. s \in Scans
  BY <1>6, <1>7 DEF Scans
<1> HIDE DEF s
<1> DEFINE q == p + k
<1>9. ScanFits(RootDir(q), s)
  <2> HIDE DEF q
  <2>1. ASSUME ~s.seeked
        PROVE  /\ q <= root_entries_count
               /\ \A j \in 0 .. q - 1 : DirEntryOk(j)
               /\ s.names = {DirName(j) : j \in 0 .. q - 1}
    <3>1. ~scan[fd].seeked /\ s = [scan[fd] EXCEPT !.names = @ \cup more]
      BY <1>6, <2>1 DEF Scans, s
    <3>2. ScanFits(RootDir(p), scan[fd])
      BY <1>1, <1>2 DEF FdInv, ListedPrefix
    <3>3. /\ \A j \in 0 .. p - 1 : DirEntryOk(j)
          /\ scan[fd].names = {DirName(j) : j \in 0 .. p - 1}
      BY <3>1, <3>2 DEF ScanFits, RootDir
    <3>4. 0 .. q - 1 = (0 .. p - 1) \cup (p .. p + k - 1)
      BY <1>3, <1>4 DEF q
    <3>5. \A j \in 0 .. q - 1 : DirEntryOk(j)
      BY <1>3, <3>3, <3>4
    <3>6. s.names = scan[fd].names \cup more
      BY <1>6, <3>1 DEF Scans
    <3>7. {DirName(j) : j \in 0 .. q - 1} = {DirName(j) : j \in 0 .. p - 1} \cup more
      BY <3>4, Zenon
    <3>8. q <= root_entries_count
      BY <1>4 DEF q
    <3> QED BY <3>3, <3>5, <3>6, <3>7, <3>8, Zenon
  <2> QED BY <2>1, ScanFitsRootDir
<1>10. Put(fd, RootDir(p + k), s)
  BY <1>3 DEF EmitRecords, s
<1> QED BY <1>5, <1>8, <1>9, <1>10, PutInv

LEMMA GetdentsInv ==
  ASSUME FdInv, NEW fd \in Fds, NEW dirp, NEW count \in Nat, sys_getdents64(fd, dirp, count)
  PROVE  FdInv'
<1> "getdents64" \in CallNames /\ fd \in Int
  BY Constants DEF CallNames, Fds
<1>1. CASE \E e \in {EFAULT, EBADF, ENOTDIR, EINVAL} : Fail("getdents64", fd, e)
  BY <1>1, FailInv, Errnos
<1>2. CASE Return("getdents64", fd, 0) /\ Keep
  BY <1>2, QueryInv
<1>3. CASE /\ InTable(fd) /\ Kind(fd) = "RootDir"
           /\ FD_TABLE[fd].pos < root_entries_count
           /\ \E k \in 0 .. root_entries_count - FD_TABLE[fd].pos :
                /\ Emits(FD_TABLE[fd].pos, k, count)
                /\ EmitRecords(fd, k)
                /\ Return("getdents64", fd, Written(FD_TABLE[fd].pos, k))
  <2> DEFINE p == FD_TABLE[fd].pos
  <2>1. PICK k \in 0 .. root_entries_count - p :
          Emits(p, k, count) /\ EmitRecords(fd, k) /\ Return("getdents64", fd, Written(p, k))
    BY <1>3
  <2>2. fd \in FD_BASE .. MAX_FDS - 1
    <3>1. fd \in Slots
      BY <1>3, Constants DEF InTable, Fds, Slots
    <3>2. fd \notin 0 .. FD_BASE - 1
      BY <1>3 DEF FdInv, StdSlotsFree, Free, Kind
    <3> QED BY <3>1, <3>2, Constants DEF Slots, FD_BASE
  <2>3. Written(p, k) \in Int
    <3>1. Written(p, k) \in 24 * k .. count
      BY <2>1 DEF Emits
    <3> QED BY <3>1
  <2>4. call' \in Calls
    BY <2>1, <2>3, CallType DEF Return
  <2>5. \A j \in p .. p + k - 1 : DirEntryOk(j)
    BY <2>1 DEF Emits
  <2> QED BY <1>3, <2>1, <2>2, <2>4, <2>5, EmitInv
<1> QED BY <1>1, <1>2, <1>3 DEF sys_getdents64

LEMMA GetcwdInv ==
  ASSUME FdInv, NEW buf, NEW size, sys_getcwd(buf, size)
  PROVE  FdInv'
<1>1. "getcwd" \in CallNames /\ -EINVAL \in Int /\ -ERANGE \in Int /\ 0 \in Int /\ 1 \in Int
  BY Errnos DEF CallNames
<1>2. PICK r \in Int : Return("getcwd", 0, r) /\ Keep
  BY <1>1 DEF sys_getcwd
<1> QED BY <1>1, <1>2, QueryInv

LEMMA ChdirInv ==
  ASSUME FdInv, NEW p, sys_chdir(p)
  PROVE  FdInv'
<1> "chdir" \in CallNames /\ 0 \in Int
  BY DEF CallNames
<1>1. CASE \E e \in {EFAULT, ENOENT} : Fail("chdir", 0, e)
  BY <1>1, FailInv, Errnos
<1>2. CASE CWD' = "/" /\ Return("chdir", 0, 0) /\ UNCHANGED <<ROOTFS, FD_TABLE, scan>>
  <2>1. call' \in Calls
    BY <1>2, CallType DEF Return
  <2>2. FdTypeOK'
    BY <1>2, <2>1 DEF FdInv, FdTypeOK, TableOK, CallOK
  <2>3. StdSlotsFree' /\ ListedPrefix'
    BY <1>2 DEF FdInv, StdSlotsFree, ListedPrefix, ScanFits, root_entries_count, DirEntryOk
  <2> QED BY <2>2, <2>3 DEF FdInv
<1> QED BY <1>1, <1>2 DEF sys_chdir

LEMMA AccessInv ==
  ASSUME FdInv, NEW p, sys_access(p)
  PROVE  FdInv'
<1>1. "access" \in CallNames /\ -EFAULT \in Int /\ -ENOENT \in Int /\ 0 \in Int
  BY Errnos DEF CallNames
<1>2. PICK r \in Int : Return("access", 0, r) /\ Keep
  BY <1>1 DEF sys_access
<1> QED BY <1>1, <1>2, QueryInv

LEMMA ReadlinkInv ==
  ASSUME FdInv, NEW p, NEW buf, NEW n \in Nat, sys_readlink(p, buf, n)
  PROVE  FdInv'
<1>1. "readlink" \in CallNames /\ -EFAULT \in Int /\ -ENOENT \in Int /\ -EINVAL \in Int /\ 0 \in Int
  BY Errnos DEF CallNames
<1>2. Min({ExeLinkLen, n}) \in Int
  BY MinOfTwo DEF ExeLinkLen
<1>3. PICK r \in Int : Return("readlink", 0, r) /\ Keep
  BY <1>1, <1>2 DEF sys_readlink
<1> QED BY <1>1, <1>3, QueryInv

LEMMA DupInv ==
  ASSUME FdInv, NEW fd \in Int, sys_dup(fd)
  PROVE  FdInv'
<1> "dup" \in CallNames
  BY DEF CallNames
<1>1. CASE Return("dup", fd, fd) /\ Keep
  BY <1>1, QueryInv
<1>2. CASE Fail("dup", fd, EBADF)
  BY <1>2, FailInv, Errnos
<1>3. CASE Used(fd) /\ alloc_fd("dup", fd, FD_TABLE[fd], scan[fd])
  <2>1. fd \in Slots
    BY <1>3 DEF Used
  <2>2. FD_TABLE[fd] \in FdEntries /\ scan[fd] \in Scans /\ ScanFits(FD_TABLE[fd], scan[fd])
    BY <2>1, EntryShape DEF FdInv, ListedPrefix
  <2> QED BY <1>3, <2>2, AllocInv
<1> QED BY <1>1, <1>2, <1>3 DEF sys_dup

LEMMA Dup2Inv ==
  ASSUME FdInv, NEW oldfd \in Int, NEW newfd \in Int, sys_dup2(oldfd, newfd)
  PROVE  FdInv'
<1> "dup2" \in CallNames
  BY DEF CallNames
<1>1. CASE Return("dup2", newfd, newfd) /\ Keep
  BY <1>1, QueryInv
<1>2. CASE Fail("dup2", newfd, EBADF)
  BY <1>2, FailInv, Errnos
<1>3. CASE /\ newfd \in FD_BASE .. MAX_FDS - 1 /\ Used(oldfd)
           /\ Put(newfd, FD_TABLE[oldfd], scan[oldfd]) /\ Return("dup2", newfd, newfd)
  <2>1. oldfd \in Slots
    BY <1>3 DEF Used
  <2>2. /\ FD_TABLE[oldfd] \in FdEntries /\ scan[oldfd] \in Scans
        /\ ScanFits(FD_TABLE[oldfd], scan[oldfd])
    BY <2>1, EntryShape DEF FdInv, ListedPrefix
  <2>3. call' \in Calls
    BY <1>3, CallType DEF Return
  <2> QED BY <1>3, <2>2, <2>3, PutInv
<1> QED BY <1>1, <1>2, <1>3 DEF sys_dup2

LEMMA SetRootfsInv ==
  ASSUME FdInv, set_rootfs
  PROVE  FdInv'
<1>1. call' \in Calls
  BY CallType DEF set_rootfs, Return, CallNames
<1>2. FdTypeOK'
  BY <1>1, FreshEntries DEF set_rootfs, FdTypeOK, TableOK, CallOK
<1>3. StdSlotsFree'
  BY Constants DEF set_rootfs, StdSlotsFree, Slots, FD_BASE
<1>4. ListedPrefix'
  BY DEF set_rootfs, ListedPrefix, ScanFits, Free
<1> QED BY <1>2, <1>3, <1>4 DEF FdInv

LEMMA InitFdInv == FdInit => FdInv
<1> SUFFICES ASSUME FdInit PROVE FdInv
  OBVIOUS
<1>1. FdTypeOK
  <2>1. call \in Calls
    <3>1. "none" \in CallNames
      BY DEF CallNames
    <3>2. call = [nr |-> "none", fd |-> 0, ret |-> 0, from |-> 0]
      BY DEF FdInit
    <3> QED BY <3>1, <3>2 DEF Calls
  <2>2. FD_TABLE \in [Slots -> FdEntries] /\ scan \in [Slots -> Scans]
    BY FreshEntries DEF FdInit
  <2> QED BY <2>1, <2>2 DEF FdInit, FdTypeOK, TableOK, CallOK
<1>2. StdSlotsFree
  <2>1. \A i \in 0 .. FD_BASE - 1 : i \in Slots
    BY Constants DEF Slots, FD_BASE
  <2> QED BY <2>1 DEF FdInit, StdSlotsFree
<1>3. ListedPrefix
  BY DEF FdInit, ListedPrefix, ScanFits, Free
<1> QED BY <1>1, <1>2, <1>3 DEF FdInv

LEMMA NextFdInv == FdInv /\ [FdNext]_fd_vars => FdInv'
<1> SUFFICES ASSUME FdInv, [FdNext]_fd_vars PROVE FdInv'
  OBVIOUS
<1>1. (\A fd \in Fds : fd \in Int) /\ (\A d \in DirFds : d \in Int)
  BY Constants DEF Fds, DirFds, AT_FDCWD
<1>2. Counts \subseteq Nat /\ Offsets \subseteq Int
  BY FdAssumption
<1>3. CASE UNCHANGED fd_vars
  BY <1>3, KeepInv DEF fd_vars, FdInv, FdTypeOK, CallOK, Keep
<1> QED BY <1>1, <1>2, <1>3, OpenatInv, ReadInv, WriteInv, CloseInv, LseekInv, StatInv, FstatInv,
           NewfstatatInv, GetdentsInv, GetcwdInv, ChdirInv, AccessInv, ReadlinkInv, DupInv,
           Dup2Inv, SetRootfsInv DEF FdNext, FdSyscall
-----------------------------------------------------------------------------
(* The theorems *)

\* The table, the listings and the last call are consistent in every state.
THEOREM FdInvariant == FdSpec => []FdInv
BY InitFdInv, NextFdInv, PTL DEF FdSpec

\* Every descriptor keeps a position between 0 and isize::MAX, every file
\* descriptor a record of the image, and every call returns an isize.
THEOREM FdTypeCorrect == FdSpec => []FdTypeOK
<1>1. FdInv => FdTypeOK
  BY DEF FdInv
<1> QED BY <1>1, FdInvariant, PTL

\* No call ever fills the slots of the standard streams.
THEOREM StdSlotsStayFree == FdSpec => []StdSlotsFree
<1>1. FdInv => StdSlotsFree
  BY DEF FdInv
<1> QED BY <1>1, FdInvariant, PTL

\* A call records its own name.
LEMMA WhoCalled ==
  /\ set_rootfs => call'.nr = "set_rootfs"
  /\ \A d, p, dir : sys_openat(d, p, dir) => call'.nr = "openat"
  /\ \A fd, n : sys_write(fd, n) => call'.nr = "write"
  /\ \A fd : sys_close(fd) => call'.nr = "close" /\ call'.fd = fd
  /\ \A fd, off, w : sys_lseek(fd, off, w) => call'.nr = "lseek" /\ call'.fd = fd
  /\ \A p, stat : sys_stat_path(p, stat) => call'.nr = "stat"
  /\ \A fd, stat : sys_fstat(fd, stat) => call'.nr = "fstat"
  /\ \A d, p, stat, e : sys_newfstatat(d, p, stat, e) => call'.nr = "newfstatat"
  /\ \A fd, dirp, n : sys_getdents64(fd, dirp, n) => call'.nr = "getdents64" /\ call'.fd = fd
  /\ \A buf, n : sys_getcwd(buf, n) => call'.nr = "getcwd"
  /\ \A p : sys_chdir(p) => call'.nr = "chdir"
  /\ \A p : sys_access(p) => call'.nr = "access"
  /\ \A p, buf, n : sys_readlink(p, buf, n) => call'.nr = "readlink"
  /\ \A fd : sys_dup(fd) => call'.nr = "dup"
  /\ \A old, new : sys_dup2(old, new) => call'.nr = "dup2" /\ call'.fd = new
  /\ \A fd, buf, n : sys_read(fd, buf, n) => call'.nr = "read" /\ call'.fd = fd
<1>1. \A nr, fd, r : Return(nr, fd, r) => call'.nr = nr /\ call'.fd = fd
  BY DEF Return
<1>2. \A nr, fd, e : Fail(nr, fd, e) => call'.nr = nr /\ call'.fd = fd
  BY <1>1 DEF Fail
<1>3. \A nr, fd, e, s : alloc_fd(nr, fd, e, s) => call'.nr = nr /\ call'.fd = fd
  BY <1>1, <1>2 DEF alloc_fd
<1>4. /\ set_rootfs => call'.nr = "set_rootfs"
      /\ \A d, p, dir : sys_openat(d, p, dir) => call'.nr = "openat"
  BY <1>1, <1>2, <1>3 DEF set_rootfs, sys_openat
<1>5. /\ \A fd, n : sys_write(fd, n) => call'.nr = "write"
      /\ \A fd : sys_close(fd) => call'.nr = "close" /\ call'.fd = fd
      /\ \A fd, off, w : sys_lseek(fd, off, w) => call'.nr = "lseek" /\ call'.fd = fd
  BY <1>1, <1>2 DEF sys_write, sys_close, sys_lseek
<1>6. /\ \A p, stat : sys_stat_path(p, stat) => call'.nr = "stat"
      /\ \A fd, stat : sys_fstat(fd, stat) => call'.nr = "fstat"
      /\ \A d, p, stat, e : sys_newfstatat(d, p, stat, e) => call'.nr = "newfstatat"
  BY <1>1 DEF sys_stat_path, sys_fstat, sys_newfstatat
<1>7. \A fd, dirp, n : sys_getdents64(fd, dirp, n) => call'.nr = "getdents64" /\ call'.fd = fd
  BY <1>1, <1>2 DEF sys_getdents64
<1>8. /\ \A buf, n : sys_getcwd(buf, n) => call'.nr = "getcwd"
      /\ \A p : sys_chdir(p) => call'.nr = "chdir"
      /\ \A p : sys_access(p) => call'.nr = "access"
      /\ \A p, buf, n : sys_readlink(p, buf, n) => call'.nr = "readlink"
  BY <1>1, <1>2 DEF sys_getcwd, sys_chdir, sys_access, sys_readlink
<1>9. /\ \A fd : sys_dup(fd) => call'.nr = "dup"
      /\ \A old, new : sys_dup2(old, new) => call'.nr = "dup2" /\ call'.fd = new
  BY <1>1, <1>2, <1>3 DEF sys_dup, sys_dup2
<1>10. \A fd, buf, n : sys_read(fd, buf, n) => call'.nr = "read" /\ call'.fd = fd
  BY <1>1, <1>2 DEF sys_read
<1> QED BY <1>4, <1>5, <1>6, <1>7, <1>8, <1>9, <1>10

\* A read that returns data has taken it from inside the file and moved the
\* position behind it.
LEMMA ReadStep ==
  ASSUME FdInv, NEW fd \in Fds, NEW buf, NEW len \in Nat, sys_read(fd, buf, len)
  PROVE  ReadInsideFile'
<1> SUFFICES ASSUME call'.fd >= FD_BASE, call'.ret > 0
             PROVE  /\ FD_TABLE'[call'.fd].kind = "File"
                    /\ call'.from + call'.ret <= Image[FD_TABLE'[call'.fd].rec].len
                    /\ FD_TABLE'[call'.fd].pos = call'.from + call'.ret
  BY DEF ReadInsideFile
<1>1. call'.fd = fd /\ fd > 2
  BY WhoCalled, Constants DEF FD_BASE, Fds
<1>2. \A e \in {EBADF, EFAULT, EISDIR} : ~Fail("read", fd, e)
  BY DEF Fail, Return, EBADF, EFAULT, EISDIR
<1>3. ~Return("read", fd, 0)
  BY DEF Return
<1> DEFINE n == ReadCount(FD_TABLE[fd], len)
<1>4. /\ InTable(fd) /\ Kind(fd) = "File" /\ FD_TABLE[fd].pos < Image[FD_TABLE[fd].rec].len
      /\ Put(fd, File(FD_TABLE[fd].rec, FD_TABLE[fd].pos + n), scan[fd])
      /\ call' = [nr |-> "read", fd |-> fd, ret |-> n, from |-> FD_TABLE[fd].pos]
  BY <1>1, <1>2, <1>3 DEF sys_read
<1>5. fd \in Slots
  BY <1>1, <1>4, Constants DEF InTable, Fds, Slots
<1>6. PICK r \in 1 .. file_count, pos \in Positions : FD_TABLE[fd] = File(r, pos)
  <2>1. FD_TABLE[fd] # Free /\ \A p : FD_TABLE[fd] # RootDir(p)
    BY <1>4 DEF Free, RootDir, Kind
  <2> QED BY <1>5, <2>1, EntryShape DEF FdInv
<1>7. FD_TABLE[fd].rec = r /\ FD_TABLE[fd].pos = pos
  BY <1>6 DEF File
<1>8. pos \in Nat /\ Image[r].len \in Nat /\ pos < Image[r].len
  BY <1>4, <1>7, Constants, FdAssumption DEF Positions
<1>9. n \in Nat /\ pos + n <= Image[r].len
  <2>1. Image[r].len - pos \in Nat
    BY <1>8
  <2>2. n = Min({len, Image[r].len - pos})
    BY <1>7 DEF ReadCount
  <2>3. n \in Nat /\ n <= Image[r].len - pos
    BY <2>1, <2>2, MinOfTwo
  <2> HIDE DEF n
  <2> QED BY <1>8, <2>3
<1> HIDE DEF n
<1>10. FD_TABLE'[fd] = File(r, pos + n)
  BY <1>4, <1>5, <1>7 DEF Put, FdInv, FdTypeOK, TableOK
<1>11. FD_TABLE'[fd].kind = "File" /\ FD_TABLE'[fd].rec = r /\ FD_TABLE'[fd].pos = pos + n
  BY <1>10 DEF File
<1>12. call'.fd = fd /\ call'.ret = n /\ call'.from = pos
  BY <1>4, <1>7
<1> QED BY <1>9, <1>11, <1>12

\* A read never copies bytes from outside the file, wherever lseek has put the
\* position before.
THEOREM ReadsStayInside == FdSpec => []ReadInsideFile
<1>1. FdInit => ReadInsideFile
  <2> SUFFICES ASSUME FdInit PROVE ReadInsideFile
    OBVIOUS
  <2>1. call = [nr |-> "none", fd |-> 0, ret |-> 0, from |-> 0]
    BY DEF FdInit
  <2>2. call.nr # "read"
    BY <2>1
  <2> QED BY <2>2 DEF ReadInsideFile
<1>2. FdInv /\ ReadInsideFile /\ [FdNext]_fd_vars => ReadInsideFile'
  <2> SUFFICES ASSUME FdInv, ReadInsideFile, [FdNext]_fd_vars PROVE ReadInsideFile'
    OBVIOUS
  <2>1. CASE UNCHANGED fd_vars
    BY <2>1 DEF fd_vars, ReadInsideFile
  <2>2. CASE \E fd \in Fds, buf \in BOOLEAN, n \in Counts : sys_read(fd, buf, n)
    BY <2>2, ReadStep, FdAssumption
  <2>3. CASE call'.nr # "read"
    BY <2>3 DEF ReadInsideFile
  <2> QED BY <2>1, <2>2, <2>3, WhoCalled DEF FdNext, FdSyscall
<1> QED BY <1>1, <1>2, FdInvariant, PTL DEF FdSpec

\* A call that keeps the table, replaces one slot, or allocates one changes no
\* other descriptor in use.
LEMMA KeepsOthers ==
  ASSUME FdInv, NEW i \in Slots, FD_TABLE[i] # Free
  PROVE  /\ Keep => FD_TABLE'[i] = FD_TABLE[i]
         /\ \A nr, fd, e : Fail(nr, fd, e) => FD_TABLE'[i] = FD_TABLE[i]
         /\ \A j, e, s : Put(j, e, s) /\ j # i => FD_TABLE'[i] = FD_TABLE[i]
         /\ \A nr, fd, e, s : alloc_fd(nr, fd, e, s) => FD_TABLE'[i] = FD_TABLE[i]
<1>1. Keep => FD_TABLE'[i] = FD_TABLE[i]
  BY DEF Keep
<1>2. \A nr, fd, e : Fail(nr, fd, e) => FD_TABLE'[i] = FD_TABLE[i]
  BY <1>1 DEF Fail
<1>3. \A j, e, s : Put(j, e, s) /\ j # i => FD_TABLE'[i] = FD_TABLE[i]
  BY DEF Put, FdInv, FdTypeOK, TableOK
<1>4. Kind(i) # "Free"
  <2>1. CASE \E p \in Positions : FD_TABLE[i] = RootDir(p)
    BY <2>1 DEF Kind, RootDir
  <2>2. CASE \E r \in 1 .. file_count, p \in Positions : FD_TABLE[i] = File(r, p)
    BY <2>2 DEF Kind, File
  <2> QED BY <2>1, <2>2, EntryShape DEF FdInv
<1>5. \A nr, fd, e, s : alloc_fd(nr, fd, e, s) => FD_TABLE'[i] = FD_TABLE[i]
  <2> SUFFICES ASSUME NEW nr, NEW fd, NEW e, NEW s, alloc_fd(nr, fd, e, s)
               PROVE  FD_TABLE'[i] = FD_TABLE[i]
    OBVIOUS
  <2>1. CASE \E j \in FD_BASE .. MAX_FDS - 1 : Kind(j) = "Free" /\ Put(j, e, s)
    BY <1>3, <1>4, <2>1
  <2>2. CASE Fail(nr, fd, EBUSY)
    BY <1>2, <2>2
  <2> QED BY <2>1, <2>2 DEF alloc_fd
<1> QED BY <1>1, <1>2, <1>3, <1>5

\* Whatever a program does, the object and the offset behind a descriptor change
\* only in a call that names the descriptor, or when the image is mounted again.
THEOREM DescriptorsKeepTheirOwn == FdSpec => ChangedOnlyByOwnCalls
<1> DEFINE Own(i) == \/ call'.nr = "set_rootfs"
                     \/ call'.fd = i /\ call'.nr \in {"read", "lseek", "getdents64", "close", "dup2"}
           Change == \A i \in Slots : FD_TABLE[i] # Free /\ FD_TABLE'[i] # FD_TABLE[i] => Own(i)
<1>1. FdInv /\ [FdNext]_fd_vars => [Change]_fd_vars
  <2> SUFFICES ASSUME FdInv, FdNext, NEW i \in Slots, FD_TABLE[i] # Free, FD_TABLE'[i] # FD_TABLE[i]
               PROVE  Own(i)
    OBVIOUS
  <2> DEFINE Quiet == FD_TABLE'[i] = FD_TABLE[i]
  <2>1. \A d, p, dir : sys_openat(d, p, dir) => Quiet
    BY KeepsOthers DEF sys_openat
  <2>2. \A fd, n : sys_write(fd, n) => Quiet
    BY KeepsOthers DEF sys_write
  <2>3. /\ \A p, stat : sys_stat_path(p, stat) => Quiet
        /\ \A fd, stat : sys_fstat(fd, stat) => Quiet
        /\ \A d, p, stat, e : sys_newfstatat(d, p, stat, e) => Quiet
    BY KeepsOthers DEF sys_stat_path, sys_fstat, sys_newfstatat
  <2>4. /\ \A buf, n : sys_getcwd(buf, n) => Quiet
        /\ \A p : sys_chdir(p) => Quiet
        /\ \A p : sys_access(p) => Quiet
        /\ \A p, buf, n : sys_readlink(p, buf, n) => Quiet
    BY KeepsOthers DEF sys_getcwd, sys_chdir, sys_access, sys_readlink
  <2>5. \A fd : sys_dup(fd) => Quiet
    BY KeepsOthers DEF sys_dup
  <2>6. \A fd : sys_close(fd) => fd = i \/ Quiet
    BY KeepsOthers DEF sys_close
  <2>7. \A fd, buf, n : sys_read(fd, buf, n) => fd = i \/ Quiet
    BY KeepsOthers DEF sys_read
  <2>8. \A fd, off, w : sys_lseek(fd, off, w) => fd = i \/ Quiet
    BY KeepsOthers DEF sys_lseek
  <2>9. \A fd, dirp, n : sys_getdents64(fd, dirp, n) => fd = i \/ Quiet
    BY KeepsOthers DEF sys_getdents64, EmitRecords
  <2>10. \A old, new : sys_dup2(old, new) => new = i \/ Quiet
    BY KeepsOthers DEF sys_dup2
  <2> QED BY <2>1, <2>2, <2>3, <2>4, <2>5, <2>6, <2>7, <2>8, <2>9, <2>10, WhoCalled DEF FdNext, FdSyscall
<1> QED BY <1>1, FdInvariant, PTL DEF FdSpec, ChangedOnlyByOwnCalls

\* A listing that reached the end of the table, or an entry that does not decode,
\* holds exactly the names a search can still find.
LEMMA FullListing ==
  ASSUME NEW p \in Nat, p <= root_entries_count, ROOTFS \in BOOLEAN,
         \A j \in 0 .. p - 1 : DirEntryOk(j),
         p = root_entries_count \/ ~DirEntryOk(p)
  PROVE  {DirName(j) : j \in 0 .. p - 1} = {".", ".."} \cup Openable
<1>1. p >= 2
  <2>1. DirEntryOk(0) /\ DirEntryOk(1) /\ root_entries_count >= 2
    BY Constants DEF DirEntryOk, root_entries_count
  <2> QED BY <2>1, Constants DEF root_entries_count
<1>2. DirName(0) = "." /\ DirName(1) = ".."
  BY DEF DirName
<1>3. \A i \in 1 .. file_count : ROOTFS => (reachable(i) <=> i < p - 1)
  <2> SUFFICES ASSUME NEW i \in 1 .. file_count, ROOTFS PROVE reachable(i) <=> i < p - 1
    OBVIOUS
  <2>1. root_entries_count = file_count + 2
    BY DEF root_entries_count
  <2>2. ASSUME i < p - 1 PROVE reachable(i)
    <3> SUFFICES ASSUME NEW j \in 1 .. i PROVE entry_ok(j)
      BY DEF reachable
    <3>1. j + 1 \in 0 .. p - 1 /\ j + 1 >= 2 /\ (j + 1) - 1 = j
      BY <2>2, Constants
    <3> QED BY <3>1 DEF DirEntryOk
  <2>3. ASSUME i >= p - 1 PROVE ~reachable(i)
    <3>1. p # root_entries_count
      BY <2>1, <2>3, Constants
    <3>2. ~entry_ok(p - 1)
      BY <1>1, <3>1 DEF DirEntryOk
    <3>3. p - 1 \in 1 .. i
      BY <1>1, <2>3, Constants
    <3> QED BY <3>2, <3>3 DEF reachable
  <2> QED BY <2>2, <2>3, Constants
<1>4. \A i \in 1 .. file_count : i < p - 1 /\ ROOTFS => Image[i].name # ""
  <2> SUFFICES ASSUME NEW i \in 1 .. file_count, i < p - 1, ROOTFS PROVE Image[i].name # ""
    OBVIOUS
  <2>1. entry_ok(i)
    BY <1>3, Constants DEF reachable
  <2> QED BY <2>1, ImageAssumption DEF entry_ok, file_count
<1>5. \A n : /\ OpensRoot(Text("", <<n>>)) <=> n \in {".", "..", ""}
             /\ ~Nested(Text("", <<n>>)) /\ normalize_path(Text("", <<n>>)) = n
  <2> SUFFICES ASSUME NEW n
               PROVE  /\ OpensRoot(Text("", <<n>>)) <=> n \in {".", "..", ""}
                      /\ ~Nested(Text("", <<n>>)) /\ normalize_path(Text("", <<n>>)) = n
    OBVIOUS
  <2>1. Len(<<n>>) = 1 /\ Head(<<n>>) = n /\ <<n>> # <<>>
    OBVIOUS
  <2>2. ~Nested(Text("", <<n>>)) /\ normalize_path(Text("", <<n>>)) = n
    BY <2>1 DEF Nested, normalize_path, Text
  <2>3. Text("", <<n>>) \in RootNames \cup {DotDot} <=> n \in {".", ".."}
    BY <2>1 DEF RootNames, DotDot, EmptyPath, Text
  <2> QED BY <2>2, <2>3 DEF OpensRoot
<1>6. ASSUME NEW x \in {DirName(j) : j \in 0 .. p - 1} PROVE x \in {".", ".."} \cup Openable
  <2>1. PICK j \in 0 .. p - 1 : x = DirName(j)
    BY <1>6
  <2>2. CASE j < 2
    BY <1>2, <2>1, <2>2
  <2>3. CASE j >= 2
    <3> DEFINE i == j - 1
    <3>1. ROOTFS /\ entry_ok(i) /\ x = Image[i].name /\ i < p - 1
      BY <2>1, <2>3 DEF DirEntryOk, DirName
    <3>2. i \in 1 .. file_count
      BY <3>1 DEF entry_ok
    <3>3. i \in hits(x) /\ x # ""
      BY <1>3, <1>4, <3>1, <3>2 DEF hits
    <3>4. x \in {".", ".."} \/ OpensFile(Text("", <<x>>))
      BY <1>5, <3>1, <3>3 DEF OpensFile, Found
    <3> HIDE DEF i
    <3> QED BY <3>1, <3>2, <3>4 DEF Openable
  <2> QED BY <2>1, <2>2, <2>3
<1>7. ASSUME NEW x \in Openable PROVE x \in {DirName(j) : j \in 0 .. p - 1}
  <2>1. ROOTFS /\ hits(x) # {}
    BY <1>5, <1>7 DEF Openable, OpensFile, Found
  <2>2. PICK i \in 1 .. file_count : reachable(i) /\ Image[i].name = x
    BY <2>1 DEF hits
  <2>3. i < p - 1
    BY <1>3, <2>1, <2>2
  <2>4. i + 1 \in 0 .. p - 1 /\ DirName(i + 1) = x
    BY <2>2, <2>3, Constants DEF DirName
  <2> QED BY <2>4
<1>8. {".", ".."} \subseteq {DirName(j) : j \in 0 .. p - 1}
  <2>1. 0 \in 0 .. p - 1 /\ 1 \in 0 .. p - 1
    BY <1>1
  <2> QED BY <1>2, <2>1
<1> QED BY <1>6, <1>7, <1>8

\* A getdents64 that returns 0 on a directory lseek never moved has listed
\* everything that can be opened.
LEMMA ListingEnds ==
  ASSUME FdInv, NEW fd \in Fds, NEW dirp, NEW count \in Nat, sys_getdents64(fd, dirp, count)
  PROVE  ScanListsOpenable'
<1> SUFFICES ASSUME call'.ret = 0, ~scan'[call'.fd].seeked
             PROVE  scan'[call'.fd].names = {".", ".."} \cup Openable'
  BY DEF ScanListsOpenable
<1>1. call'.fd = fd
  BY WhoCalled
<1>2. \A e \in {EFAULT, EBADF, ENOTDIR, EINVAL} : ~Fail("getdents64", fd, e)
  BY DEF Fail, Return, EFAULT, EBADF, ENOTDIR, EINVAL
<1> DEFINE p == FD_TABLE[fd].pos
           total == root_entries_count
<1>3. /\ InTable(fd) /\ Kind(fd) = "RootDir"
      /\ \/ p >= total /\ Keep
         \/ \E k \in 0 .. total - p :
              /\ p < total /\ Emits(p, k, count)
              /\ k > 0 \/ ~DirEntryOk(p)
              /\ EmitRecords(fd, k)
              /\ Return("getdents64", fd, Written(p, k))
  BY <1>2 DEF sys_getdents64
<1>4. fd \in Slots
  BY <1>3, Constants DEF InTable, Fds, Slots
<1>5. PICK q \in Positions : FD_TABLE[fd] = RootDir(q)
  <2>1. FD_TABLE[fd] # Free /\ \A r, x : FD_TABLE[fd] # File(r, x)
    BY <1>3 DEF Free, File, Kind
  <2> QED BY <1>4, <2>1, EntryShape DEF FdInv
<1>6. p = q /\ q \in Nat /\ total \in Nat /\ ROOTFS \in BOOLEAN
  <2>1. p = q
    BY <1>5 DEF RootDir
  <2>2. q \in Nat
    BY FdAssumption DEF Positions
  <2>3. ROOTFS \in BOOLEAN
    BY DEF FdInv, FdTypeOK, TableOK
  <2>4. total \in Nat
    BY Constants DEF root_entries_count
  <2> QED BY <2>1, <2>2, <2>3, <2>4
<1>7. scan'[fd] = scan[fd] /\ ROOTFS' = ROOTFS /\ (p >= total \/ ~DirEntryOk(p))
  <2>1. CASE p >= total /\ Keep
    BY <2>1 DEF Keep
  <2>2. CASE \E k \in 0 .. total - p :
              /\ p < total /\ Emits(p, k, count)
              /\ k > 0 \/ ~DirEntryOk(p)
              /\ EmitRecords(fd, k)
              /\ Return("getdents64", fd, Written(p, k))
    <3>1. PICK k \in 0 .. total - p :
              /\ Emits(p, k, count)
              /\ k > 0 \/ ~DirEntryOk(p)
              /\ EmitRecords(fd, k)
              /\ Return("getdents64", fd, Written(p, k))
      BY <2>2
    <3>2. Written(p, k) = 0
      BY <3>1 DEF Return
    <3>3. k = 0
      <4>1. 0 \in 24 * k .. count
        BY <3>1, <3>2 DEF Emits
      <4> QED BY <1>6, <4>1
    <3>4. ~DirEntryOk(p)
      BY <3>1, <3>3
    <3>5. {DirName(j) : j \in p .. p + k - 1} = {}
      <4>1. p .. p + k - 1 = {}
        BY <1>6, <3>3
      <4> QED BY <4>1
    <3>6. scan[fd] \in Scans
      BY <1>4, EntryShape DEF FdInv
    <3>7. [scan[fd] EXCEPT !.names = @ \cup {}] = scan[fd]
      BY <3>6 DEF Scans
    <3>8. Put(fd, RootDir(p + k), scan[fd])
      <4>1. EmitRecords(fd, k)
        BY <3>1
      <4> QED BY <4>1, <3>5, <3>7 DEF EmitRecords
    <3>9. scan' = [scan EXCEPT ![fd] = scan[fd]] /\ ROOTFS' = ROOTFS
      BY <3>8 DEF Put
    <3> QED BY <1>4, <3>4, <3>9 DEF FdInv, FdTypeOK, TableOK
  <2> QED BY <1>3, <2>1, <2>2
<1>8. ~scan[fd].seeked
  BY <1>1, <1>7
<1>9. ScanFits(RootDir(q), scan[fd])
  BY <1>4, <1>5 DEF FdInv, ListedPrefix
<1>10. /\ q <= root_entries_count
       /\ \A j \in 0 .. q - 1 : DirEntryOk(j)
       /\ scan[fd].names = {DirName(j) : j \in 0 .. q - 1}
  BY <1>8, <1>9 DEF ScanFits, RootDir
<1>11. q = root_entries_count \/ ~DirEntryOk(q)
  BY <1>6, <1>7, <1>10
<1>12. {DirName(j) : j \in 0 .. q - 1} = {".", ".."} \cup Openable
  BY <1>6, <1>10, <1>11, FullListing
<1>13. Openable' = Openable
  BY <1>7 DEF Openable, OpensFile, Found, OpensRoot
<1> QED BY <1>1, <1>7, <1>10, <1>12, <1>13

\* Listing the root directory, in however many calls and through whatever
\* duplicates, reports exactly the files that can be opened.
THEOREM ListingComplete == FdSpec => []ScanListsOpenable
<1>1. FdInit => ScanListsOpenable
  <2> SUFFICES ASSUME FdInit PROVE ScanListsOpenable
    OBVIOUS
  <2>1. call = [nr |-> "none", fd |-> 0, ret |-> 0, from |-> 0]
    BY DEF FdInit
  <2>2. call.nr # "getdents64"
    BY <2>1
  <2> QED BY <2>2 DEF ScanListsOpenable
<1>2. FdInv /\ ScanListsOpenable /\ [FdNext]_fd_vars => ScanListsOpenable'
  <2> SUFFICES ASSUME FdInv, ScanListsOpenable, [FdNext]_fd_vars PROVE ScanListsOpenable'
    OBVIOUS
  <2>1. CASE UNCHANGED fd_vars
    BY <2>1 DEF fd_vars, ScanListsOpenable, Openable, OpensFile, Found, OpensRoot
  <2>2. CASE \E fd \in Fds, dirp \in BOOLEAN, n \in Counts : sys_getdents64(fd, dirp, n)
    BY <2>2, ListingEnds, FdAssumption
  <2>3. CASE call'.nr # "getdents64"
    BY <2>3 DEF ScanListsOpenable
  <2> QED BY <2>1, <2>2, <2>3, WhoCalled DEF FdNext, FdSyscall
<1> QED BY <1>1, <1>2, FdInvariant, PTL DEF FdSpec
-----------------------------------------------------------------------------
(* The path walkers *)

\* The verdicts nest for every path, of any number of components and any spelling.
LEMMA VerdictsNest ==
  ASSUME NEW p
  PROVE  /\ Executes(p) => StatResult(p) = 0
         /\ StatResult(p) = 0 => path_exists(p)
         /\ path_exists(p) => OpensRoot(p) \/ OpensFile(p)
<1>1. -ENOENT # 0
  BY DEF ENOENT
<1>2. StatResult(p) = 0 <=> StatsRoot(p) \/ StatsFile(p)
  BY <1>1, Zenon DEF StatResult
<1>3. Executes(p) => StatsRoot(p) \/ StatsFile(p)
  BY Zenon DEF Executes, StatsFile
<1>4. StatsRoot(p) \/ StatsFile(p) => path_exists(p)
  BY Zenon DEF StatsRoot, StatsFile, path_exists
<1>5. path_exists(p) => OpensRoot(p) \/ OpensFile(p)
  BY Zenon DEF path_exists, OpensRoot, OpensFile
<1> QED BY <1>2, <1>3, <1>4, <1>5, Zenon

\* What execve runs stat accepts, what stat accepts access accepts, and what access
\* accepts openat opens, for every image, mounted or not.
THEOREM WalkersNest == FdSpec => []PathVerdictsNest
<1>1. PathVerdictsNest
  BY VerdictsNest, Zenon DEF PathVerdictsNest
<1> QED BY <1>1, PTL
-----------------------------------------------------------------------------
(* The descriptor layer under the kernel *)

\* A failing call changes nothing but its answer, and an allocation one slot.
LEMMA FailKeeps ==
  ASSUME NEW nr, NEW fd, NEW e, Fail(nr, fd, e)
  PROVE  UNCHANGED <<ROOTFS, FD_TABLE>>
BY DEF Fail, Keep

LEMMA AllocKeeps ==
  ASSUME NEW nr, NEW fd, NEW e, NEW s, alloc_fd(nr, fd, e, s)
  PROVE  ROOTFS' = ROOTFS
BY FailKeeps DEF alloc_fd, Put

\* No system call mounts or unmounts.
LEMMA ReadKeepsRootfs ==
  ASSUME NEW fd, NEW buf, NEW n, sys_read(fd, buf, n)
  PROVE  ROOTFS' = ROOTFS
BY FailKeeps DEF sys_read, Put, Keep

LEMMA SyscallKeepsRootfs ==
  ASSUME FdSyscall
  PROVE  ROOTFS' = ROOTFS
<1>1. ASSUME NEW d, NEW p, NEW dir, sys_openat(d, p, dir) PROVE ROOTFS' = ROOTFS
  BY <1>1, FailKeeps, AllocKeeps DEF sys_openat
<1>2. ASSUME NEW fd, NEW n, sys_write(fd, n) PROVE ROOTFS' = ROOTFS
  BY <1>2 DEF sys_write, Keep
<1>3. ASSUME NEW fd, sys_close(fd) PROVE ROOTFS' = ROOTFS
  BY <1>3, FailKeeps DEF sys_close, Keep, Put
<1>4. ASSUME NEW fd, NEW off, NEW w, sys_lseek(fd, off, w) PROVE ROOTFS' = ROOTFS
  BY <1>4, FailKeeps DEF sys_lseek, Keep, Put
<1>5. ASSUME NEW p, NEW stat, sys_stat_path(p, stat) PROVE ROOTFS' = ROOTFS
  BY <1>5 DEF sys_stat_path, Keep
<1>6. ASSUME NEW fd, NEW stat, sys_fstat(fd, stat) PROVE ROOTFS' = ROOTFS
  BY <1>6 DEF sys_fstat, Keep
<1>7. ASSUME NEW d, NEW p, NEW stat, NEW e, sys_newfstatat(d, p, stat, e) PROVE ROOTFS' = ROOTFS
  BY <1>7 DEF sys_newfstatat, Keep
<1>8. ASSUME NEW fd, NEW dirp, NEW n, sys_getdents64(fd, dirp, n) PROVE ROOTFS' = ROOTFS
  BY <1>8, FailKeeps DEF sys_getdents64, EmitRecords, Keep, Put
<1>9. ASSUME NEW buf, NEW n, sys_getcwd(buf, n) PROVE ROOTFS' = ROOTFS
  BY <1>9 DEF sys_getcwd, Keep
<1>10. ASSUME NEW p, sys_chdir(p) PROVE ROOTFS' = ROOTFS
  BY <1>10, FailKeeps DEF sys_chdir
<1>11. ASSUME NEW p, sys_access(p) PROVE ROOTFS' = ROOTFS
  BY <1>11 DEF sys_access, Keep
<1>12. ASSUME NEW p, NEW buf, NEW n, sys_readlink(p, buf, n) PROVE ROOTFS' = ROOTFS
  BY <1>12 DEF sys_readlink, Keep
<1>13. ASSUME NEW fd, sys_dup(fd) PROVE ROOTFS' = ROOTFS
  BY <1>13, FailKeeps, AllocKeeps DEF sys_dup, Keep
<1>14. ASSUME NEW oldfd, NEW newfd, sys_dup2(oldfd, newfd) PROVE ROOTFS' = ROOTFS
  BY <1>14, FailKeeps DEF sys_dup2, Keep, Put
<1>15. QED
  BY <1>1, <1>2, <1>3, <1>4, <1>5, <1>6, <1>7, <1>8, <1>9, <1>10, <1>11, <1>12, <1>13, <1>14
  DEF FdSyscall

\* The read that waited for the keyboard, and the openat of the shell's own test.
LEMMA StdinKeeps ==
  ASSUME NEW n, sys_read(0, TRUE, n)
  PROVE  UNCHANGED <<ROOTFS, FD_TABLE>>
BY DEF sys_read, Keep

LEMMA TestOpenKeeps ==
  ASSUME sys_openat(-1, BADSTR, FALSE)
  PROVE  UNCHANGED <<ROOTFS, FD_TABLE>>
<1>1. ~is_dirfd_ok(-1)
  BY DEF is_dirfd_ok, AT_FDCWD, Slots
<1>2. QED BY <1>1, FailKeeps DEF sys_openat
-----------------------------------------------------------------------------
(* The runners on the kernel's stack *)

\* A frame that has used up a turn.
LEMMA SpentFrames ==
  ASSUME frames \in Seq(Proc!Frames), Proc!CanStep
  PROVE  /\ Proc!Spent \in Seq(Proc!Frames) /\ Len(Proc!Spent) = Len(frames)
         /\ frames # <<>> /\ Tail(frames) \in Seq(Proc!Frames)
<1>1. frames # <<>> /\ Head(frames).budget > 0
  BY DEF Proc!CanStep, Proc!Interp
<1>2. /\ Head(frames) \in Proc!Frames /\ Tail(frames) \in Seq(Proc!Frames)
      /\ Len(Tail(frames)) = Len(frames) - 1 /\ Len(frames) \in Nat
  BY <1>1, HeadTailProperties, LenProperties
<1>3. PICK f : f = [Head(frames) EXCEPT !.budget = @ - 1]
  OBVIOUS
<1>4. f \in Proc!Frames
  <2>1. MAX_STEPS \in Nat
    BY KernelAssumption
  <2>2. PICK h \in Proc!Frames : h = Head(frames) /\ h.budget > 0
    BY <1>1, <1>2
  <2>3. h.budget - 1 \in 0 .. MAX_STEPS
    BY <2>1, <2>2 DEF Proc!Frames
  <2>4. QED BY <1>3, <2>2, <2>3 DEF Proc!Frames
<1>5. <<f>> \in Seq(Proc!Frames) /\ Len(<<f>>) = 1
  BY <1>4
<1>6. <<f>> \o Tail(frames) \in Seq(Proc!Frames) /\ Len(<<f>> \o Tail(frames)) = 1 + (Len(frames) - 1)
  BY <1>2, <1>5, ConcatProperties
<1>7. QED BY <1>1, <1>2, <1>3, <1>6 DEF Proc!Spent

LEMMA NewFrames ==
  /\ Proc!NativeFrame \in Proc!Frames /\ Proc!InterpFrame \in Proc!Frames
  /\ <<Proc!NativeFrame>> \in Seq(Proc!Frames) /\ <<Proc!InterpFrame>> \in Seq(Proc!Frames)
BY KernelAssumption DEF Proc!NativeFrame, Proc!InterpFrame, Proc!Frames

\* What the shell and the programs may rely on.
StackOK == frames \in Seq(Proc!Frames) /\ (mode = "shell" => frames = <<>>)

LEMMA NativeStepStack ==
  ASSUME StackOK, Proc!NativeStep
  PROVE  StackOK' /\ frames' = frames
<1>1. frames' = frames /\ mode' # "shell"
  BY DEF Proc!NativeStep, Proc!native_exit, Proc!native_wait4, Proc!native_read_stdin,
         Proc!native_fault, Proc!Native
<1>2. QED BY <1>1 DEF StackOK

LEMMA InterpStepStack ==
  ASSUME StackOK, Proc!InterpStep
  PROVE  StackOK' /\ frames # <<>>
<1>1. ASSUME Proc!CanStep, frames' = Proc!Spent, mode' # "shell"
      PROVE  StackOK' /\ frames # <<>>
  BY <1>1, SpentFrames DEF StackOK
<1>2. ASSUME frames # <<>>, Proc!Return("Ok") \/ Proc!Return("Err")
      PROVE  StackOK'
  <2>1. frames' = Tail(frames) /\ mode' = "unwind"
    BY <1>2 DEF Proc!Return
  <2>2. Tail(frames) \in Seq(Proc!Frames)
    BY <1>2, HeadTailProperties DEF StackOK
  <2>3. QED BY <2>1, <2>2 DEF StackOK
<1>3. ASSUME Proc!CanStep PROVE frames # <<>> /\ mode = "cpu"
  BY <1>3 DEF Proc!CanStep, Proc!Interp
<1>4. CASE Proc!interp_step
  BY <1>1, <1>3, <1>4 DEF Proc!interp_step, Proc!Spend
<1>5. CASE Proc!interp_ret \/ Proc!interp_error \/ \E c \in Codes : Proc!interp_exit(c)
  BY <1>2, <1>3, <1>5 DEF Proc!interp_ret, Proc!interp_error, Proc!interp_exit
<1>6. CASE Proc!interp_panic
  BY <1>3, <1>6 DEF Proc!interp_panic, StackOK
<1>7. CASE Proc!interp_read_stdin
  BY <1>1, <1>7 DEF Proc!interp_read_stdin, Proc!Spend
<1>8. CASE \E pid_ok \in BOOLEAN : Proc!interp_wait4(pid_ok) \/ Proc!interp_wait4_status(pid_ok)
  <2>1. Proc!CanStep /\ frames' = Proc!Spent /\ mode' # "shell"
    BY <1>3, <1>8 DEF Proc!interp_wait4, Proc!interp_wait4_status, Proc!Spend
  <2>2. QED BY <1>1, <2>1
<1>9. CASE \E name \in Names : Proc!execve_not_found(name)
  BY <1>1, <1>3, <1>9 DEF Proc!execve_not_found, Proc!Spend
<1>10. ASSUME NEW name \in Names, NEW fits \in BOOLEAN, Proc!execve(name, fits)
       PROVE  StackOK' /\ frames # <<>>
  <2>1. /\ Proc!CanStep /\ mode' # "shell"
        /\ frames' = <<Proc!InterpFrame>> \o Proc!Spent \/ frames' = Proc!Spent
    BY <1>3, <1>10 DEF Proc!execve
  <2>2. Proc!Spent \in Seq(Proc!Frames) /\ <<Proc!InterpFrame>> \in Seq(Proc!Frames)
    BY <2>1, SpentFrames, NewFrames DEF StackOK
  <2>3. <<Proc!InterpFrame>> \o Proc!Spent \in Seq(Proc!Frames)
    BY <2>2, ConcatProperties
  <2>4. QED BY <1>3, <2>1, <2>2, <2>3 DEF StackOK
<1>11. CASE Proc!step_limit
  <2>1. frames # <<>> /\ Proc!Return("Err")
    BY <1>11 DEF Proc!step_limit, Proc!Interp
  <2>2. QED BY <1>2, <2>1
<1>12. QED BY <1>4, <1>5, <1>6, <1>7, <1>8, <1>9, <1>10, <1>11 DEF Proc!InterpStep

LEMMA KernelReturnStack ==
  ASSUME StackOK, Proc!KernelReturn
  PROVE  StackOK' /\ (frames' # <<>> => frames # <<>>)
<1>0. <<>> \in Seq(Proc!Frames)
  BY EmptySeq
<1>1. CASE Proc!native_return
  BY <1>0, <1>1 DEF Proc!native_return, StackOK
<1>2. CASE Proc!execve_returns_ok
  <2>1. frames # <<>> /\ frames' = Tail(frames) /\ mode' = "unwind"
    BY <1>2 DEF Proc!execve_returns_ok
  <2>2. Tail(frames) \in Seq(Proc!Frames)
    BY <2>1, HeadTailProperties DEF StackOK
  <2>3. QED BY <2>1, <2>2 DEF StackOK
<1>3. CASE Proc!execve_returns_err
  BY <1>3 DEF Proc!execve_returns_err, StackOK
<1>4. CASE Proc!run_returns
  BY <1>0, <1>4 DEF Proc!run_returns, StackOK
<1>5. QED BY <1>1, <1>2, <1>3, <1>4 DEF Proc!KernelReturn

LEMMA RunStack ==
  ASSUME StackOK, Proc!RunCommand \/ ProcNoOffset!RunCommand
  PROVE  StackOK'
<1>0. <<Proc!NativeFrame>> \in Seq(Proc!Frames) /\ <<Proc!InterpFrame>> \in Seq(Proc!Frames)
  BY NewFrames
<1>1. ProcNoOffset!NativeFrame = Proc!NativeFrame /\ ProcNoOffset!InterpFrame = Proc!InterpFrame
  BY DEF Proc!NativeFrame, Proc!InterpFrame, ProcNoOffset!NativeFrame, ProcNoOffset!InterpFrame
<1>2. CASE Proc!RunCommand
  <2>1. \/ UNCHANGED <<mode, frames>>
        \/ mode' = "halted" /\ frames' = frames
        \/ mode' = "cpu" /\ frames' \in {<<Proc!NativeFrame>>, <<Proc!InterpFrame>>}
    BY <1>2 DEF Proc!RunCommand, Proc!run_fails, Proc!run_native, Proc!run_interp, Proc!run_halts
  <2>2. QED BY <1>0, <2>1 DEF StackOK
<1>3. CASE ProcNoOffset!RunCommand
  <2>1. \/ UNCHANGED <<mode, frames>>
        \/ mode' = "halted" /\ frames' = frames
        \/ mode' = "cpu" /\ frames' \in {<<Proc!NativeFrame>>, <<Proc!InterpFrame>>}
    BY <1>1, <1>3 DEF ProcNoOffset!RunCommand, ProcNoOffset!run_fails, ProcNoOffset!run_native,
                      ProcNoOffset!run_interp, ProcNoOffset!run_halts
  <2>2. QED BY <1>0, <2>1 DEF StackOK
<1>4. QED BY <1>2, <1>3

\* A call that leaves the program where it is.
LEMMA TurnStack ==
  ASSUME StackOK, Turn
  PROVE  StackOK' /\ mode = "cpu" /\ mode' = "cpu" /\ frames # <<>> /\ Len(frames') = Len(frames)
<1>1. CASE Proc!Native /\ UNCHANGED proc_vars
  BY <1>1 DEF Proc!Native, proc_vars, StackOK
<1>2. CASE Proc!interp_step
  <2>1. Proc!CanStep /\ frames' = Proc!Spent /\ mode' = mode /\ mode = "cpu"
    BY <1>2 DEF Proc!interp_step, Proc!Spend, Proc!CanStep, Proc!Interp
  <2>2. QED BY <2>1, SpentFrames DEF StackOK
<1>3. QED BY <1>1, <1>2 DEF Turn
-----------------------------------------------------------------------------
(* The inductive invariant of the kernel *)

LEMMA MountCleans ==
  ASSUME set_rootfs
  PROVE  ROOTFS' = TRUE /\ \A i \in Slots : FD_TABLE'[i] = Free
BY DEF set_rootfs

LEMMA InitKernelInv == Init => KernelInv
<1> SUFFICES ASSUME Init PROVE KernelInv
  OBVIOUS
<1>1. stage = "entry" /\ frames = <<>> /\ mode = "shell"
  BY DEF Init, Proc!Init
<1>2. FdInit
  BY Zenon DEF Init
<1>3. ROOTFS = FALSE /\ FD_TABLE = [i \in Slots |-> Free]
  BY <1>2, Zenon DEF FdInit
<1>4. frames \in Seq(Proc!Frames)
  BY <1>1, EmptySeq
<1>5. CleanAfterMount
  BY <1>3 DEF CleanAfterMount
<1>6. QED BY <1>1, <1>3, <1>4, <1>5 DEF KernelInv

LEMMA StackKeepsInv ==
  ASSUME KernelInv, StackOK', frames' # <<>> => frames # <<>>, UNCHANGED <<boot, ran, fd_vars>>
  PROVE  KernelInv'
<1>1. UNCHANGED <<boot_info, stage, RAMDISK_INFO, PHYSICAL_MEMORY_OFFSET, ran, ROOTFS, FD_TABLE>>
  BY DEF boot, fd_vars
<1>2. CleanAfterMount'
  BY <1>1 DEF KernelInv, CleanAfterMount
<1>3. QED BY <1>1, <1>2 DEF KernelInv, StackOK

\* While a program has the CPU the table may hold anything, and ROOTFS stays.
LEMMA CallKeepsInv ==
  ASSUME KernelInv, StackOK', frames # <<>>, ROOTFS' = ROOTFS, UNCHANGED <<boot, ran>>
  PROVE  KernelInv'
<1>1. UNCHANGED <<boot_info, stage, RAMDISK_INFO, PHYSICAL_MEMORY_OFFSET, ran, ROOTFS>> /\ ran
  BY DEF boot, KernelInv
<1>2. CleanAfterMount'
  BY <1>1 DEF CleanAfterMount
<1>3. QED BY <1>1, <1>2 DEF KernelInv, StackOK

LEMMA NextKernelInv == KernelInv /\ [Next]_vars => KernelInv'
<1> SUFFICES ASSUME KernelInv, [Next]_vars PROVE KernelInv'
  OBVIOUS
<1>0. StackOK
  BY DEF KernelInv, StackOK
<1>1. ASSUME UNCHANGED vars PROVE KernelInv'
  <2>1. UNCHANGED <<boot, ran, fd_vars, frames, mode>>
    BY <1>1 DEF vars, proc_vars
  <2>2. StackOK'
    BY <1>0, <2>1 DEF StackOK
  <2>3. QED BY <2>1, <2>2, StackKeepsInv
<1>2. CASE init_kernel
  <2>1. /\ stage = "entry" /\ stage' = "console" /\ RAMDISK_INFO' = (boot_info.ramdisk # "none")
        /\ PHYSICAL_MEMORY_OFFSET' = boot_info.offset
        /\ UNCHANGED <<boot_info, ran, ROOTFS, FD_TABLE, frames, mode>>
    BY <1>2 DEF init_kernel, fd_vars, proc_vars
  <2>2. CleanAfterMount'
    BY <2>1 DEF KernelInv, CleanAfterMount
  <2>3. QED BY <2>1, <2>2 DEF KernelInv
<1>3. CASE start_shell
  <2>1. /\ stage = "console" /\ stage' = "shell"
        /\ UNCHANGED <<boot_info, RAMDISK_INFO, PHYSICAL_MEMORY_OFFSET, ran, frames, mode>>
    BY <1>3 DEF start_shell, proc_vars
  <2>2. header_ok <=> boot_info.ramdisk = "lfs1"
    BY <2>1 DEF header_ok, KernelInv
  <2>3. ~ROOTFS
    BY <2>1 DEF KernelInv
  <2>4. CASE header_ok
    <3>1. ROOTFS' = TRUE /\ \A i \in Slots : FD_TABLE'[i] = Free
      BY <1>3, <2>4, MountCleans DEF start_shell
    <3>2. QED BY <2>1, <2>2, <2>3, <2>4, <3>1 DEF KernelInv, CleanAfterMount
  <2>5. CASE ~header_ok
    <3>1. UNCHANGED <<ROOTFS, FD_TABLE>>
      BY <1>3, <2>5 DEF start_shell, fd_vars
    <3>2. QED BY <2>1, <2>2, <2>3, <2>5, <3>1 DEF KernelInv, CleanAfterMount
  <2>6. QED BY <2>4, <2>5
<1>4. CASE vga_fallback
  <2>1. /\ stage = "console" /\ stage' = "hlt"
        /\ UNCHANGED <<boot_info, RAMDISK_INFO, PHYSICAL_MEMORY_OFFSET, ran, frames, mode, ROOTFS, FD_TABLE>>
    BY <1>4 DEF vga_fallback, proc_vars, fd_vars
  <2>2. CleanAfterMount'
    BY <2>1 DEF KernelInv, CleanAfterMount
  <2>3. QED BY <2>1, <2>2 DEF KernelInv
<1>5. CASE hlt_loop \/ spin_forever
  BY <1>1, <1>5 DEF hlt_loop, spin_forever
<1>6. CASE ramdisk_command
  <2>1. stage = "shell" /\ UNCHANGED <<stage, boot_info, RAMDISK_INFO, PHYSICAL_MEMORY_OFFSET, frames, mode>> /\ frames = <<>>
    BY <1>6 DEF ramdisk_command, Prompt, boot, proc_vars, KernelInv
  <2>2. CASE header_ok
    <3>1. ROOTFS' = TRUE /\ \A i \in Slots : FD_TABLE'[i] = Free
      BY <1>6, <2>2, MountCleans DEF ramdisk_command
    <3>2. boot_info.ramdisk = "lfs1"
      BY <2>2 DEF header_ok
    <3>3. QED BY <2>1, <3>1, <3>2 DEF KernelInv, CleanAfterMount
  <2>3. CASE ~header_ok
    <3>1. UNCHANGED <<ROOTFS, FD_TABLE, ran>>
      BY <1>6, <2>3 DEF ramdisk_command, fd_vars
    <3>2. CleanAfterMount'
      BY <3>1 DEF KernelInv, CleanAfterMount
    <3>3. QED BY <2>1, <3>1, <3>2 DEF KernelInv
  <2>4. QED BY <2>2, <2>3
<1>7. CASE syscall_command
  <2>1. UNCHANGED <<ROOTFS, FD_TABLE, ran, boot, frames, mode>>
    BY <1>7, TestOpenKeeps DEF syscall_command, proc_vars
  <2>2. CleanAfterMount'
    BY <2>1 DEF KernelInv, CleanAfterMount
  <2>3. QED BY <2>1, <2>2 DEF KernelInv, boot
<1>8. CASE run_command
  <2>1. stage = "shell" /\ ran' = (ran \/ frames' # <<>>) /\ UNCHANGED <<boot, ROOTFS, FD_TABLE>> /\ frames = <<>>
    BY <1>8 DEF run_command, Prompt, fd_vars, KernelInv
  <2>2. StackOK' /\ (frames' # <<>> => header_ok)
    <3>1. CASE header_ok
      BY <1>0, <1>8, <3>1, RunStack DEF run_command
    <3>2. CASE ~header_ok
      <4>1. UNCHANGED <<mode, frames>>
        BY <1>8, <3>2 DEF run_command, run_refused, proc_vars
      <4>2. QED BY <1>0, <2>1, <4>1 DEF StackOK
    <3>3. QED BY <3>1, <3>2
  <2>3. header_ok => ROOTFS
    BY <2>1 DEF header_ok, KernelInv
  <2>4. CleanAfterMount'
    BY <2>1 DEF KernelInv, CleanAfterMount
  <2>5. QED BY <2>1, <2>2, <2>3, <2>4 DEF KernelInv, StackOK, boot
<1>9. CASE fd_call
  <2>1. StackOK' /\ frames # <<>>
    BY <1>0, <1>9, TurnStack DEF fd_call
  <2>2. ROOTFS' = ROOTFS
    BY <1>9, ReadKeepsRootfs, SyscallKeepsRootfs DEF fd_call, FdCall
  <2>3. QED BY <1>9, <2>1, <2>2, CallKeepsInv DEF fd_call
<1>10. CASE mmap_call
  <2>1. CASE panicked'
    <3>1. Proc!NativeStep \/ Proc!InterpStep
      BY <1>10, <2>1 DEF mmap_call, Proc!NativeStep, Proc!InterpStep
    <3>2. StackOK' /\ (frames' # <<>> => frames # <<>>)
      BY <1>0, <3>1, NativeStepStack, InterpStepStack
    <3>3. QED BY <1>10, <3>2, StackKeepsInv DEF mmap_call
  <2>2. CASE ~panicked'
    <3>1. StackOK' /\ frames # <<>>
      BY <1>0, <1>10, <2>2, TurnStack DEF mmap_call
    <3>2. QED BY <1>10, <3>1, StackKeepsInv DEF mmap_call
  <2>3. QED BY <2>1, <2>2
<1>11. CASE program_step
  <2>1. StackOK' /\ (frames' # <<>> => frames # <<>>)
    BY <1>0, <1>11, NativeStepStack, InterpStepStack, KernelReturnStack DEF program_step
  <2>2. QED BY <1>11, <2>1, StackKeepsInv DEF program_step
<1>12. CASE stdin_ready
  <2>1. UNCHANGED <<ROOTFS, FD_TABLE, ran, boot, frames>> /\ mode' = "cpu"
    BY <1>12, StdinKeeps DEF stdin_ready, Proc!stdin_ready
  <2>2. CleanAfterMount'
    BY <2>1 DEF KernelInv, CleanAfterMount
  <2>3. QED BY <2>1, <2>2 DEF KernelInv, boot
<1>13. QED
  BY <1>1, <1>2, <1>3, <1>4, <1>5, <1>6, <1>7, <1>8, <1>9, <1>10, <1>11, <1>12
  DEF Next, Boot, Command, Program

\* ROOTFS follows the boot loader's ramdisk, a program on the kernel's stack has a
\* mounted image below it, and the prompt comes with no program left, after any
\* boot and any commands, programs and nested execve calls.
THEOREM KernelInvariant == Spec => []KernelInv
BY InitKernelInv, NextKernelInv, PTL DEF Spec

\* The table is empty in front of the first program after every mount, for every
\* image, program and sequence of calls.
THEOREM KernelTableClean == Spec => []CleanAfterMount
<1>1. KernelInv => CleanAfterMount
  BY DEF KernelInv
<1>2. QED BY <1>1, KernelInvariant, PTL
-----------------------------------------------------------------------------
(* One disk behind two views *)

\* fs::open finds an entry for every name some reachable entry has: the first.
LEMMA FirstHit ==
  ASSUME NEW n, hits(n) # {}
  PROVE  \E r \in 1 .. Len(Image) : open(n, r)
<1>1. hits(n) \subseteq 1 .. Len(Image) /\ hits(n) \subseteq Nat
  BY DEF hits, file_count
<1>2. PICK r \in hits(n) : \A y \in hits(n) : ~(<<y, r>> \in OpToRel(<, Nat))
  BY <1>1, NatLessThanWellFounded, WFMin, Zenon
<1>3. r \in 1 .. Len(Image) /\ \A y \in hits(n) : r <= y
  <2>1. ASSUME NEW y \in hits(n), y < r PROVE FALSE
    <3>1. y \in Nat /\ r \in Nat /\ ~(<<y, r>> \in OpToRel(<, Nat))
      BY <1>1, <1>2
    <3>2. <<y, r>> \in OpToRel(<, Nat)
      BY <2>1, <3>1 DEF OpToRel
    <3>3. QED BY <3>1, <3>2
  <2>2. QED BY <1>1, <2>1
<1>4. QED BY <1>3 DEF open

\* What the run command finds is what fs::open finds.
LEMMA RamdiskHits ==
  ASSUME NEW n \in Names
  PROVE  /\ Ramdisk[n] # NotFound <=> hits(n) # {}
         /\ hits(n) # {} => n \notin {"", ".", ".."}
<1>1. ASSUME NEW r \in 1 .. Len(Image), open(n, r)
      PROVE  Image[r].ok /\ Image[r].name = n
  BY <1>1 DEF open, hits, reachable, entry_ok, file_count
<1>2. ASSUME NEW r \in 1 .. Len(Image), open(n, r)
      PROVE  Elfs[r] # NotFound /\ n \notin {"", ".", ".."}
  BY <1>1, <1>2, FilesAssumption, Zenon
<1>3. CASE hits(n) = {}
  BY <1>3 DEF Ramdisk
<1>4. CASE hits(n) # {}
  <2>1. PICK q : q = CHOOSE r \in 1 .. Len(Image) : open(n, r)
    OBVIOUS
  <2>2. q \in 1 .. Len(Image) /\ open(n, q)
    BY <1>4, <2>1, FirstHit
  <2>3. Ramdisk[n] = Elfs[q]
    BY <1>4, <2>1 DEF Ramdisk
  <2>4. Elfs[q] # NotFound /\ n \notin {"", ".", ".."}
    BY <1>2, <2>2, Zenon
  <2>5. QED BY <1>4, <2>3, <2>4, Zenon
<1>5. QED BY <1>3, <1>4, Zenon

\* A path of one component is no name of the root but "." and "..".
LEMMA PlainName ==
  ASSUME NEW e, NEW n, NEW p, p = [pad |-> FALSE, lead |-> e, comps |-> <<n>>]
  PROVE  /\ p \in {[pad |-> FALSE, lead |-> e, comps |-> <<>>],
                   [pad |-> FALSE, lead |-> e, comps |-> <<".">>],
                   [pad |-> FALSE, lead |-> "/", comps |-> <<>>]}
                 \cup {[pad |-> FALSE, lead |-> e, comps |-> <<"..">>]}
              <=> n \in {".", ".."}
         /\ p.comps = <<n>>
         /\ (IF p.comps = <<>> THEN e ELSE Head(p.comps)) = n
<1>1. p.comps = <<n>> /\ <<n>> # <<>> /\ Len(<<n>>) = 1 /\ Head(<<n>>) = n
  OBVIOUS
<1>2. ASSUME NEW l, NEW c, p = [pad |-> FALSE, lead |-> l, comps |-> c] PROVE c = <<n>>
  BY <1>1, <1>2
<1>3. \A m : <<n>> = <<m>> => n = m
  OBVIOUS
<1>4. p # [pad |-> FALSE, lead |-> e, comps |-> <<>>] /\ p # [pad |-> FALSE, lead |-> "/", comps |-> <<>>]
  BY <1>1, <1>2, Zenon
<1>5. ASSUME NEW m PROVE p = [pad |-> FALSE, lead |-> e, comps |-> <<m>>] <=> n = m
  BY <1>2, <1>3, Zenon
<1>6. QED BY <1>1, <1>4, <1>5, Zenon

LEMMA OpensPlainName ==
  ASSUME NEW n
  PROVE  OpensFile(Text("", <<n>>)) <=> n \notin {"", ".", ".."} /\ ROOTFS /\ hits(n) # {}
<1>1. PICK p : p = Text("", <<n>>)
  OBVIOUS
<1>2. /\ p \in RootNames \cup {DotDot} <=> n \in {".", ".."}
      /\ ~Nested(p) /\ normalize_path(p) = n
  <2>1. p = [pad |-> FALSE, lead |-> "", comps |-> <<n>>]
    BY <1>1, Zenon DEF Text
  <2>2. p \in RootNames \cup {DotDot} <=> n \in {".", ".."}
    BY <2>1, PlainName, Zenon DEF Text, RootNames, DotDot, EmptyPath
  <2>3. ~Nested(p)
    <3>1. p.comps = <<n>>
      BY <2>1, PlainName, Zenon
    <3>2. QED BY <3>1 DEF Nested
  <2>4. normalize_path(p) = n
    BY <2>1, PlainName, Zenon DEF normalize_path
  <2>5. QED BY <2>2, <2>3, <2>4, Zenon
<1>3. OpensRoot(p) <=> n \in {"", ".", ".."}
  BY <1>2, Zenon DEF OpensRoot
<1>4. hits(n) = hits(n)
  BY Zenon DEF hits, hits, reachable, reachable, entry_ok, entry_ok,
               file_count, file_count
<1>5. OpensFile(p) <=> n \notin {"", ".", ".."} /\ ROOTFS /\ hits(n) # {}
  BY <1>2, <1>3, <1>4, Zenon DEF OpensFile, Found
<1>6. QED BY <1>1, <1>5, Zenon

\* The run command and the file calls see the same files, and no program runs
\* without a mounted image, for every image build.rs packs and every boot loader.
THEOREM KernelOneDisk == Spec => []OneDisk
<1>1. KernelInv => OneDisk
  <2> SUFFICES ASSUME KernelInv, stage = "shell" PROVE
         /\ frames # <<>> => ROOTFS
         /\ \A n \in Names : (boot_info.ramdisk = "lfs1" /\ Ramdisk[n] # NotFound)
                                 <=> OpensFile(Text("", <<n>>))
    BY Zenon DEF OneDisk
  <2>1. (frames # <<>> => ROOTFS) /\ (ROOTFS <=> boot_info.ramdisk = "lfs1")
    BY DEF KernelInv
  <2>2. ASSUME NEW n \in Names
        PROVE  (boot_info.ramdisk = "lfs1" /\ Ramdisk[n] # NotFound)
                 <=> OpensFile(Text("", <<n>>))
    BY <2>1, RamdiskHits, OpensPlainName, Zenon
  <2>3. QED BY <2>1, <2>2, Zenon
<1>2. QED BY <1>1, KernelInvariant, PTL
-----------------------------------------------------------------------------
(* Who may change the descriptor table *)

LEMMA TableStep ==
  ASSUME KernelInv, [Next]_vars, FD_TABLE' # FD_TABLE
  PROVE  \/ mode = "cpu" /\ mode' = "cpu" /\ Len(frames') = Len(frames)
         \/ call'.nr = "set_rootfs" /\ frames = <<>> /\ frames' = <<>>
<1>1. ASSUME UNCHANGED fd_vars PROVE FALSE
  BY <1>1 DEF fd_vars
<1>2. ASSUME set_rootfs PROVE call'.nr = "set_rootfs"
  BY <1>2 DEF set_rootfs, Return
<1>3. CASE start_shell
  <2>1. stage = "console" /\ set_rootfs /\ frames' = frames
    BY <1>1, <1>3 DEF start_shell, proc_vars
  <2>2. frames = <<>>
    BY <2>1 DEF KernelInv
  <2>3. QED BY <1>2, <2>1, <2>2
<1>4. CASE ramdisk_command
  <2>1. mode = "shell" /\ set_rootfs /\ frames' = frames
    BY <1>1, <1>4 DEF ramdisk_command, Prompt, proc_vars, fd_vars
  <2>2. frames = <<>>
    BY <2>1 DEF KernelInv
  <2>3. QED BY <1>2, <2>1, <2>2
<1>5. CASE fd_call
  <2>1. StackOK /\ Turn
    BY <1>5 DEF fd_call, KernelInv, StackOK
  <2>2. QED BY <2>1, TurnStack
<1>6. CASE syscall_command
  BY <1>6, TestOpenKeeps DEF syscall_command
<1>7. CASE stdin_ready
  BY <1>7, StdinKeeps DEF stdin_ready
<1>8. CASE init_kernel \/ vga_fallback \/ hlt_loop \/ run_command \/ mmap_call \/ program_step
           \/ spin_forever \/ UNCHANGED vars
  BY <1>1, <1>8
  DEF init_kernel, vga_fallback, hlt_loop, run_command, mmap_call, program_step, spin_forever, vars
<1>9. QED BY <1>3, <1>4, <1>5, <1>6, <1>7, <1>8 DEF Next, Boot, Command, Program

\* Only a program with the CPU, or a mount with no program on the kernel's stack,
\* ever changes a descriptor, whatever runs, nests and ends in between.
THEOREM KernelTableOwners == Spec => TableChangesOnlyByPrograms
<1>1. KernelInv /\ [Next]_vars =>
        [FD_TABLE' # FD_TABLE =>
           \/ mode = "cpu" /\ mode' = "cpu" /\ Len(frames') = Len(frames)
           \/ call'.nr = "set_rootfs" /\ frames = <<>> /\ frames' = <<>>]_vars
  BY TableStep
<1>2. QED BY <1>1, KernelInvariant, PTL DEF Spec, TableChangesOnlyByPrograms
-----------------------------------------------------------------------------
(* The parts keep their specifications *)

LEMMA FdStep ==
  ASSUME [Next]_vars
  PROVE  FdNext \/ UNCHANGED fd_vars
<1>1. ASSUME set_rootfs \/ FdSyscall PROVE FdNext
  BY <1>1 DEF FdNext
<1>2. ASSUME NEW fd \in Fds, NEW buf \in BOOLEAN, NEW n \in Counts, sys_read(fd, buf, n)
      PROVE  FdNext
  BY <1>2 DEF FdNext
<1>3. CASE start_shell \/ ramdisk_command
  BY <1>1, <1>3 DEF start_shell, ramdisk_command, fd_vars
<1>4. CASE syscall_command
  <2>1. -1 \in DirFds /\ BADSTR \in PathArgs
    BY DEF DirFds, PathArgs
  <2>2. FdSyscall
    BY <1>4, <2>1 DEF syscall_command, FdSyscall
  <2>3. QED BY <1>1, <2>2
<1>5. CASE fd_call
  BY <1>1, <1>2, <1>5 DEF fd_call, FdCall
<1>6. CASE stdin_ready
  <2>1. 0 \in Fds
    BY FdAssumption DEF Fds
  <2>2. QED BY <1>2, <1>6, <2>1, KernelAssumption DEF stdin_ready
<1>7. CASE init_kernel \/ vga_fallback \/ hlt_loop \/ run_command \/ mmap_call \/ program_step
           \/ spin_forever \/ UNCHANGED vars
  BY <1>7
  DEF init_kernel, vga_fallback, hlt_loop, run_command, mmap_call, program_step, spin_forever, vars
<1>8. QED BY <1>3, <1>4, <1>5, <1>6, <1>7 DEF Next, Boot, Command, Program

\* Booting, the shell's commands and the programs of both runners use the descriptor
\* layer as FdTable specifies it, so all that holds of FdTable holds in the kernel.
THEOREM KernelImplementsFdTable == Spec => FdSpec
<1>1. Init => FdInit
  BY Zenon DEF Init
<1>2. [Next]_vars => [FdNext]_fd_vars
  BY FdStep, Zenon
<1>3. QED BY <1>1, <1>2, PTL DEF Spec, FdSpec

\* In the whole kernel, over all programs, mounts and shell commands, the slots of
\* the standard streams stay free, a read stays inside its file, a listing read to
\* its end names exactly what openat opens, and the path walkers nest.
THEOREM KernelDescriptorsSafe ==
  Spec => [](StdSlotsFree /\ ReadInsideFile /\ ScanListsOpenable /\ PathVerdictsNest)
BY KernelImplementsFdTable, StdSlotsStayFree, ReadsStayInside, ListingComplete, WalkersNest, PTL

\* In the whole kernel a descriptor in use changes only in a call that names it or
\* when the root file system is mounted again: no start, exec or end of a program
\* and no command of the shell touches it.
THEOREM KernelDescriptorsKeepTheirOwn == Spec => ChangedOnlyByOwnCalls
BY KernelImplementsFdTable, DescriptorsKeepTheirOwn, PTL

LEMMA MemStep ==
  ASSUME [Next]_vars
  PROVE  MemNext \/ UNCHANGED mem_vars
<1>1. ASSUME NEW len \in Lengths, mmap(len) PROVE MemNext
  BY <1>1 DEF MemNext, MemSyscall
<1>2. CASE syscall_command
  BY <1>1, <1>2, KernelAssumption DEF syscall_command
<1>3. CASE mmap_call
  BY <1>1, <1>3 DEF mmap_call
<1>4. CASE start_shell \/ ramdisk_command \/ fd_call \/ stdin_ready
  BY <1>4 DEF start_shell, ramdisk_command, fd_call, stdin_ready
<1>5. CASE init_kernel \/ vga_fallback \/ hlt_loop \/ run_command \/ program_step
           \/ spin_forever \/ UNCHANGED vars
  BY <1>5 DEF init_kernel, vga_fallback, hlt_loop, run_command, program_step, spin_forever, vars
<1>6. QED BY <1>2, <1>3, <1>4, <1>5 DEF Next, Boot, Command, Program

\* The same for the memory calls: MMAP_BASE moves only as MemCalls says, over all
\* programs and over the mmap of the shell's own syscall command.
THEOREM KernelImplementsMemCalls == Spec => MemSpec
<1>1. Init => MemInit
  BY DEF Init
<1>2. [Next]_vars => [MemNext]_mem_vars
  BY MemStep, Zenon
<1>3. QED BY <1>1, <1>2, PTL DEF Spec, MemSpec
-----------------------------------------------------------------------------
(* The memory calls: divisibility *)

LEMMA DivisionFact ==
  ASSUME NEW a \in Int, NEW n \in Nat \ {0}
  PROVE  /\ a \div n \in Int /\ a % n \in 0 .. n - 1
         /\ a = (a \div n) * n + (a % n)
OBVIOUS

LEMMA ProductIsMultiple ==
  ASSUME NEW k \in Int, NEW n \in Nat \ {0}
  PROVE  (k * n) % n = 0
OBVIOUS

LEMMA MultipleIsProduct ==
  ASSUME NEW a \in Int, NEW n \in Nat \ {0}, a % n = 0
  PROVE  \E k \in Int : a = k * n
<1>1. a \div n \in Int /\ a = (a \div n) * n
  BY DivisionFact
<1>2. QED BY <1>1, Zenon

LEMMA SumOfMultiples ==
  ASSUME NEW a \in Int, NEW b \in Int, NEW n \in Nat \ {0}, a % n = 0, b % n = 0
  PROVE  (a + b) % n = 0
<1>1. PICK k \in Int : a = k * n
  BY MultipleIsProduct
<1>2. PICK l \in Int : b = l * n
  BY MultipleIsProduct
<1>3. a + b = (k + l) * n /\ k + l \in Int
  BY <1>1, <1>2
<1>4. ((k + l) * n) % n = 0
  BY <1>3, ProductIsMultiple, Zenon
<1>5. QED BY <1>3, <1>4, Zenon

LEMMA DifferenceOfMultiples ==
  ASSUME NEW a \in Int, NEW b \in Int, NEW n \in Nat \ {0}, a % n = 0, b % n = 0
  PROVE  (a - b) % n = 0
<1>1. PICK k \in Int : a = k * n
  BY MultipleIsProduct
<1>2. PICK l \in Int : b = l * n
  BY MultipleIsProduct
<1>3. a - b = (k - l) * n /\ k - l \in Int
  BY <1>1, <1>2
<1>4. ((k - l) * n) % n = 0
  BY <1>3, ProductIsMultiple, Zenon
<1>5. QED BY <1>3, <1>4, Zenon

\* Wrapping around at a multiple keeps multiples.
LEMMA WrappedMultiple ==
  ASSUME NEW a \in Int, NEW m \in Nat \ {0}, NEW n \in Nat \ {0}, a % n = 0, m % n = 0
  PROVE  (a % m) % n = 0
<1>1. PICK q \in Int : a % m = a - q * m
  <2>1. a \div m \in Int /\ a = (a \div m) * m + (a % m) /\ a % m \in Int
    BY DivisionFact
  <2>2. a % m = a - (a \div m) * m
    BY <2>1
  <2>3. QED BY <2>1, <2>2
<1>2. m \in Int
  OBVIOUS
<1>3. PICK k \in Int : m = k * n
  BY <1>2, MultipleIsProduct
<1>4. q * m = (q * k) * n /\ q * k \in Int /\ q * m \in Int
  BY <1>3
<1>5. ((q * k) * n) % n = 0
  BY <1>4, ProductIsMultiple, Zenon
<1>6. (a - q * m) % n = 0
  BY <1>4, <1>5, DifferenceOfMultiples, Zenon
<1>7. QED BY <1>1, <1>6, Zenon
-----------------------------------------------------------------------------
USE MemAssumption

LEMMA RegionFields ==
  ASSUME NEW r \in Region
  PROVE  r.start \in Words /\ r.asked \in Words /\ r.start \in Int /\ r.asked \in Int
BY DEF Region, Words
-----------------------------------------------------------------------------
(* Arithmetic of mmap *)

\* A request that passes the overflow check is rounded up to whole pages, and to
\* no less than was asked for.
LEMMA AlignLen ==
  ASSUME NEW len \in Words, ~overflows(len)
  PROVE  /\ align_len(len) \in Nat
         /\ align_len(len) >= len
         /\ align_len(len) % PAGE = 0
<1> DEFINE x == length(len) + PAGE - 1
<1>1. length(len) \in Nat /\ length(len) >= len
  BY DEF length, Words
<1>2. x \in Nat /\ x < U64 /\ x % U64 = x
  BY <1>1 DEF overflows
<1>3. align_len(len) = (x \div PAGE) * PAGE
  BY <1>2 DEF align_len
<1> HIDE DEF x
<1>4. /\ x \div PAGE \in Int /\ x % PAGE \in 0 .. PAGE - 1
      /\ x = (x \div PAGE) * PAGE + (x % PAGE)
  BY <1>2, DivisionFact
<1>5. (x \div PAGE) * PAGE \in Int /\ (x \div PAGE) * PAGE > x - PAGE
  BY <1>2, <1>4
<1>6. ((x \div PAGE) * PAGE) % PAGE = 0
  BY <1>4, ProductIsMultiple
<1>7. (x \div PAGE) * PAGE >= length(len)
  BY <1>1, <1>5 DEF x
<1>8. align_len(len) \in Int /\ align_len(len) >= length(len)
  BY <1>3, <1>5, <1>7, Zenon
<1>9. align_len(len) % PAGE = 0
  BY <1>3, <1>6, Zenon
<1>10. align_len(len) \in Nat /\ align_len(len) >= len
  BY <1>1, <1>8 DEF Words
<1>11. QED BY <1>9, <1>10, Zenon

\* The counter stays on page boundaries when it wraps around.
LEMMA FetchAddAligned ==
  ASSUME NEW v \in Words, NEW n \in Nat, v % PAGE = 0, n % PAGE = 0
  PROVE  /\ fetch_add(v, n) \in Words
         /\ fetch_add(v, n) % PAGE = 0
         /\ v + n < U64 => fetch_add(v, n) = v + n
<1>1. v \in Nat /\ v \in Int /\ n \in Int /\ v + n \in Int /\ U64 \in Nat \ {0}
  BY DEF Words
<1>2. (v + n) % PAGE = 0
  BY <1>1, SumOfMultiples, Zenon
<1>3. ((v + n) % U64) \in 0 .. U64 - 1
  BY <1>1
<1>4. ((v + n) % U64) % PAGE = 0
  BY <1>1, <1>2, WrappedMultiple, Zenon
<1>5. v + n < U64 => (v + n) % U64 = v + n
  BY <1>1
<1>6. QED BY <1>3, <1>4, <1>5 DEF fetch_add, Words

\* A page boundary, read as a signed number, is no error number.
LEMMA AlignedIsNoError ==
  ASSUME NEW v \in Words, v % PAGE = 0
  PROVE  signed(v) \notin -(PAGE - 1) .. -1
<1>1. v \in Nat /\ v < U64 /\ v \in Int /\ U64 \in Int
  BY DEF Words
<1>2. (U64 - v) % PAGE = 0
  BY <1>1, DifferenceOfMultiples, Zenon
<1>3. U64 - v >= PAGE
  BY <1>1, <1>2
<1>4. QED BY <1>1, <1>3 DEF signed
-----------------------------------------------------------------------------
(* The inductive invariant of the memory calls *)

LEMMA InitMemInv == MemInit => MemInv
<1> SUFFICES ASSUME MemInit PROVE MemInv
  OBVIOUS
<1>1. regions \in Seq(Region) /\ Len(regions) = 0
  BY EmptySeq DEF MemInit
<1>2. MemTypeOK
  <2>1. MMAP_BASE \in Words /\ brk \in Words /\ 0 \in Words
    BY DEF MemInit, Words
  <2>2. ARCH_FS \in Words /\ ARCH_GS \in Words /\ answer \in Int
    BY <2>1 DEF MemInit
  <2>3. panicked \in BOOLEAN
    BY Zenon DEF MemInit
  <2>4. QED BY <1>1, <2>1, <2>2, <2>3 DEF MemTypeOK
<1>3. PageAligned /\ BelowBase /\ RegionsDisjoint
  BY <1>1 DEF MemInit, PageAligned, BelowBase, RegionsDisjoint
<1>4. QED BY <1>2, <1>3 DEF MemInv

\* Appending a region.
LEMMA AppendRegion ==
  ASSUME NEW s \in Seq(Region), NEW r \in Region
  PROVE  /\ Append(s, r) \in Seq(Region)
         /\ Len(Append(s, r)) = Len(s) + 1 /\ Len(s) \in Nat
         /\ \A i \in 1 .. Len(s) : Append(s, r)[i] = s[i] /\ s[i] \in Region
         /\ Append(s, r)[Len(s) + 1] = r
BY AppendProperties, LenProperties, ElementOfSeq

\* mmap is the only call that matters: a region above all those since the last wrap.
LEMMA MmapMemInv ==
  ASSUME MemInv, NEW len \in Words, mmap(len)
  PROVE  MemInv'
<1> USE DEF MemInv
<1>1. CASE overflows(len)
  BY <1>1 DEF mmap, MemTypeOK, PageAligned, BelowBase, RegionsDisjoint
<1>2. CASE ~overflows(len)
  <2> DEFINE n == align_len(len)
             r == [start |-> MMAP_BASE, asked |-> len, wraps |-> MMAP_BASE + n >= U64]
  <2>1. n \in Nat /\ n >= len /\ n % PAGE = 0
    BY <1>2, AlignLen
  <2>2. MMAP_BASE' = fetch_add(MMAP_BASE, n) /\ regions' = Append(regions, r)
        /\ answer' = signed(MMAP_BASE) /\ UNCHANGED <<panicked, brk, ARCH_FS, ARCH_GS>>
    BY <1>2 DEF mmap
  <2> HIDE DEF n
  <2>3. /\ MMAP_BASE' \in Words /\ MMAP_BASE' % PAGE = 0
        /\ MMAP_BASE + n < U64 => MMAP_BASE' = MMAP_BASE + n
    BY <2>1, <2>2, FetchAddAligned DEF MemTypeOK, PageAligned
  <2>4. r \in Region /\ regions \in Seq(Region)
    BY DEF MemTypeOK, Region
  <2>5. /\ regions' \in Seq(Region)
        /\ Len(regions') = Len(regions) + 1 /\ Len(regions) \in Nat
        /\ \A i \in 1 .. Len(regions) : regions'[i] = regions[i] /\ regions[i] \in Region
        /\ regions'[Len(regions) + 1] = r
    BY <2>2, <2>4, AppendRegion, Zenon
  <2>6. MemTypeOK'
    BY <2>2, <2>3, <2>5 DEF MemTypeOK, signed, Words
  <2>7. PageAligned'
    BY <2>3, <2>5 DEF PageAligned
  <2>8. \A i \in 1 .. Len(regions) : (\A k \in i .. Len(regions) : ~regions[k].wraps)
           => regions'[i].start + regions'[i].asked <= MMAP_BASE
    BY <2>5 DEF BelowBase
  <2>9. BelowBase'
    <3> SUFFICES ASSUME NEW i \in 1 .. Len(regions'),
                        \A k \in i .. Len(regions') : ~regions'[k].wraps
                 PROVE  regions'[i].start + regions'[i].asked <= MMAP_BASE'
      BY DEF BelowBase
    <3>1. MMAP_BASE' = MMAP_BASE + n
      <4>1. Len(regions) + 1 \in i .. Len(regions')
        BY <2>5
      <4>2. ~r.wraps
        BY <4>1, <2>5, Zenon
      <4>3. r.wraps = (MMAP_BASE + n >= U64)
        OBVIOUS
      <4>4. ~(MMAP_BASE + n >= U64)
        BY <4>2, <4>3, Zenon
      <4>5. QED BY <4>4, <2>1, <2>3 DEF MemTypeOK, Words
    <3>2. CASE i = Len(regions) + 1
      BY <2>1, <2>5, <3>1, <3>2 DEF MemTypeOK, Words
    <3>3. CASE i \in 1 .. Len(regions)
      <4>1. regions'[i].start + regions'[i].asked <= MMAP_BASE
        BY <2>5, <2>8, <3>3
      <4>2. regions'[i].start \in Int /\ regions'[i].asked \in Int /\ MMAP_BASE \in Int
        <5>1. regions'[i] \in Region
          BY <2>5, <3>3
        <5>2. QED BY <5>1, RegionFields DEF MemTypeOK, Words
      <4>3. QED BY <2>1, <3>1, <4>1, <4>2
    <3>4. QED BY <2>5, <3>2, <3>3
  <2>10. RegionsDisjoint'
    <3> SUFFICES ASSUME NEW i \in 1 .. Len(regions'), NEW j \in 1 .. Len(regions'), i < j,
                        \A k \in i .. j : ~regions'[k].wraps
                 PROVE  regions'[i].start + regions'[i].asked <= regions'[j].start
      BY DEF RegionsDisjoint
    <3>1. CASE j = Len(regions) + 1
      <4>1. i \in 1 .. Len(regions) /\ \A k \in i .. Len(regions) : ~regions[k].wraps
        BY <2>5, <3>1
      <4>2. QED BY <2>5, <2>8, <3>1, <4>1
    <3>2. CASE j \in 1 .. Len(regions)
      <4>1. i \in 1 .. Len(regions) /\ \A k \in i .. j : ~regions[k].wraps
        BY <2>5, <3>2
      <4>2. QED BY <2>5, <3>2, <4>1 DEF RegionsDisjoint
    <3>3. QED BY <2>5, <3>1, <3>2
  <2>11. QED BY <2>6, <2>7, <2>9, <2>10
<1>3. QED BY <1>1, <1>2

LEMMA NextMemInv == MemInv /\ [MemNext]_mem_vars => MemInv'
<1> SUFFICES ASSUME MemInv, [MemNext]_mem_vars PROVE MemInv'
  OBVIOUS
<1> USE DEF MemInv
<1>1. ASSUME NEW len \in Lengths, mmap(len) PROVE MemInv'
  BY <1>1, MmapMemInv
<1>2. ASSUME UNCHANGED <<MMAP_BASE, regions>>, MemTypeOK' PROVE MemInv'
  BY <1>2 DEF PageAligned, BelowBase, RegionsDisjoint
<1>3. ASSUME NEW value \in {0, 1, 3, -ENOTTY}, constant_call(value) PROVE MemInv'
  BY <1>2, <1>3 DEF constant_call, MemTypeOK, ENOTTY
<1>4. ASSUME NEW new \in Addresses, brk_set(new) PROVE MemInv'
  BY <1>2, <1>4 DEF brk_set, MemTypeOK, signed, Words
<1>5. ASSUME NEW code \in 4096 .. 4100, NEW addr \in Addresses, arch_prctl(code, addr)
      PROVE  MemInv'
  BY <1>2, <1>5 DEF arch_prctl, MemTypeOK, Words, EINVAL
<1>6. ASSUME NEW nr \in {"uname", "clock_gettime", "gettimeofday", "getrandom"},
             NEW buf \in Addresses, NEW len \in Lengths, fill(nr, buf, len)
      PROVE  MemInv'
  BY <1>2, <1>6 DEF fill, MemTypeOK, signed, Words, EFAULT
<1>7. CASE spin
  BY <1>2, <1>7 DEF spin, mem_vars, MemTypeOK
<1>8. CASE UNCHANGED mem_vars
  BY <1>2, <1>8 DEF mem_vars, MemTypeOK
<1>9. QED BY <1>1, <1>3, <1>4, <1>5, <1>6, <1>7, <1>8 DEF MemNext, MemSyscall

\* The invariant holds in every state the calls of any programs lead to.
THEOREM MemInvariant == MemSpec => []MemInv
BY InitMemInv, NextMemInv, PTL DEF MemSpec

\* For every address space, page size and sequence of requests: regions handed out
\* by mmap with no wrap of MMAP_BASE between them do not overlap.
THEOREM MmapRegionsDisjoint == MemSpec => []RegionsDisjoint
<1>1. MemInv => RegionsDisjoint
  BY DEF MemInv
<1>2. QED BY <1>1, MemInvariant, PTL

\* For every address space and page size, an address from mmap is never in the range
\* of error numbers.
THEOREM MmapNeverLooksFailed == MemSpec => []AddressesAreNotErrors
<1>1. MemInv => AddressesAreNotErrors
  <2> SUFFICES ASSUME MemInv, NEW i \in 1 .. Len(regions)
               PROVE  signed(regions[i].start) \notin -(PAGE - 1) .. -1
    BY DEF AddressesAreNotErrors
  <2>1. regions[i].start \in Words /\ regions[i].start % PAGE = 0
    BY ElementOfSeq, RegionFields DEF MemInv, MemTypeOK, PageAligned
  <2>2. QED BY <2>1, AlignedIsNoError
<1>2. QED BY <1>1, MemInvariant, PTL

HIDE MemAssumption

\* In the whole kernel, over all programs the shell runs and its own syscall command,
\* regions handed out with no wrap between them do not overlap, and no address looks
\* like an error number.
THEOREM KernelMemorySafe == Spec => [](RegionsDisjoint /\ AddressesAreNotErrors)
BY KernelImplementsMemCalls, MmapRegionsDisjoint, MmapNeverLooksFailed, PTL
-----------------------------------------------------------------------------
(* The program lifecycle in the kernel *)

\* Process and its theorems, with and without the offset of the physical memory.
Offset == INSTANCE ProcessProofs WITH Programs <- Ramdisk, Executable <- TRUE
NoOffset == INSTANCE ProcessProofs WITH Programs <- Ramdisk, Executable <- FALSE

\* The offset is looked at only where a program is loaded.
LEMMA SameSteps ==
  /\ Proc!Init => Offset!Init /\ NoOffset!Init
  /\ Proc!NativeStep => Offset!NativeStep /\ NoOffset!NativeStep
  /\ Proc!InterpStep => Offset!InterpStep /\ NoOffset!InterpStep
  /\ Proc!KernelReturn => Offset!KernelReturn /\ NoOffset!KernelReturn
  /\ Proc!stdin_ready => Offset!stdin_ready /\ NoOffset!stdin_ready
<1>1. Proc!Init => Offset!Init /\ NoOffset!Init
  BY DEF
    Proc!Init, Proc!Report, Proc!NoWait, Proc!NotStored, Proc!NoHist, Offset!Init, Offset!Report,
    Offset!NoWait, Offset!NotStored, Offset!NoHist, NoOffset!Init, NoOffset!Report,
    NoOffset!NoWait, NoOffset!NotStored, NoOffset!NoHist
<1>2. Proc!NativeStep => Offset!NativeStep /\ NoOffset!NativeStep
  BY DEF
    Proc!NativeStep, Proc!native_exit, Proc!native_wait4, Proc!native_read_stdin,
    Proc!native_fault, Proc!Native, Proc!exit, Proc!sys_wait4, Proc!Status, Proc!NotStored,
    Proc!native_path, Proc!exit_state, Offset!NativeStep, Offset!native_exit, Offset!native_wait4,
    Offset!native_read_stdin, Offset!native_fault, Offset!Native, Offset!exit, Offset!sys_wait4,
    Offset!Status, Offset!NotStored, Offset!native_path, Offset!exit_state, NoOffset!NativeStep,
    NoOffset!native_exit, NoOffset!native_wait4, NoOffset!native_read_stdin, NoOffset!native_fault,
    NoOffset!Native, NoOffset!exit, NoOffset!sys_wait4, NoOffset!Status, NoOffset!NotStored,
    NoOffset!native_path, NoOffset!exit_state
<1>3. Proc!InterpStep => Offset!InterpStep /\ NoOffset!InterpStep
  BY DEF
    Proc!InterpStep, Proc!interp_step, Proc!interp_ret, Proc!interp_error, Proc!interp_panic,
    Proc!interp_read_stdin, Proc!interp_exit, Proc!interp_wait4, Proc!interp_wait4_status,
    Proc!execve_not_found, Proc!execve, Proc!step_limit, Proc!Interp, Proc!CanStep, Proc!Spent,
    Proc!Spend, Proc!Return, Proc!kept, Proc!exit, Proc!sys_wait4, Proc!Status, Proc!NotStored,
    Proc!native_path, Proc!exit_state, Proc!interp_heap, Proc!interp_load, Proc!WellFormed,
    Proc!Sized, Proc!placed, Proc!heap_after, Proc!InterpFrame, Offset!InterpStep,
    Offset!interp_step, Offset!interp_ret, Offset!interp_error, Offset!interp_panic,
    Offset!interp_read_stdin, Offset!interp_exit, Offset!interp_wait4, Offset!interp_wait4_status,
    Offset!execve_not_found, Offset!execve, Offset!step_limit, Offset!Interp, Offset!CanStep,
    Offset!Spent, Offset!Spend, Offset!Return, Offset!kept, Offset!exit, Offset!sys_wait4,
    Offset!Status, Offset!NotStored, Offset!native_path, Offset!exit_state, Offset!interp_heap,
    Offset!interp_load, Offset!WellFormed, Offset!Sized, Offset!placed, Offset!heap_after,
    Offset!InterpFrame, NoOffset!InterpStep, NoOffset!interp_step, NoOffset!interp_ret,
    NoOffset!interp_error, NoOffset!interp_panic, NoOffset!interp_read_stdin, NoOffset!interp_exit,
    NoOffset!interp_wait4, NoOffset!interp_wait4_status, NoOffset!execve_not_found,
    NoOffset!execve, NoOffset!step_limit, NoOffset!Interp, NoOffset!CanStep, NoOffset!Spent,
    NoOffset!Spend, NoOffset!Return, NoOffset!kept, NoOffset!exit, NoOffset!sys_wait4,
    NoOffset!Status, NoOffset!NotStored, NoOffset!native_path, NoOffset!exit_state,
    NoOffset!interp_heap, NoOffset!interp_load, NoOffset!WellFormed, NoOffset!Sized,
    NoOffset!placed, NoOffset!heap_after, NoOffset!InterpFrame
<1>4. Proc!KernelReturn => Offset!KernelReturn /\ NoOffset!KernelReturn
  BY DEF
    Proc!KernelReturn, Proc!native_return, Proc!execve_returns_ok, Proc!execve_returns_err,
    Proc!run_returns, Proc!Report, Proc!kept, Proc!native_path, Proc!exit_state,
    Offset!KernelReturn, Offset!native_return, Offset!execve_returns_ok, Offset!execve_returns_err,
    Offset!run_returns, Offset!Report, Offset!kept, Offset!native_path, Offset!exit_state,
    NoOffset!KernelReturn, NoOffset!native_return, NoOffset!execve_returns_ok,
    NoOffset!execve_returns_err, NoOffset!run_returns, NoOffset!Report, NoOffset!kept,
    NoOffset!native_path, NoOffset!exit_state
<1>5. Proc!stdin_ready => Offset!stdin_ready /\ NoOffset!stdin_ready
  BY DEF
    Proc!stdin_ready, Proc!kept, Proc!native_path, Proc!exit_state, Offset!stdin_ready,
    Offset!kept, Offset!native_path, Offset!exit_state, NoOffset!stdin_ready, NoOffset!kept,
    NoOffset!native_path, NoOffset!exit_state
<1>6. QED BY <1>1, <1>2, <1>3, <1>4, <1>5

LEMMA SameRun ==
  /\ Proc!RunCommand => Offset!RunCommand
  /\ ProcNoOffset!RunCommand => NoOffset!RunCommand
<1>1. Proc!RunCommand => Offset!RunCommand
  BY DEF
    Proc!RunCommand, Proc!run_fails, Proc!run_native, Proc!run_interp, Proc!run_halts,
    Proc!native_load, Proc!native_rest, Proc!native_heap, Proc!interp_load, Proc!interp_heap, Proc!WellFormed,
    Proc!Sized, Proc!placed, Proc!heap_after, Proc!NativeFrame, Proc!InterpFrame, Proc!Began,
    Proc!NoWait, Proc!Report, Proc!NotStored, Proc!exit_state, Offset!RunCommand, Offset!run_fails,
    Offset!run_native, Offset!run_interp, Offset!run_halts, Offset!native_load, Offset!native_rest, Offset!native_heap,
    Offset!interp_load, Offset!interp_heap, Offset!WellFormed, Offset!Sized, Offset!placed,
    Offset!heap_after, Offset!NativeFrame, Offset!InterpFrame, Offset!Began, Offset!NoWait,
    Offset!Report, Offset!NotStored, Offset!exit_state
<1>2. ProcNoOffset!RunCommand => NoOffset!RunCommand
  BY DEF
    ProcNoOffset!RunCommand, ProcNoOffset!run_fails, ProcNoOffset!run_native,
    ProcNoOffset!run_interp, ProcNoOffset!run_halts, ProcNoOffset!native_load, ProcNoOffset!native_rest,
    ProcNoOffset!native_heap, ProcNoOffset!interp_load, ProcNoOffset!interp_heap,
    ProcNoOffset!WellFormed, ProcNoOffset!Sized, ProcNoOffset!placed, ProcNoOffset!heap_after,
    ProcNoOffset!NativeFrame, ProcNoOffset!InterpFrame, ProcNoOffset!Began, ProcNoOffset!NoWait,
    ProcNoOffset!Report, ProcNoOffset!NotStored, ProcNoOffset!exit_state, NoOffset!RunCommand,
    NoOffset!run_fails, NoOffset!run_native, NoOffset!run_interp, NoOffset!run_halts,
    NoOffset!native_load, NoOffset!native_rest, NoOffset!native_heap, NoOffset!interp_load, NoOffset!interp_heap,
    NoOffset!WellFormed, NoOffset!Sized, NoOffset!placed, NoOffset!heap_after,
    NoOffset!NativeFrame, NoOffset!InterpFrame, NoOffset!Began, NoOffset!NoWait, NoOffset!Report,
    NoOffset!NotStored, NoOffset!exit_state
<1>3. QED BY <1>1, <1>2

\* A header that fs::open refuses looks to the user like a file that is not there.
LEMMA RefusedIsRun ==
  ASSUME Prompt, run_refused
  PROVE  Offset!RunCommand /\ NoOffset!RunCommand
<1>1. PICK n \in Names : hits(n) = {}
  BY ProgramsAssumption
<1>2. Ramdisk[n] = NotFound
  BY <1>1 DEF Ramdisk
<1>3. Offset!run_fails(n)
  BY <1>2
  DEF Prompt, run_refused, Offset!run_fails, Offset!Report, Offset!Began, Offset!NoWait, Offset!NotStored,
      Offset!exit_state, Proc!Report, Proc!Began, Proc!NoWait, Proc!NotStored
<1>4. NoOffset!run_fails(n)
  BY <1>2
  DEF Prompt, run_refused, NoOffset!run_fails, NoOffset!Report, NoOffset!Began, NoOffset!NoWait,
      NoOffset!NotStored, NoOffset!exit_state, Proc!Report, Proc!Began, Proc!NoWait, Proc!NotStored
<1>5. QED BY <1>3, <1>4 DEF Offset!RunCommand, NoOffset!RunCommand

LEMMA ProcStep ==
  ASSUME KernelInv, [Next]_vars
  PROVE  /\ boot_info.offset => Offset!Next \/ UNCHANGED proc_vars
         /\ ~boot_info.offset => NoOffset!Next \/ UNCHANGED proc_vars
<1>1. ASSUME Proc!NativeStep \/ Proc!InterpStep \/ Proc!KernelReturn \/ Proc!stdin_ready
      PROVE  Offset!Next /\ NoOffset!Next
  BY <1>1, SameSteps DEF Offset!Next, NoOffset!Next
<1>2. Proc!interp_step \/ Proc!interp_panic => Proc!InterpStep
  BY DEF Proc!InterpStep
<1>3. Proc!native_fault => Proc!NativeStep
  BY DEF Proc!NativeStep
<1>4. CASE init_kernel \/ start_shell \/ vga_fallback \/ ramdisk_command \/ syscall_command
  BY <1>4 DEF init_kernel, start_shell, vga_fallback, ramdisk_command, syscall_command
<1>5. CASE run_command
  <2>1. Prompt /\ (PHYSICAL_MEMORY_OFFSET <=> boot_info.offset)
    BY <1>5 DEF run_command, Prompt, KernelInv
  <2>2. CASE header_ok
    <3>1. /\ boot_info.offset => Offset!RunCommand
          /\ ~boot_info.offset => NoOffset!RunCommand
      BY <1>5, <2>1, <2>2, SameRun DEF run_command
    <3>2. QED BY <3>1 DEF Offset!Next, NoOffset!Next
  <2>3. CASE ~header_ok
    BY <1>5, <2>1, <2>3, RefusedIsRun DEF run_command, Offset!Next, NoOffset!Next
  <2>4. QED BY <2>2, <2>3
<1>6. CASE fd_call
  BY <1>1, <1>2, <1>6 DEF fd_call, Turn
<1>7. CASE mmap_call
  BY <1>1, <1>2, <1>3, <1>7 DEF mmap_call, Turn
<1>8. CASE program_step
  BY <1>1, <1>8 DEF program_step
<1>9. CASE stdin_ready
  BY <1>1, <1>9 DEF stdin_ready
<1>10. CASE hlt_loop \/ spin_forever \/ UNCHANGED vars
  BY <1>10 DEF hlt_loop, spin_forever, vars
<1>11. QED BY <1>4, <1>5, <1>6, <1>7, <1>8, <1>9, <1>10 DEF Next, Boot, Command, Program

LEMMA BootInfoKept ==
  ASSUME [Next]_vars
  PROVE  boot_info' = boot_info
<1>1. CASE init_kernel \/ start_shell \/ vga_fallback
  BY <1>1 DEF init_kernel, start_shell, vga_fallback
<1>2. CASE \/ ramdisk_command \/ syscall_command \/ run_command
           \/ fd_call \/ mmap_call \/ program_step \/ stdin_ready
  BY <1>2
  DEF ramdisk_command, syscall_command, run_command, fd_call, mmap_call, program_step, stdin_ready, boot
<1>3. CASE hlt_loop \/ spin_forever \/ UNCHANGED vars
  BY <1>3 DEF hlt_loop, spin_forever, vars, boot
<1>4. QED BY <1>1, <1>2, <1>3 DEF Next, Boot, Command, Program

\* Booting, the shell's commands and the calls of programs move the exit state, the
\* frames and the heap only as Process says, with a page table that can or cannot be
\* reached as the boot loader left it.
THEOREM KernelImplementsProcess ==
  Spec => (boot_info.offset => Offset!Spec) /\ (~boot_info.offset => NoOffset!Spec)
<1>1. Init => Offset!Init /\ NoOffset!Init
  <2>1. Init => Proc!Init
    BY Zenon DEF Init
  <2>2. QED BY <2>1, SameSteps
<1>2. UNCHANGED proc_vars => UNCHANGED Offset!vars /\ UNCHANGED NoOffset!vars
  BY DEF proc_vars, Offset!vars, NoOffset!vars
<1>3. KernelInv /\ boot_info.offset /\ [Next]_vars => [Offset!Next]_Offset!vars
  BY <1>2, ProcStep, Zenon
<1>4. KernelInv /\ ~boot_info.offset /\ [Next]_vars => [NoOffset!Next]_NoOffset!vars
  BY <1>2, ProcStep, Zenon
<1>5. [Next]_vars => (boot_info.offset <=> (boot_info.offset)')
  BY BootInfoKept
<1>6. QED BY <1>1, <1>3, <1>4, <1>5, KernelInvariant, PTL DEF Spec, Offset!Spec, NoOffset!Spec

\* What ProcessProofs takes for granted of its constants.
LEMMA ProcessConstants == Offset!ProcessAssumption /\ NoOffset!ProcessAssumption
<1>1. ASSUME NEW n \in Names PROVE Ramdisk[n] \in Proc!Images \cup {NotFound}
  <2>1. CASE hits(n) = {}
    BY <2>1 DEF Ramdisk
  <2>2. CASE hits(n) # {}
    <3>1. PICK q : q = CHOOSE r \in 1 .. Len(Image) : open(n, r)
      OBVIOUS
    <3>2. q \in 1 .. Len(Image)
      BY <2>2, <3>1, FirstHit
    <3>3. Ramdisk[n] = Elfs[q]
      BY <2>2, <3>1 DEF Ramdisk
    <3>4. QED BY <3>2, <3>3, ProgramsAssumption
  <2>3. QED BY <2>1, <2>2
<1>2. Ramdisk \in [Names -> Proc!Images \cup {NotFound}]
  BY <1>1 DEF Ramdisk
<1>3. Proc!Images = Offset!Images /\ Proc!Images = NoOffset!Images
  BY DEF Proc!Images, Offset!Images, NoOffset!Images, Proc!Copies, Offset!Copies, NoOffset!Copies,
    Proc!Entries, Offset!Entries, NoOffset!Entries
<1>4. /\ Codes \subseteq Int /\ 0 \in Codes /\ HEAP_SIZE \in Nat /\ NATIVE_STACK \in Nat \ {0}
      /\ INTERP_STACK \in Nat \ {0} /\ MAX_NATIVE_MEM \in Nat /\ MAX_INTERP_MEM \in Nat
      /\ MAX_SEGMENTS \in Nat /\ MAX_STEPS \in Nat
  BY KernelAssumption, ProgramsAssumption
<1>5. Offset!ProcessAssumption
  BY <1>2, <1>3, <1>4, Zenon DEF Offset!ProcessAssumption
<1>6. NoOffset!ProcessAssumption
  BY <1>2, <1>3, <1>4, Zenon DEF NoOffset!ProcessAssumption
<1>7. QED BY <1>5, <1>6

\* So what the run command prints, and what wait4 may reap, hold in the whole kernel.
THEOREM KernelReportsKnownCode ==
  Spec => []Proc!ReportedCode /\ []Proc!WriterOnlyForNative /\ []Proc!NativeReapsOnlyItself
             /\ []Proc!ReapedOnce
<1>1. Offset!Spec => []Offset!ReportedCode /\ []Offset!WriterOnlyForNative
                       /\ []Offset!NativeReapsOnlyItself /\ []Offset!ReapedOnce
  BY ProcessConstants, Offset!ReportIsKnown, Offset!WriterIsNative, Offset!NativeReapsZero,
     Offset!NoDoubleReap, PTL
<1>2. NoOffset!Spec => []NoOffset!ReportedCode /\ []NoOffset!WriterOnlyForNative
                         /\ []NoOffset!NativeReapsOnlyItself /\ []NoOffset!ReapedOnce
  BY ProcessConstants, NoOffset!ReportIsKnown, NoOffset!WriterIsNative, NoOffset!NativeReapsZero,
     NoOffset!NoDoubleReap, PTL
<1>3. Offset!ReportedCode \/ NoOffset!ReportedCode => Proc!ReportedCode
  BY DEF Offset!ReportedCode, NoOffset!ReportedCode, Proc!ReportedCode
<1>4. Offset!WriterOnlyForNative \/ NoOffset!WriterOnlyForNative => Proc!WriterOnlyForNative
  BY DEF Offset!WriterOnlyForNative, NoOffset!WriterOnlyForNative, Proc!WriterOnlyForNative,
         Offset!NativeOnTop, NoOffset!NativeOnTop, Proc!NativeOnTop
<1>5. Offset!NativeReapsOnlyItself \/ NoOffset!NativeReapsOnlyItself => Proc!NativeReapsOnlyItself
  BY DEF Offset!NativeReapsOnlyItself, NoOffset!NativeReapsOnlyItself, Proc!NativeReapsOnlyItself,
         Offset!NotStored, NoOffset!NotStored, Proc!NotStored
<1>6. Offset!ReapedOnce \/ NoOffset!ReapedOnce => Proc!ReapedOnce
  BY DEF Offset!ReapedOnce, NoOffset!ReapedOnce, Proc!ReapedOnce
<1>7. QED BY <1>1, <1>2, <1>3, <1>4, <1>5, <1>6, KernelImplementsProcess, PTL

\* And a program that has ended stays ended, with the programs that called execve on the
\* way to it, until the shell has reported its code.
THEOREM KernelEndIsFinal == Spec => Proc!EndedStaysEnded
<1>1. Offset!Spec => Offset!EndedStaysEnded
  BY ProcessConstants, Offset!EndIsFinal, PTL
<1>2. NoOffset!Spec => NoOffset!EndedStaysEnded
  BY ProcessConstants, NoOffset!EndIsFinal, PTL
<1>3. Offset!EndedStaysEnded \/ NoOffset!EndedStaysEnded => Proc!EndedStaysEnded
  BY DEF Offset!EndedStaysEnded, NoOffset!EndedStaysEnded, Proc!EndedStaysEnded,
         Offset!vars, NoOffset!vars, Proc!vars, Offset!exit_state, NoOffset!exit_state, Proc!exit_state
<1>4. QED BY <1>1, <1>2, <1>3, KernelImplementsProcess, PTL
=============================================================================
