-------------------------------- MODULE Lfs1 ---------------------------------
(***************************************************************************)
(* The LFS1 image byte by byte: build.rs, which collects the files that    *)
(* exist and writes the image, and fs.rs, which reads it back in the       *)
(* kernel, also when it was cut short or a byte of it is wrong.            *)
(***************************************************************************)
EXTENDS Integers, Sequences

CONSTANTS
  BYTE,        \* values of a byte (256)
  MAGIC,       \* the four bytes of "LFS1"
  Catalog,     \* what main of build.rs looks for, in its order, see Candidates
  Wrong        \* values a damaged byte may take

HEADER_SIZE == 12
ENTRY_SIZE  == 64
NAME_CAP    == 48
VERSION     == 1

Bytes == 0 .. BYTE - 1
\* A file of the host that enters the image under each of its names.
Candidates ==
  [names: Seq(Seq(Bytes)), required: BOOLEAN, mode: 0 .. BYTE * BYTE - 1, data: Seq(Bytes)]

ASSUME Lfs1Assumption ==
  /\ BYTE \in Nat /\ NAME_CAP < BYTE * BYTE
  /\ MAGIC \in Seq(Bytes) /\ Len(MAGIC) = 4 /\ Wrong \subseteq Bytes
  /\ Catalog \in Seq(Candidates)
  /\ \A i \in DOMAIN Catalog : \A j \in DOMAIN Catalog[i].names :
       /\ Len(Catalog[i].names[j]) \in 1 .. NAME_CAP
       /\ \A k \in DOMAIN Catalog[i].names[j] : 2 * Catalog[i].names[j][k] < BYTE

VARIABLES
  phase,       \* "collect", "write", "ready"
  next,        \* the candidate or the file that comes next
  files,       \* Vec<BuildFile>
  cursor,      \* where the data of the next file begins
  image,       \* the bytes, `blob` in build.rs
  starts,      \* auxiliary: where in the image the data of each file was put
  cut,         \* auxiliary: the length of the image when nothing was cut off
  hit          \* auxiliary: the damaged position, or -1
vars == <<phase, next, files, cursor, image, starts, cut, hit>>
-----------------------------------------------------------------------------
(* build.rs *)

\* as u16 and as u32 drop what does not fit.
le16(v) == <<v % BYTE, (v \div BYTE) % BYTE>>
le32(v) == le16(v) \o le16(v \div (BYTE * BYTE))
put(s, at, bytes) ==
  [k \in DOMAIN s |-> IF k - at \in DOMAIN bytes THEN bytes[k - at] ELSE s[k]]

Init ==
  /\ phase = "collect" /\ next = 1 /\ files = <<>> /\ cursor = 0
  /\ image = <<>> /\ starts = <<>> /\ cut = 0 /\ hit = -1

\* maybe_add_file: a candidate that exists becomes a file under each of its names.
maybe_add_file(exists, c) ==
  IF exists THEN files \o [j \in DOMAIN c.names |->
                             [name |-> c.names[j], mode |-> c.mode, data |-> c.data]]
  ELSE files

collect ==
  /\ phase = "collect" /\ next \in DOMAIN Catalog
  /\ \E exists \in {TRUE, Catalog[next].required} : files' = maybe_add_file(exists, Catalog[next])
  /\ next' = next + 1
  /\ UNCHANGED <<phase, cursor, image, starts, cut, hit>>

table_end == HEADER_SIZE + Len(files) * ENTRY_SIZE

\* build_lfs1 up to its loop.
begin ==
  /\ phase = "collect" /\ next \notin DOMAIN Catalog
  /\ LET blank == [k \in 1 .. table_end |-> 0]
     IN image' = put(put(put(blank, 0, MAGIC), 4, le16(VERSION)), 6, le16(Len(files)))
  /\ cursor' = table_end /\ next' = 1 /\ phase' = "write"
  /\ UNCHANGED <<files, starts, cut, hit>>

\* The fields of the entry at a place in the table.
with_entry(s, at, file, offset) ==
  put(put(put(put(put(s, at, le16(Len(file.name))), at + 4, le32(offset)),
              at + 8, le32(Len(file.data))), at + 12, le16(file.mode)), at + 16, file.name)

\* Mutant of offset_of: the offset of the data is counted from the end of the table.
offset_of_relative(c) == c - table_end

offset_of(c) == c

write_file ==
  /\ phase = "write" /\ next \in DOMAIN files
  /\ LET file == files[next]
         entry_off == HEADER_SIZE + (next - 1) * ENTRY_SIZE
     IN /\ image' = with_entry(image, entry_off, file, offset_of(cursor)) \o file.data
        /\ cursor' = cursor + Len(file.data)
  /\ starts' = Append(starts, Len(image))
  /\ next' = next + 1
  /\ UNCHANGED <<phase, files, cut, hit>>

finish ==
  /\ phase = "write" /\ next \notin DOMAIN files
  /\ phase' = "ready" /\ cut' = Len(image)
  /\ UNCHANGED <<next, files, cursor, image, starts, hit>>
-----------------------------------------------------------------------------
(* What can happen to the image on its way: the end is missing, or a byte  *)
(* is wrong.                                                               *)

truncate(n) ==
  /\ phase = "ready" /\ Len(image) = cut /\ n < cut
  /\ image' = SubSeq(image, 1, n)
  /\ UNCHANGED <<phase, next, files, cursor, starts, cut, hit>>

damage(p, v) ==
  /\ phase = "ready" /\ hit = -1 /\ p < Len(image) /\ image[p + 1] # v
  /\ image' = [image EXCEPT ![p + 1] = v] /\ hit' = p
  /\ UNCHANGED <<phase, next, files, cursor, starts, cut>>

Next ==
  \/ collect \/ begin \/ write_file \/ finish
  \/ \E p \in 0 .. cut, v \in Wrong : damage(p, v)
  \/ \E n \in 0 .. cut : truncate(n)
Spec == Init /\ [][Next]_vars
-----------------------------------------------------------------------------
(* fs.rs.  A slice outside its bytes is a panic, which no caller catches.  *)

u16(s, at) == s[at + 1] + s[at + 2] * BYTE
u32(s, at) == u16(s, at) + u16(s, at + 2) * (BYTE * BYTE)

Result(err, name, mode, data) == [err |-> err, name |-> name, mode |-> mode, data |-> data]
Err(e) == Result(e, <<>>, 0, <<>>)

\* fs::header: the error, or "" with the number of files.
Header(err, n) == [err |-> err, file_count |-> n]
header ==
  IF Len(image) < HEADER_SIZE THEN Header("TooSmall", 0)
  ELSE IF SubSeq(image, 1, 4) # MAGIC THEN Header("BadMagic", 0)
  ELSE IF u16(image, 4) # VERSION THEN Header("BadVersion", 0)
  ELSE IF HEADER_SIZE + u16(image, 6) * ENTRY_SIZE > Len(image) THEN Header("OutOfBounds", 0)
  ELSE Header("", u16(image, 6))

\* Mutant of data_end: clamped to the image.
data_end_clamped(offset, size) ==
  IF offset + size > Len(image) THEN Len(image) ELSE offset + size

data_end(offset, size) == offset + size

\* core::str::from_utf8; a byte with its top bit set among others without it.
from_utf8(name) == \A k \in DOMAIN name : 2 * name[k] < BYTE

name_len_ok(n) == n # 0 /\ n <= NAME_CAP

\* fs::entry_at; entries are counted from 0.
entry_at(idx) ==
  LET start == HEADER_SIZE + idx * ENTRY_SIZE
      e == SubSeq(image, start + 1, start + ENTRY_SIZE)
      name_len == u16(e, 0)
      name == SubSeq(e, 17, 16 + name_len)
      offset == u32(e, 4)
      size == u32(e, 8)
  IN IF start + ENTRY_SIZE > Len(image) THEN Err("OutOfBounds")
     ELSE IF ~name_len_ok(name_len) THEN Err("InvalidName")
     ELSE IF 16 + name_len > ENTRY_SIZE THEN Err("panic")
     ELSE IF ~from_utf8(name) THEN Err("InvalidName")
     ELSE IF data_end(offset, size) > Len(image) THEN Err("OutOfBounds")
     ELSE Result("", name, u16(e, 12), SubSeq(image, offset + 1, data_end(offset, size)))

Indices == 0 .. header.file_count - 1
Stops(wanted) == {i \in Indices : entry_at(i).err # "" \/ entry_at(i).name = wanted}
First(S) == CHOOSE i \in S : \A j \in S : i <= j

\* Mutant of open: the whole table has to decode, as with a search through list.
open_strict(wanted) ==
  LET bad == {i \in Indices : entry_at(i).err # ""}
      hits == {i \in Indices : entry_at(i).name = wanted}
  IN IF header.err # "" THEN Err(header.err)
     ELSE IF bad # {} THEN entry_at(First(bad))
     ELSE IF hits = {} THEN Err("NotFound") ELSE entry_at(First(hits))

\* Mutant of open: the search goes on behind an entry that does not decode.
open_skipping(wanted) ==
  LET hits == {i \in Indices : entry_at(i).err = "" /\ entry_at(i).name = wanted}
  IN IF header.err # "" THEN Err(header.err)
     ELSE IF hits = {} THEN Err("NotFound") ELSE entry_at(First(hits))

\* fs::open: the first entry with the name, or the error met before it.
open(wanted) ==
  IF header.err # "" THEN Err(header.err)
  ELSE IF Stops(wanted) = {} THEN Err("NotFound") ELSE entry_at(First(Stops(wanted)))

\* fs::entry.
entry(idx) ==
  IF header.err # "" THEN Err(header.err)
  ELSE IF idx >= header.file_count THEN Err("NotFound") ELSE entry_at(idx)

\* fs::list: the names its callback sees before the first error.
list ==
  LET bad == {i \in Indices : entry_at(i).err # ""}
      n == IF bad = {} THEN header.file_count ELSE First(bad)
  IN IF header.err # "" THEN <<>> ELSE [k \in 1 .. n |-> entry_at(k - 1).name]
-----------------------------------------------------------------------------
(* Properties *)

Names ==
  UNION {{Catalog[i].names[j] : j \in DOMAIN Catalog[i].names} : i \in DOMAIN Catalog}
Ready == phase = "ready"
\* The number of files and every offset fit the fields that hold them.
Fits == Len(files) < BYTE * BYTE /\ cut < (BYTE * BYTE) * (BYTE * BYTE)
Whole == Ready /\ Fits /\ hit = -1 /\ Len(image) = cut
FileOf(wanted) == First({i \in DOMAIN files : files[i].name = wanted})
InFiles(wanted) == \E i \in DOMAIN files : files[i].name = wanted
Same(rec, i) ==
  rec = Result("", files[i].name, files[i].mode, files[i].data)

\* What build_lfs1 writes, fs.rs reads: every file that was collected, its name, mode
\* and bytes, and nothing else.
RoundTrip ==
  Whole =>
    /\ header = Header("", Len(files))
    /\ \A i \in DOMAIN files : Same(entry(i - 1), i)
    /\ \A n \in Names : IF InFiles(n) THEN Same(open(n), FileOf(n)) ELSE open(n) = Err("NotFound")
    /\ list = [i \in DOMAIN files |-> files[i].name]

\* An image that was cut short is all or nothing: a file is either found with all of
\* its bytes or not found, and those before the cut stay.
CutIsAllOrNothing ==
  Ready /\ Fits /\ hit = -1 => \A n \in Names : InFiles(n) =>
    LET i == FileOf(n)
    IN IF starts[i] + Len(files[i].data) <= Len(image)
       THEN Same(open(n), i) ELSE open(n).err # ""

\* A wrong byte reaches no further than it must: a file is found unchanged unless the
\* byte is in the header, in its entry or one before, or in its own data.
DamageIsContained ==
  Ready /\ Fits /\ Len(image) = cut /\ hit >= 0 => \A n \in Names : InFiles(n) =>
    LET i == FileOf(n)
    IN hit \notin 0 .. HEADER_SIZE + i * ENTRY_SIZE - 1
         /\ hit \notin starts[i] .. starts[i] + Len(files[i].data) - 1 => Same(open(n), i)

\* The table as module RootFs has it, and its search.
Decoded ==
  [i \in 1 .. header.file_count |->
     LET rec == entry_at(i - 1)
     IN [name |-> rec.name, nlen |-> Len(rec.name), len |-> Len(rec.data), ok |-> rec.err = ""]]
R == INSTANCE RootFs WITH Image <- Decoded

\* Whatever the bytes are, no reader slices outside them, fs::open finds what
\* RootFs!open finds in the decoded table, and fs::list shows exactly the reachable entries.
ImplementsRootFs ==
  Ready =>
    /\ \A i \in 0 .. Len(files) + 1 : entry(i).err # "panic"
    /\ \A n \in Names :
         IF open(n).err = "" THEN \E i \in DOMAIN Decoded :
                                    R!open(n, i) /\ entry_at(i - 1) = open(n)
         ELSE \A i \in DOMAIN Decoded : ~R!open(n, i)
    /\ header.err = "" => \A i \in DOMAIN Decoded : R!reachable(i) <=> i \in DOMAIN list
-----------------------------------------------------------------------------
(* Why: every byte written is still there, but for those cut off and the   *)
(* damaged one.                                                            *)

Holds(s, h, at, bytes) ==
  \A k \in 1 .. Len(bytes) : at + k <= Len(s) /\ at + k # h + 1 => s[at + k] = bytes[k]

BuildFiles ==
  {f \in [name: Seq(Bytes), mode: 0 .. BYTE * BYTE - 1, data: Seq(Bytes)] :
     Len(f.name) \in 1 .. NAME_CAP /\ from_utf8(f.name)}

TypeOK ==
  /\ phase \in {"collect", "write", "ready"} /\ next \in Nat \ {0} /\ files \in Seq(BuildFiles)
  /\ cursor \in Nat /\ image \in Seq(Bytes) /\ starts \in Seq(Nat)
  /\ cut \in Nat /\ hit \in Nat \cup {-1}

HeaderHolds ==
  /\ Holds(image, hit, 0, MAGIC)
  /\ Holds(image, hit, 4, le16(VERSION)) /\ Holds(image, hit, 6, le16(Len(files)))

EntryIn(s, h, at, file, start) ==
  /\ Holds(s, h, at, le16(Len(file.name))) /\ Holds(s, h, at + 4, le32(start))
  /\ Holds(s, h, at + 8, le32(Len(file.data))) /\ Holds(s, h, at + 12, le16(file.mode))
  /\ Holds(s, h, at + 16, file.name)
EntryHolds(i) ==
  EntryIn(image, hit, HEADER_SIZE + (i - 1) * ENTRY_SIZE, files[i], starts[i])

\* The data of the files follow the table without overlapping, up to a place.
Laid(i, end) == starts[i] >= table_end /\ starts[i] + Len(files[i].data) <= end
InOrder ==
  \A i, j \in 1 .. Len(starts) : i < j => starts[i] + Len(files[i].data) <= starts[j]

Written(end) ==
  /\ HeaderHolds /\ InOrder
  /\ \A i \in 1 .. Len(starts) :
       EntryHolds(i) /\ Laid(i, end) /\ Holds(image, hit, starts[i], files[i].data)

Lfs1Inv ==
  /\ TypeOK
  /\ phase = "collect" => starts = <<>> /\ hit = -1
  /\ phase = "write" => /\ Len(starts) = next - 1 /\ next <= Len(files) + 1 /\ hit = -1
                        /\ cursor = Len(image) /\ table_end <= cursor /\ Written(cursor)
  /\ phase = "ready" => /\ Len(starts) = Len(files) /\ table_end <= cut
                        /\ Len(image) <= cut /\ Written(cut)
=============================================================================
