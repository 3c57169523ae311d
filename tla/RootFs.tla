------------------------------- MODULE RootFs -------------------------------
(***************************************************************************)
(* The LFS1 ramdisk as its readers in kernel/src/fs.rs see it: a table of  *)
(* directory entries, each of which fs::entry_at either decodes or rejects *)
(* (an empty or over-long name, a name that is not UTF-8, data outside the *)
(* image).  The image never changes after boot, so it is a constant.       *)
(***************************************************************************)
EXTENDS Integers, Sequences

CONSTANT Image   \* sequence of [name, nlen, len, ok]: the entry table

Entries == [name: STRING, nlen: Nat, len: Nat, ok: BOOLEAN]

\* Names are single path components without surrounding blanks, as the ones
\* written out in build.rs are; fs::entry_at itself refuses an empty one.
ASSUME ImageAssumption ==
  /\ Image \in Seq(Entries)
  /\ \A i \in 1 .. Len(Image) : Image[i].ok => Image[i].name # ""

\* fs::header: the number of entries the header announces.
file_count == Len(Image)

\* fs::entry_at decodes the entry of index i (counted from 1 here).
entry_ok(i) == i \in 1 .. file_count /\ Image[i].ok

\* The entries fs::open can reach: its linear search returns the error of the
\* first entry that does not decode, whatever name it is looking for.
reachable(i) == \A j \in 1 .. i : entry_ok(j)

\* The entries a search for a name could stop at; fs::open returns the first.
hits(wanted) == {i \in 1 .. file_count : reachable(i) /\ Image[i].name = wanted}
open(wanted, i) == i \in hits(wanted) /\ \A j \in hits(wanted) : i <= j
=============================================================================
