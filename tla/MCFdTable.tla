------------------------------ MODULE MCFdTable ------------------------------
(* A small instance of FdTable for TLC. *)
EXTENDS FdTable

\* An image as build.rs writes it, with an entry that fs::entry_at rejects.
Entry(n, l, k) == [name |-> n, nlen |-> 1, len |-> l, ok |-> k]
SmallImage == <<Entry("a", 2, TRUE), Entry("b", 1, FALSE)>>

SmallOffsets == {-1, 2}
SmallPaths == {Text("./", <<"a">>), Text("/", <<>>)}
=============================================================================
