--------------------------- MODULE MCBumpAllocator ---------------------------
(* A heap of a few bytes whose start is aligned to nothing. *)
EXTENDS BumpAllocator
SmallLayouts == {[size |-> 1, align |-> 1], [size |-> 2, align |-> 4], [size |-> 3, align |-> 2]}
=============================================================================
