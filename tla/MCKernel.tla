------------------------------- MODULE MCKernel ------------------------------
(* A ramdisk with one program for each runner, and one more name. *)
EXTENDS Kernel

SmallImage == <<[name |-> "pie", nlen |-> 3, len |-> 1, ok |-> TRUE],
                [name |-> "static", nlen |-> 6, len |-> 1, ok |-> TRUE]>>

Elf(t) == [parsed |-> TRUE, e_type |-> t, segments |-> 1, span |-> 1,
           copy |-> [native |-> "fits", interp |-> "fits"], entry |-> "inside"]
SmallElfs == <<Elf("ET_DYN"), Elf("ET_EXEC")>>

SmallPaths == {[pad |-> FALSE, lead |-> "", comps |-> <<"pie">>]}
=============================================================================
