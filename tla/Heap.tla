-------------------------------- MODULE Heap --------------------------------
(***************************************************************************)
(* What the kernel expects of its global allocator: every block handed out *)
(* lies in the heap region, is aligned as asked, and shares no byte with   *)
(* any block handed out before.  dealloc gives nothing back in this        *)
(* kernel, so blocks only accumulate.                                      *)
(***************************************************************************)
EXTENDS Integers, Sequences

CONSTANTS
  HEAP_START,   \* address of the static HEAP array
  HEAP_SIZE,    \* its length (32 MiB)
  Layouts       \* the [size, align] pairs asked for

VARIABLE grants   \* the blocks handed out, [start, end), in order

Block(s, l) == [start |-> s, end |-> s + l.size]

\* A block that can be handed out for a request.
Fits(s, l) ==
  /\ s >= HEAP_START /\ s + l.size <= HEAP_START + HEAP_SIZE
  /\ s % l.align = 0
  /\ \A i \in 1 .. Len(grants) : grants[i].end <= s \/ s + l.size <= grants[i].start

Init == grants = <<>>
Grant(s, l) == Fits(s, l) /\ grants' = Append(grants, Block(s, l))
Next == \E l \in Layouts, s \in HEAP_START .. HEAP_START + HEAP_SIZE : Grant(s, l)
Spec == Init /\ [][Next]_grants
=============================================================================
