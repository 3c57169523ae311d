------------------------- MODULE BumpAllocatorProofs -------------------------
(***************************************************************************)
(* The bump allocator implements Heap for every heap, every set of layouts *)
(* and any number of interleaved contexts.                                 *)
(***************************************************************************)
EXTENDS BumpAllocator, TLAPS

\* align_up never moves an address down.
LEMMA AlignUpGE ==
  ASSUME NEW a \in Nat, NEW n \in Nat \ {0}
  PROVE  align_up(a, n) \in Nat /\ align_up(a, n) >= a
BY DEF align_up

\* What align_up returns is a multiple of the alignment.
LEMMA AlignUpMultiple ==
  ASSUME NEW a \in Nat, NEW n \in Nat \ {0}
  PROVE  align_up(a, n) % n = 0
BY DEF align_up

\* What the inductive invariant says of a call about to exchange next.
LEMMA BlockToGrant ==
  ASSUME BumpInv, NEW c \in Ctx, pc[c] = "cas", ~TooBig(c)
  PROVE  /\ req[c] \in Layouts
         /\ req[c].size \in Nat \ {0} /\ req[c].align \in Nat \ {0}
         /\ alloc_start(c) \in Nat /\ alloc_end(c) \in Nat
         /\ alloc_start(c) >= current[c]
         /\ alloc_start(c) % req[c].align = 0
         /\ alloc_end(c) = alloc_start(c) + req[c].size
         /\ alloc_end(c) <= HEAP_START + HEAP_SIZE
         /\ HEAP_START <= current[c]
<1>1. req[c] \in Layouts /\ current[c] \in Nat
  BY DEF BumpInv, TypeOK
<1>2. req[c].size \in Nat \ {0} /\ req[c].align \in Nat \ {0}
  BY <1>1, HeapAssumption
<1>3. /\ alloc_start(c) \in Nat /\ alloc_start(c) >= current[c]
      /\ alloc_start(c) % req[c].align = 0
  BY <1>1, <1>2, AlignUpGE, AlignUpMultiple DEF alloc_start
<1>4. bound[c] = HEAP_START + HEAP_SIZE /\ HEAP_START <= current[c]
  BY DEF BumpInv
<1>5. alloc_end(c) = alloc_start(c) + req[c].size /\ alloc_end(c) \in Nat
  BY <1>2, <1>3 DEF alloc_end
<1>6. alloc_end(c) <= HEAP_START + HEAP_SIZE
  BY <1>4, <1>5, HeapAssumption DEF TooBig
<1> QED BY <1>1, <1>2, <1>3, <1>4, <1>5, <1>6

LEMMA InitBumpInv == Init => BumpInv
<1> SUFFICES ASSUME Init PROVE BumpInv
  OBVIOUS
<1>1. grants \in Seq(Blocks) /\ Len(grants) = 0
  BY DEF Init
<1>2. TypeOK
  <2>1. next \in 0 .. HEAP_START + HEAP_SIZE
    BY HeapAssumption DEF Init
  <2>2. req \in [Ctx -> Layouts \cup {NoLayout}]
    BY DEF Init
  <2>3. pc \in [Ctx -> {"idle", "end", "next", "cas", "oom"}]
    BY DEF Init
  <2>4. current \in [Ctx -> Nat] /\ bound \in [Ctx -> Nat]
    BY DEF Init
  <2> QED BY <1>1, <2>1, <2>2, <2>3, <2>4 DEF Init, TypeOK
<1> QED BY <1>1, <1>2 DEF Init, BumpInv

\* Each step of init_heap, and each step of a call, keeps the invariant.
LEMMA NextBumpInv == BumpInv /\ [Next]_vars => BumpInv'
<1> SUFFICES ASSUME BumpInv, [Next]_vars PROVE BumpInv'
  OBVIOUS
<1> USE HeapAssumption
<1>1. CASE init_heap
  <2>1. CASE check_initialized
    BY <1>1, <2>1 DEF init_heap, check_initialized, BumpInv, TypeOK, fields, calls
  <2>2. CASE store_heap_start
    BY <1>1, <2>2 DEF init_heap, store_heap_start, BumpInv, TypeOK, fields, calls
  <2>3. CASE store_heap_end
    BY <1>1, <2>3 DEF init_heap, store_heap_end, BumpInv, TypeOK, fields, calls
  <2>4. CASE store_next
    BY <1>1, <2>4 DEF init_heap, store_next, BumpInv, TypeOK, fields, calls
  <2>5. CASE store_initialized
    BY <1>1, <2>5 DEF init_heap, store_initialized, BumpInv, TypeOK, fields, calls
  <2> QED BY <1>1, <2>1, <2>2, <2>3, <2>4, <2>5 DEF init_heap
<1>2. ASSUME NEW c \in Ctx, NEW l \in Layouts, alloc(c, l) PROVE BumpInv'
  BY <1>2 DEF alloc, BumpInv, TypeOK, fields
<1>3. ASSUME NEW c \in Ctx, load_heap_end(c) PROVE BumpInv'
  BY <1>3 DEF load_heap_end, BumpInv, TypeOK, fields
<1>4. ASSUME NEW c \in Ctx, load_next(c) PROVE BumpInv'
  BY <1>4 DEF load_next, BumpInv, TypeOK, fields
<1>5. ASSUME NEW c \in Ctx, out_of_memory(c) PROVE BumpInv'
  BY <1>5 DEF out_of_memory, BumpInv, TypeOK, fields
<1>6. ASSUME NEW c \in Ctx, compare_exchange(c) PROVE BumpInv'
  <2>1. CASE next # current[c]
    <3>1. /\ current' = [current EXCEPT ![c] = next] /\ pc[c] = "cas"
          /\ UNCHANGED <<heap_start, heap_end, next, initialized, boot, pc, req, bound, grants>>
      BY <1>6, <2>1 DEF compare_exchange
    <3>2. TypeOK'
      BY <3>1 DEF BumpInv, TypeOK
    <3>3. next >= HEAP_START
      BY <3>1 DEF BumpInv
    <3> QED BY <3>1, <3>2, <3>3 DEF BumpInv, TypeOK
  <2>2. CASE next = current[c]
    <3> DEFINE s == alloc_start(c)
               e == alloc_end(c)
               b == [start |-> s, end |-> e]
    <3>1. /\ next' = e /\ grants' = Append(grants, b)
          /\ pc' = [pc EXCEPT ![c] = "idle"]
          /\ UNCHANGED <<heap_start, heap_end, initialized, boot, req, bound, current>>
          /\ pc[c] = "cas" /\ ~TooBig(c)
      BY <1>6, <2>2 DEF compare_exchange
    <3>2. /\ s \in Nat /\ e \in Nat /\ s >= current[c] /\ e = s + req[c].size
          /\ req[c].size \in Nat /\ e <= HEAP_START + HEAP_SIZE /\ HEAP_START <= current[c]
      BY <3>1, BlockToGrant
    <3> HIDE DEF s, e
    <3>3. next \in Nat /\ boot = "done" /\ grants \in Seq(Blocks)
      BY <3>1 DEF BumpInv, TypeOK
    <3>4. e >= next /\ e >= HEAP_START
      BY <2>2, <3>2, <3>3
    <3>5. b \in Blocks /\ b.end = e
      BY <3>2 DEF Blocks
    <3> HIDE DEF b
    <3>6. /\ grants' \in Seq(Blocks) /\ Len(grants') = Len(grants) + 1
          /\ \A i \in 1 .. Len(grants) : grants'[i] = grants[i]
          /\ grants'[Len(grants) + 1] = b
      BY <3>1, <3>3, <3>5
    <3>7. \A i \in 1 .. Len(grants') : grants'[i].end <= next'
      <4> SUFFICES ASSUME NEW i \in 1 .. Len(grants') PROVE grants'[i].end <= e
        BY <3>1
      <4>1. CASE i = Len(grants) + 1
        BY <3>2, <3>5, <3>6, <4>1
      <4>2. CASE i # Len(grants) + 1
        <5>1. i \in 1 .. Len(grants)
          BY <3>3, <3>6, <4>2
        <5>2. grants[i] \in Blocks
          BY <3>3, <5>1
        <5>3. grants[i].end \in Nat /\ grants[i].end <= next
          BY <5>1, <5>2 DEF BumpInv, Blocks
        <5>4. grants'[i] = grants[i]
          BY <3>6, <5>1
        <5>5. e \in Nat /\ next \in Nat /\ e >= next
          BY <3>2, <3>3, <3>4
        <5>6. grants[i].end <= e
          BY <5>3, <5>5
        <5> QED BY <5>4, <5>6
      <4> QED BY <4>1, <4>2
    <3>8. TypeOK'
      BY <3>1, <3>2, <3>6 DEF BumpInv, TypeOK
    <3>9. \A d \in Ctx : pc'[d] = "cas" => HEAP_START <= current'[d] /\ current'[d] <= next'
      BY <3>1, <3>2, <3>3, <3>4 DEF BumpInv, TypeOK
    <3>10. \A d \in Ctx : pc'[d] \in {"end", "next", "cas"} => pc[d] = pc'[d]
      BY <3>1 DEF BumpInv, TypeOK
    <3> QED BY <3>1, <3>2, <3>3, <3>4, <3>7, <3>8, <3>9, <3>10 DEF BumpInv
  <2> QED BY <2>1, <2>2
<1>7. CASE UNCHANGED vars
  BY <1>7 DEF vars, BumpInv, TypeOK
<1> QED BY <1>1, <1>2, <1>3, <1>4, <1>5, <1>6, <1>7 DEF Next, Step

\* The allocator's fields, its calls in progress and its blocks stay consistent.
THEOREM BumpInvariant == Spec => []BumpInv
BY InitBumpInv, NextBumpInv, PTL DEF Spec

\* The allocator's fields and the locals of its calls keep their types; next
\* never leaves the HEAP array.
THEOREM TypeCorrect == Spec => []TypeOK
<1>1. BumpInv => TypeOK
  BY DEF BumpInv
<1> QED BY <1>1, BumpInvariant, PTL

\* No call gets past the initialized check of alloc before init has stored the
\* bounds of the heap, and no block exists before that.
THEOREM NoEarlyGrant == Spec => []NoGrantBeforeInit
<1>1. BumpInv => NoGrantBeforeInit
  BY DEF BumpInv, NoGrantBeforeInit
<1> QED BY <1>1, BumpInvariant, PTL

\* A step of alloc that returns a block is a Grant of Heap; no other step
\* touches the blocks.
LEMMA StepSimulation == BumpInv /\ [Next]_vars => [H!Next]_grants
<1> SUFFICES ASSUME BumpInv, [Next]_vars, grants' # grants PROVE H!Next
  BY DEF vars
<1>1. PICK c \in Ctx : compare_exchange(c) /\ next = current[c]
  BY DEF Next, Step, init_heap, calls, alloc, load_heap_end, load_next, out_of_memory,
         compare_exchange, vars
<1> DEFINE s == alloc_start(c)
           l == req[c]
<1>2. /\ l \in Layouts /\ l.size \in Nat \ {0} /\ s \in Nat /\ s >= next
      /\ s % l.align = 0 /\ s >= HEAP_START
      /\ alloc_end(c) = s + l.size /\ s + l.size <= HEAP_START + HEAP_SIZE
  BY <1>1, BlockToGrant, HeapAssumption DEF compare_exchange, BumpInv, TypeOK
<1>3. grants' = Append(grants, [start |-> s, end |-> alloc_end(c)])
  BY <1>1 DEF compare_exchange
<1> HIDE DEF s, l
<1>4. H!Fits(s, l)
  <2>1. \A i \in 1 .. Len(grants) : grants[i].end <= s
    <3> SUFFICES ASSUME NEW i \in 1 .. Len(grants) PROVE grants[i].end <= s
      OBVIOUS
    <3>1. grants[i] \in Blocks /\ next \in Nat
      BY HeapAssumption DEF BumpInv, TypeOK
    <3>2. grants[i].end <= next
      BY DEF BumpInv
    <3> QED BY <1>2, <3>1, <3>2 DEF Blocks
  <2> QED BY <1>2, <2>1 DEF H!Fits
<1>5. H!Grant(s, l)
  BY <1>2, <1>3, <1>4 DEF H!Grant, H!Block
<1>6. s \in HEAP_START .. HEAP_START + HEAP_SIZE
  BY <1>2, HeapAssumption
<1> QED BY <1>2, <1>5, <1>6 DEF H!Next

\* The bump allocator implements the abstract heap: blocks lie in the HEAP array,
\* are aligned and never overlap, however the calls interleave.
THEOREM BumpRefinesHeap == Spec => ImplementsHeap
<1>1. Init => H!Init
  BY DEF Init, H!Init
<1> QED BY <1>1, BumpInvariant, StepSimulation, PTL DEF Spec, ImplementsHeap, H!Spec
=============================================================================
