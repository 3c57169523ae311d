---------------------------- MODULE BumpAllocator ----------------------------
(***************************************************************************)
(* kernel/src/allocator.rs: a lock-free bump allocator.  Every atomic load *)
(* and store is one step.  The contexts that allocate are the kernel and   *)
(* the exception handlers that can run on top of it (they format their     *)
(* messages on the heap); their steps may interleave in any order, which   *)
(* is what the compare_exchange loop is written for.                       *)
(***************************************************************************)
EXTENDS Integers, Sequences

CONSTANTS
  Ctx,          \* contexts that allocate
  HEAP_START, HEAP_SIZE,
  USIZE_MAX,
  Layouts       \* requests: [size, align]

ASSUME HeapAssumption ==
  /\ HEAP_START \in Nat \ {0} /\ HEAP_SIZE \in Nat /\ USIZE_MAX \in Nat
  /\ Layouts \subseteq [size: Nat \ {0}, align: Nat \ {0}]
  /\ HEAP_START + HEAP_SIZE <= USIZE_MAX
  /\ \A l \in Layouts : HEAP_START + HEAP_SIZE + l.align - 1 <= USIZE_MAX

VARIABLES
  heap_start, heap_end, next, initialized,  \* the fields of ALLOCATOR
  boot,       \* progress of init_heap, called once by kernel_main
  pc,         \* where each context is in alloc, or "oom" in alloc_error
  req,        \* the layout of the call in progress
  bound,      \* alloc's local heap_end
  current,    \* alloc's local current
  grants      \* auxiliary: the blocks returned, in order
vars == <<heap_start, heap_end, next, initialized, boot, pc, req, bound, current, grants>>

fields == <<heap_start, heap_end, next, initialized>>

Blocks == [start: Nat, end: Nat]
NoLayout == [size |-> 0, align |-> 1]

TypeOK ==
  /\ heap_start \in Nat /\ heap_end \in Nat
  /\ next \in 0 .. HEAP_START + HEAP_SIZE
  /\ initialized \in BOOLEAN
  /\ boot \in {"check", "start", "end", "next", "flag", "done"}
  /\ pc \in [Ctx -> {"idle", "end", "next", "cas", "oom"}]
  /\ req \in [Ctx -> Layouts \cup {NoLayout}]
  /\ bound \in [Ctx -> Nat]
  /\ current \in [Ctx -> Nat]
  /\ grants \in Seq(Blocks)

Init ==
  /\ heap_start = 0 /\ heap_end = 0 /\ next = 0 /\ initialized = FALSE
  /\ boot = "check"
  /\ pc = [c \in Ctx |-> "idle"]
  /\ req = [c \in Ctx |-> NoLayout]
  /\ bound = [c \in Ctx |-> 0]
  /\ current = [c \in Ctx |-> 0]
  /\ grants = <<>>
-----------------------------------------------------------------------------
(* init_heap and BumpAllocator::init: one store after the other *)

calls == <<pc, req, bound, current, grants>>

\* Mutant of check_initialized: claims the flag before the fields are stored.
claim_initialized ==
  /\ boot = "check"
  /\ boot' = IF initialized THEN "done" ELSE "start"
  /\ initialized' = TRUE
  /\ UNCHANGED <<heap_start, heap_end, next>>

check_initialized ==
  /\ boot = "check"
  /\ boot' = IF initialized THEN "done" ELSE "start"
  /\ UNCHANGED fields

store_heap_start ==
  /\ boot = "start" /\ boot' = "end"
  /\ heap_start' = HEAP_START
  /\ UNCHANGED <<heap_end, next, initialized>>

store_heap_end ==
  /\ boot = "end" /\ boot' = "next"
  /\ heap_end' = HEAP_START + HEAP_SIZE
  /\ UNCHANGED <<heap_start, next, initialized>>

store_next ==
  /\ boot = "next" /\ boot' = "flag"
  /\ next' = HEAP_START
  /\ UNCHANGED <<heap_start, heap_end, initialized>>

store_initialized ==
  /\ boot = "flag" /\ boot' = "done"
  /\ initialized' = TRUE
  /\ UNCHANGED <<heap_start, heap_end, next>>

init_heap ==
  /\ \/ check_initialized \/ store_heap_start \/ store_heap_end
     \/ store_next \/ store_initialized
  /\ UNCHANGED calls
-----------------------------------------------------------------------------
(* alloc *)

\* Mutant of align_up: rounds down.
align_down(addr, align) == addr - (addr % align)

\* (addr + align - 1) & !(align - 1) for a power of two: the low bits go.
align_up(addr, align) == (addr + align - 1) - ((addr + align - 1) % align)

\* The call is entered and initialized loaded; a null result ends in alloc_error.
alloc(c, l) ==
  /\ pc[c] = "idle"
  /\ pc' = [pc EXCEPT ![c] = IF initialized THEN "end" ELSE "oom"]
  /\ req' = [req EXCEPT ![c] = l]
  /\ UNCHANGED <<fields, boot, bound, current, grants>>

load_heap_end(c) ==
  /\ pc[c] = "end" /\ pc' = [pc EXCEPT ![c] = "next"]
  /\ bound' = [bound EXCEPT ![c] = heap_end]
  /\ UNCHANGED <<fields, boot, req, current, grants>>

load_next(c) ==
  /\ pc[c] = "next" /\ pc' = [pc EXCEPT ![c] = "cas"]
  /\ current' = [current EXCEPT ![c] = next]
  /\ UNCHANGED <<fields, boot, req, bound, grants>>

alloc_start(c) == align_up(current[c], req[c].align)
alloc_end(c)   == alloc_start(c) + req[c].size

\* Mutant of TooBig: the end of the heap is not looked at.
TooBigOverflowOnly(c) == alloc_end(c) > USIZE_MAX

\* checked_add overflows, or the block would end behind the heap: null.
TooBig(c) == alloc_end(c) > USIZE_MAX \/ alloc_end(c) > bound[c]

\* alloc_error spins forever: a context that is out of memory never goes on.
out_of_memory(c) ==
  /\ pc[c] = "cas" /\ TooBig(c)
  /\ pc' = [pc EXCEPT ![c] = "oom"]
  /\ UNCHANGED <<fields, boot, req, bound, current, grants>>

\* Mutant of compare_exchange: a failed exchange keeps the stale current.
compare_exchange_stale(c) ==
  /\ pc[c] = "cas" /\ ~TooBig(c)
  /\ \/ /\ next = current[c]
        /\ next' = alloc_end(c)
        /\ grants' = Append(grants, [start |-> alloc_start(c), end |-> alloc_end(c)])
        /\ pc' = [pc EXCEPT ![c] = "idle"]
     \/ next # current[c] /\ UNCHANGED <<next, grants, pc>>
  /\ UNCHANGED <<heap_start, heap_end, initialized, boot, req, bound, current>>

compare_exchange(c) ==
  /\ pc[c] = "cas" /\ ~TooBig(c)
  /\ \/ /\ next = current[c]
        /\ next' = alloc_end(c)
        /\ grants' = Append(grants, [start |-> alloc_start(c), end |-> alloc_end(c)])
        /\ pc' = [pc EXCEPT ![c] = "idle"]
        /\ UNCHANGED current
     \/ /\ next # current[c]
        /\ current' = [current EXCEPT ![c] = next]
        /\ UNCHANGED <<next, grants, pc>>
  /\ UNCHANGED <<heap_start, heap_end, initialized, boot, req, bound>>

\* One step of a call in progress.
Step(c) == load_heap_end(c) \/ load_next(c) \/ out_of_memory(c) \/ compare_exchange(c)

Next ==
  \/ init_heap
  \/ \E c \in Ctx, l \in Layouts : alloc(c, l)
  \/ \E c \in Ctx : Step(c)

\* The processor keeps executing: init_heap, and a call once it has begun.
Fairness == WF_vars(init_heap) /\ \A c \in Ctx : WF_vars(Step(c))
Spec == Init /\ [][Next]_vars
FairSpec == Spec /\ Fairness
-----------------------------------------------------------------------------
(* Properties *)

H == INSTANCE Heap

\* Inductive strengthening: what the stores of init have established at each of
\* its steps, what a call in progress knows, and that every block lies below next.
BumpInv ==
  /\ TypeOK
  /\ initialized <=> boot = "done"
  /\ boot \in {"next", "flag", "done"} => heap_end = HEAP_START + HEAP_SIZE
  /\ boot \in {"flag", "done"} => next >= HEAP_START
  /\ \A c \in Ctx : pc[c] \in {"end", "next", "cas"} => boot = "done" /\ req[c] \in Layouts
  /\ \A c \in Ctx : pc[c] \in {"next", "cas"} => bound[c] = HEAP_START + HEAP_SIZE
  /\ \A c \in Ctx : pc[c] = "cas" => HEAP_START <= current[c] /\ current[c] <= next
  /\ grants # <<>> => boot = "done"
  /\ \A i \in 1 .. Len(grants) : grants[i].end <= next

\* The allocator implements Heap: no schedule of the compare_exchange loop, and
\* no request that arrives while init is storing its fields, hands out memory
\* twice, outside the HEAP array or misaligned.
ImplementsHeap == H!Spec

\* Nothing is handed out of the unset region [0, 0): the flag is stored last, so
\* whoever passed the check reads the real bounds and a set next.
NoGrantBeforeInit ==
  grants # <<>> \/ (\E c \in Ctx : pc[c] \in {"next", "cas"}) =>
    boot = "done" /\ heap_end = HEAP_START + HEAP_SIZE /\ next >= HEAP_START

\* Every call ends, with a block or in alloc_error: a compare_exchange can fail
\* only because another call moved next, and the heap bounds how often.
AllocTerminates ==
  \A c \in Ctx : pc[c] # "idle" ~> pc[c] \in {"idle", "oom"}
=============================================================================
