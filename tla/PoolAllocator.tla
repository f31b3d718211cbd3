----------------------------- MODULE PoolAllocator -----------------------------
(***************************************************************************)
(* allocator03 (callstack/allocator.hpp): each allocator has a list of     *)
(* free items; a copy starts with none, and as all of them count as        *)
(* interchangeable an item may be given back to another one.               *)
(***************************************************************************)
EXTENDS Naturals, Sequences, SequencesExt

CONSTANTS
  Allocators,
  InitialItems,  \* initial_num_items
  MaxItems       \* bound: how many items are made

VARIABLES
  heap,      \* __heap of each allocator there is
  used,      \* the items the program has
  leaked,    \* items whose allocator is gone
  items,     \* how many items have been made
  assigned   \* history: an allocator was assigned to

vars == <<heap, used, leaked, items, assigned>>

Init == heap = << >> /\ used = {} /\ leaked = {} /\ items = 0 /\ assigned = FALSE

With(a, list) == [b \in DOMAIN heap \cup {a} |-> IF b = a THEN list ELSE heap[b]]

-----------------------------------------------------------------------------

Construct(a) ==
  /\ a \notin DOMAIN heap /\ items + InitialItems <= MaxItems
  /\ heap' = With(a, [i \in 1 .. InitialItems |-> items + i])
  /\ items' = items + InitialItems
  /\ UNCHANGED <<used, leaked, assigned>>

\* Mutant: the copy has the list of the original.
SameList(a) == heap[a]

\* allocator03(const allocator03&) copies nothing.
CopiedList(a) == << >>

Copy(a, b) ==
  /\ a \in DOMAIN heap /\ b \notin DOMAIN heap
  /\ heap' = With(b, CopiedList(a))
  /\ UNCHANGED <<used, leaked, items, assigned>>

\* The implicit operator=() copies the list, and what was in this one is lost
\* (bound: once).
Assign(a, b) ==
  /\ {a, b} \subseteq DOMAIN heap /\ a # b /\ ~assigned
  /\ heap' = With(b, heap[a])
  /\ leaked' = leaked \cup ToSet(heap[b])
  /\ assigned' = TRUE
  /\ UNCHANGED <<used, items>>

\* ~allocator03(): "leaks __heap".
Destroy(a) ==
  /\ a \in DOMAIN heap
  /\ heap' = [b \in DOMAIN heap \ {a} |-> heap[b]]
  /\ leaked' = leaked \cup ToSet(heap[a])
  /\ UNCHANGED <<used, items, assigned>>

\* allocate(1): the item that has been free for longest, or a new one.
Allocate(a) ==
  /\ a \in DOMAIN heap
  /\ IF heap[a] # << >>
     THEN /\ used' = used \cup {Head(heap[a])} /\ heap' = With(a, Tail(heap[a]))
          /\ UNCHANGED items
     ELSE /\ items < MaxItems /\ items' = items + 1 /\ used' = used \cup {items'}
          /\ UNCHANGED heap
  /\ UNCHANGED <<leaked, assigned>>

Deallocate(a, p) ==
  /\ a \in DOMAIN heap /\ p \in used
  /\ heap' = With(a, Append(heap[a], p))
  /\ used' = used \ {p}
  /\ UNCHANGED <<leaked, items, assigned>>

Finished == DOMAIN heap = {} /\ items + InitialItems > MaxItems /\ UNCHANGED vars

Next ==
  \/ \E a \in Allocators : Construct(a) \/ Destroy(a) \/ Allocate(a) \/ \E p \in used : Deallocate(a, p)
  \/ \E a, b \in Allocators : Copy(a, b) \/ Assign(a, b)
  \/ Finished

Spec == Init /\ [][Next]_vars
-----------------------------------------------------------------------------

\* Each item is in one place, whichever allocator it was taken from and given
\* back to: with the program, on one list and once, or lost with an allocator.
\* So no item is given out twice, unless an allocator was assigned to another.
OneOwner ==
  ~assigned =>
    \A p \in 1 .. items :
      LET places == {a \in DOMAIN heap : p \in ToSet(heap[a])} IN
      /\ \A a \in places : \A i, j \in 1 .. Len(heap[a]) : heap[a][i] = p /\ heap[a][j] = p => i = j
      /\ \/ p \in used /\ places = {} /\ p \notin leaked
         \/ p \notin used /\ p \notin leaked /\ \E a \in places : places = {a}
         \/ p \notin used /\ p \in leaked /\ places = {}
==============================================================================
