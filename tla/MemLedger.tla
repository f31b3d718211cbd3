------------------------------ MODULE MemLedger ------------------------------
(***************************************************************************)
(* What libmemleak's tracker (report.cpp) promises its callers, without    *)
(* threads, locks or positions in the code: a ledger of blocks and of      *)
(* totals per call stack in which every entry is made, taken out or        *)
(* reported in one step, so that nobody ever sees a block counted and not  *)
(* recorded, or a report that mixes two moments.                           *)
(***************************************************************************)
EXTENDS Integers, Functions

CONSTANTS Ptrs, Keys, NoKey, Sizes, WordSize

VARIABLES
  blocks,    \* address -> the size and call stack it was recorded with
  totals,    \* call stack -> bytes, blocks, and bytes at the last report
  reported   \* the total of the last report

ledger == <<blocks, totals, reported>>

Init == blocks = << >> /\ totals = << >> /\ reported = 0

\* The totals once one more block of `size' bytes is allocated on stack k; the
\* first block opens the stack's entry and its bytes are not added.
With(k, size) ==
  [s \in DOMAIN totals \cup {k} |->
     IF s # k THEN totals[s]
     ELSE IF k \in DOMAIN totals
          THEN [totals[k] EXCEPT !.num_allocs = @ + 1, !.num_bytes = (@ + size) % WordSize]
          ELSE [num_bytes |-> 0, num_allocs |-> 1, prev_num_bytes |-> 0]]

\* The totals once a block of `size' bytes of stack k is gone; the last block
\* closes the entry.
Without(k, size) ==
  IF k = NoKey THEN totals
  ELSE IF totals[k].num_allocs = 1
       THEN Restrict(totals, DOMAIN totals \ {k})
       ELSE [totals EXCEPT ![k].num_allocs = @ - 1, ![k].num_bytes = (@ - size) % WordSize]

\* An address may be entered again without having left: the old entry is lost,
\* its stack goes on counting it.
Enter(ptr, size, k) ==
  /\ blocks' = [p \in DOMAIN blocks \cup {ptr} |->
                  IF p = ptr THEN [num_bytes |-> size, key |-> k] ELSE blocks[p]]
  /\ totals' = With(k, size)
  /\ UNCHANGED reported

Leave(ptr) ==
  /\ ptr \in DOMAIN blocks
  /\ blocks' = Restrict(blocks, DOMAIN blocks \ {ptr})
  /\ totals' = Without(blocks[ptr].key, blocks[ptr].num_bytes)
  /\ UNCHANGED reported

Report ==
  /\ reported' = SumFunction([k \in DOMAIN totals |-> totals[k].num_bytes]) % WordSize
  /\ totals' = [k \in DOMAIN totals |->
                  [totals[k] EXCEPT !.prev_num_bytes = totals[k].num_bytes]]
  /\ UNCHANGED blocks

Next ==
  \/ \E ptr \in Ptrs, size \in Sizes, k \in Keys : Enter(ptr, size, k)
  \/ \E ptr \in Ptrs : Leave(ptr)
  \/ Report

Spec == Init /\ [][Next]_ledger
==============================================================================
