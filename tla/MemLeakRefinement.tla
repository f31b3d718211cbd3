-------------------------- MODULE MemLeakRefinement --------------------------
(***************************************************************************)
(* The tracker with its threads and its mutex implements the ledger.       *)
(* alloc() takes effect when the block's record is stored, free() when it  *)
(* is taken out, report() when it marks the stacks.                        *)
(***************************************************************************)
EXTENDS MemLeak

\* The totals as the ledger has them: a block the lock's owner has counted and
\* not recorded is not there yet, one it has taken out is already uncounted.
Totals ==
  LET Less(k, size) == IF stacks[k].num_allocs = 1
                       THEN Drop(stacks, k)
                       ELSE [stacks EXCEPT ![k] = Uncounted(@, size)]
  IN  IF lock # NoThread /\ pc[lock] = "alloc_record"
      THEN Less(call[lock].key, call[lock].size)
      ELSE IF lock # NoThread /\ pc[lock] = "free_stack"
           THEN Less(call[lock].fkey, call[lock].nfree)
           ELSE stacks

Ledger == INSTANCE MemLedger
            WITH blocks <- allocations, totals <- Totals, reported <- stats.total_bytes

\* Concurrent hooks, interleaved statement by statement, change the two maps
\* as if each alloc(), free() and report() were one step.
ImplementsLedger == Ledger!Spec
==============================================================================
