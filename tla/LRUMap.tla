-------------------------------- MODULE LRUMap --------------------------------
(***************************************************************************)
(* What lpt::lru_array promises: at most N items, and a full one replaces  *)
(* the item pushed longest ago.                                            *)
(***************************************************************************)
EXTENDS Naturals, Sequences, SequencesExt

CONSTANTS Keys, Values, N

VARIABLE recent  \* the items, the one pushed longest ago first

Init == recent = << >>

Push(k, v) ==
  LET others == RemoveFirstMatch(recent, LAMBDA item : item.key = k)
      kept   == IF Len(others) = N THEN Tail(others) ELSE others
  IN  recent' = Append(kept, [key |-> k, value |-> v])

Next == \E k \in Keys, v \in Values : Push(k, v)

Spec == Init /\ [][Next]_recent
==============================================================================
