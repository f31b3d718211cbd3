---------------------------- MODULE HappensBefore ----------------------------
(***************************************************************************)
(* What the C++ memory model says of one plain variable that several       *)
(* threads read and write: an access races with an earlier one of another  *)
(* thread unless it happens after it.  known[t] is the set of accesses     *)
(* whose last occurrence happens before what t does next; an atomic        *)
(* variable carries the set its last release published.                    *)
(***************************************************************************)
CONSTANT Threads

Accesses == Threads \X {"read", "write"}

\* The last accesses of other threads that an access of t must come after.
Conflicts(t, kind) ==
  {a \in Accesses : a[1] # t /\ (kind = "write" \/ a[2] = "write")}

\* Thread t accesses the variable: nobody else knows of this occurrence yet.
Touch(known, t, kind) ==
  [u \in Threads |-> IF u = t THEN known[u] \cup {<<t, kind>>}
                              ELSE known[u] \ {<<t, kind>>}]
Unpublished(sync, t, kind) == sync \ {<<t, kind>>}
==============================================================================
