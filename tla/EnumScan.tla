------------------------------- MODULE EnumScan -------------------------------
(***************************************************************************)
(* lpt::count() (enum_tools.hpp): the enumerators of an interval are       *)
(* counted one value at a time, by a recursion over an index sequence.     *)
(***************************************************************************)
EXTENDS Integers, FiniteSets

CONSTANT Limits     \* what Vmin and Vmax may be

VARIABLES vmin, vmax,
          enumerators,  \* the valid values of E
          index,        \* how many indexes are done
          counted

vars == <<vmin, vmax, enumerators, index, counted>>

Abs(n) == IF n < 0 THEN -n ELSE n

\* Mutant: the last value is left out.
ShortLength == Abs(vmin) + Abs(vmax) - 1

\* n, the length of the index sequence
Length == Abs(vmin) + Abs(vmax)

Init ==
  /\ vmin \in Limits /\ vmax \in Limits /\ vmin < vmax
  /\ \E few \in SUBSET (Limits \cup {vmin + Length - 1}) : enumerators = few
  /\ index = 0 /\ counted = 0

\* count_valid()
CountValid ==
  /\ index < Length
  /\ index' = index + 1
  /\ counted' = counted + IF vmin + index \in enumerators THEN 1 ELSE 0
  /\ UNCHANGED <<vmin, vmax, enumerators>>

Finished == index >= Length /\ UNCHANGED vars

Next == CountValid \/ Finished

Spec == Init /\ [][Next]_vars
-----------------------------------------------------------------------------

InInterval == {v \in enumerators : vmin <= v /\ v < vmax}

\* "Scan the interval [Vmin, Vmax) for valid enum E values": the result is the
\* number of enumerators there.
ScansInterval == index >= Length => counted = Cardinality(InInterval)

\* That is so for the intervals with 0 in them or at an end; every other one is
\* left behind for values outside.
ScansAroundZero == vmin <= 0 /\ 0 <= vmax => ScansInterval
==============================================================================
