------------------------------- MODULE LruArray -------------------------------
(***************************************************************************)
(* lpt::lru_array (include/lpt/lru_array.hpp): an array of N items, an     *)
(* index by key, and an index by the time of the last push, a multimap     *)
(* that keeps items of the same time in the order they were inserted.      *)
(*                                                                         *)
(* The times come from std::chrono::high_resolution_clock, which may give  *)
(* the same time twice and, where it is the system's clock, may be set     *)
(* back.                                                                   *)
(***************************************************************************)
EXTENDS Integers, FiniteSets, Sequences, SequencesExt

CONSTANTS
  Keys, Values,
  N,         \* the template's parameter
  MaxTime,   \* bound: the latest time
  MaxPushes  \* bound: how many pushes

VARIABLES
  data,     \* _data
  numUsed,  \* _numUsed
  idxLru,   \* _idxLru, in the order of its iterators
  idxData,  \* _idxData
  now,      \* what clock_t::now() returns
  setBack,  \* whether the clock has been set back
  pushes    \* how many pushes there were

vars == <<data, numUsed, idxLru, idxData, now, setBack, pushes>>

Indices == 0 .. N - 1
Times   == 0 .. MaxTime
IdxItem == [idx : Indices, key : Keys, stamp : Times]

\* The array's elements are whatever the items' default constructor leaves.
Init ==
  /\ data \in [Indices -> Values]
  /\ numUsed = 0
  /\ idxLru = << >>
  /\ idxData = [k \in {} |-> 0]
  /\ now = 0 /\ setBack = FALSE
  /\ pushes = 0

\* multimap::insert: after the items of an earlier or of the same time.
Insert(lru, item) ==
  InsertAt(lru, Cardinality({i \in DOMAIN lru : lru[i].stamp <= item.stamp}) + 1, item)

\* The loop over equal_range(stamp) that erases key's item.
Erase(lru, stamp, key) ==
  RemoveFirstMatch(lru, LAMBDA item : item.stamp = stamp /\ item.key = key)

With(f, k, v)  == [x \in DOMAIN f \cup {k} |-> IF x = k THEN v ELSE f[x]]
Without(f, k)  == Restrict(f, DOMAIN f \ {k})
NewItem(i, k)  == [idx |-> i, key |-> k, stamp |-> now]

\* One more push.
Counted ==
  /\ pushes < MaxPushes
  /\ pushes' = pushes + 1
  /\ UNCHANGED <<now, setBack>>

-----------------------------------------------------------------------------

\* Mutant: the index by time keeps the time of the first push.
UpdateKeepsTime(k, v) ==
  /\ k \in DOMAIN idxData
  /\ data' = [data EXCEPT ![idxData[k].idx] = v]
  /\ Counted /\ UNCHANGED <<numUsed, idxLru, idxData>>

\* Mutant: the item is not erased from the index by time.
UpdateNoErase(k, v) ==
  /\ k \in DOMAIN idxData
  /\ LET item == idxData[k]
         new  == NewItem(item.idx, k)
     IN  /\ data' = [data EXCEPT ![item.idx] = v]
         /\ idxLru' = Insert(idxLru, new)
         /\ idxData' = With(Without(idxData, k), k, new)
  /\ Counted /\ UNCHANGED numUsed

\* push() of a key that is there: the item gets the new value and time.
Update(k, v) ==
  /\ k \in DOMAIN idxData
  /\ LET item == idxData[k]
         new  == NewItem(item.idx, k)
     IN  /\ data' = [data EXCEPT ![item.idx] = v]
         /\ idxLru' = Insert(Erase(idxLru, item.stamp, k), new)
         /\ idxData' = With(Without(idxData, k), k, new)
  /\ Counted /\ UNCHANGED numUsed

\* push() of a new key into a full array: it takes the place of the first item
\* of the index by time.
Replace(k, v) ==
  /\ k \notin DOMAIN idxData /\ numUsed >= N
  /\ LET old == Head(idxLru)
         new == NewItem(old.idx, k)
     IN  /\ data' = [data EXCEPT ![old.idx] = v]
         /\ idxLru' = Insert(Tail(idxLru), new)
         /\ idxData' = With(Without(idxData, old.key), k, new)
  /\ Counted /\ UNCHANGED numUsed

\* push() of a new key into an array with room left.
Add(k, v) ==
  /\ k \notin DOMAIN idxData /\ numUsed < N
  /\ LET new == NewItem(numUsed, k)
     IN  /\ data' = [data EXCEPT ![numUsed] = v]
         /\ idxLru' = Insert(idxLru, new)
         /\ idxData' = With(idxData, k, new)
  /\ numUsed' = numUsed + 1
  /\ Counted

\* Time goes by, or the clock is set back.
Tick ==
  /\ now' \in Times
  /\ setBack' = (setBack \/ now' < now)
  /\ UNCHANGED <<data, numUsed, idxLru, idxData, pushes>>

Finished == pushes = MaxPushes /\ UNCHANGED vars

Next ==
  \/ \E k \in Keys, v \in Values : Update(k, v) \/ Replace(k, v) \/ Add(k, v)
  \/ Tick
  \/ Finished

Spec == Init /\ [][Next]_vars
-----------------------------------------------------------------------------

\* The types of the array and of its two indexes.
TypeOK ==
  /\ data \in [Indices -> Values]
  /\ numUsed \in 0 .. N
  /\ idxLru \in Seq(IdxItem)
  /\ DOMAIN idxData \subseteq Keys /\ \A k \in DOMAIN idxData : idxData[k] \in IdxItem
  /\ now \in Times /\ setBack \in BOOLEAN
  /\ pushes \in Nat

\* The two indexes hold the same items, each under its own key, and the items
\* share out the used part of the array; invariant()'s assertions follow.
Consistent ==
  /\ Range(idxLru) = Range(idxData)
  /\ Len(idxLru) = Cardinality(DOMAIN idxData)
  /\ \A k \in DOMAIN idxData : idxData[k].key = k
  /\ {idxData[k].idx : k \in DOMAIN idxData} = 0 .. numUsed - 1
  /\ numUsed = Len(idxLru)

Recent ==
  [i \in DOMAIN idxLru |-> [key |-> idxLru[i].key, value |-> data[idxLru[i].idx]]]

Lru == INSTANCE LRUMap WITH recent <- Recent

\* The array, read through its indexes, is a map of the N most recent pushes,
\* as long as the clock is not set back.
ImplementsLRUMap == Lru!Init /\ [][~setBack => Lru!Next]_Recent
==============================================================================
