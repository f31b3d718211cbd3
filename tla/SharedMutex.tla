----------------------------- MODULE SharedMutex -----------------------------
(***************************************************************************)
(* The shared_mutex of relacy/shared_mutex.h: a readers-writer spin lock   *)
(* in one atomic integer, used through unique_lock and shared_lock as in   *)
(* shared_mutex_test.cpp, to protect one plain variable.                   *)
(*                                                                         *)
(* The atomic operations have the memory orders of the code.  Which        *)
(* accesses of the protected variable happen before what a thread does is  *)
(* kept as in HappensBefore, and a relaxed load may return a value that    *)
(* other threads have overwritten since.  Failed assertions are left to    *)
(* the properties: the model goes on, as a build without them does.        *)
(***************************************************************************)
EXTENDS Integers, FiniteSets, Functions, HappensBefore

CONSTANT MaxLocks  \* bound: how many times the threads lock in all

ASSUME ThreadsAssumption == IsFiniteSet(Threads) /\ MaxLocks \in Nat

LOCK_WRITER == -1
LOCK_FREE   == 0

VARIABLES
  refcount,  \* _refcount
  sync,      \* the accesses its last release sequence published
  visible,   \* the values of _refcount each thread may still load
  known,     \* the accesses each thread comes after
  pc,        \* "idle", "lock", "load", "cas", "writing" or "reading"
  val,       \* lock_shared()'s val
  locks      \* how many times each thread has locked

vars == <<refcount, sync, visible, known, pc, val, locks>>

Init ==
  /\ refcount = LOCK_FREE
  /\ sync = Accesses
  /\ visible = [t \in Threads |-> {LOCK_FREE}]
  /\ known = [t \in Threads |-> Accesses]
  /\ pc = [t \in Threads |-> "idle"]
  /\ val = [t \in Threads |-> 0]
  /\ locks = [t \in Threads |-> 0]

Move(t, from, to) == pc[t] = from /\ pc' = [pc EXCEPT ![t] = to]

\* Thread t writes v: it can load nothing older, the others can for a while.
Modify(t, v) ==
  /\ refcount' = v
  /\ visible' = [u \in Threads |-> IF u = t THEN {v} ELSE visible[u] \cup {v}]

\* An operation with acquire order that reads the last value comes after all
\* that value's release sequence published.
AcquireOrder(t) == known' = [known EXCEPT ![t] = @ \cup sync] /\ UNCHANGED sync

\* A store with release order starts a release sequence, a read-modify-write
\* with release order adds to the one it reads from.
StoreRelease(t)  == sync' = known[t] /\ UNCHANGED known
UpdateRelease(t) == sync' = sync \cup known[t] /\ UNCHANGED known

-----------------------------------------------------------------------------

\* unique_lock's and shared_lock's constructors.
Request(t, to) ==
  /\ Move(t, "idle", to)
  /\ SumFunction(locks) < MaxLocks
  /\ locks' = [locks EXCEPT ![t] = @ + 1]
  /\ UNCHANGED <<refcount, sync, visible, known, val>>

Lock(t)       == Request(t, "lock")
LockShared(t) == Request(t, "load")

\* lock(): the compare-and-swap from 0; until it succeeds the loop changes
\* nothing.
LockSwap(t) ==
  /\ Move(t, "lock", "writing")
  /\ refcount = LOCK_FREE
  /\ Modify(t, LOCK_WRITER)
  /\ AcquireOrder(t)
  /\ UNCHANGED <<val, locks>>

\* unlock(): a store, whatever the count is.
Unlock(t) ==
  /\ Move(t, "writing", "idle")
  /\ Modify(t, LOCK_FREE)
  /\ StoreRelease(t)
  /\ UNCHANGED <<val, locks>>

\* Mutant: the inner loop does not wait for the writer.
SharedLoadAny(t) ==
  /\ Move(t, "load", "cas")
  /\ \E v \in visible[t] : val' = [val EXCEPT ![t] = v]
  /\ UNCHANGED <<refcount, sync, visible, known, locks>>

\* lock_shared(): the relaxed load, repeated while it returns LOCK_WRITER.
SharedLoad(t) ==
  /\ Move(t, "load", "cas")
  /\ \E v \in visible[t] \ {LOCK_WRITER} : val' = [val EXCEPT ![t] = v]
  /\ UNCHANGED <<refcount, sync, visible, known, locks>>

\* Mutant: the new count is stored, not compared and swapped.
SharedSwapStore(t) ==
  /\ Move(t, "cas", "reading")
  /\ Modify(t, val[t] + 1)
  /\ AcquireOrder(t)
  /\ UNCHANGED <<val, locks>>

\* lock_shared(): the compare-and-swap from the loaded value ...
SharedSwap(t) ==
  /\ Move(t, "cas", "reading")
  /\ refcount = val[t]
  /\ Modify(t, val[t] + 1)
  /\ AcquireOrder(t)
  /\ UNCHANGED <<val, locks>>

\* Mutant: a failed compare-and-swap is repeated with the value it has.
SharedRetryStale(t) ==
  /\ pc[t] = "cas"
  /\ UNCHANGED vars

\* ... which may fail, spuriously too, and then starts over.
SharedRetry(t) ==
  /\ Move(t, "cas", "load")
  /\ UNCHANGED <<refcount, sync, visible, known, val, locks>>

\* Mutant: unlock_shared() with relaxed order.
UnlockSharedRelaxed(t) ==
  /\ Move(t, "reading", "idle")
  /\ Modify(t, refcount - 1)
  /\ UNCHANGED <<sync, known, val, locks>>

\* unlock_shared(): one reader less.
UnlockShared(t) ==
  /\ Move(t, "reading", "idle")
  /\ Modify(t, refcount - 1)
  /\ UpdateRelease(t)
  /\ UNCHANGED <<val, locks>>

\* The protected variable: the writer reads and writes it, a reader reads it.
Access(t, kind) ==
  /\ pc[t] = "writing" \/ (pc[t] = "reading" /\ kind = "read")
  /\ known' = Touch(known, t, kind)
  /\ sync' = Unpublished(sync, t, kind)
  /\ UNCHANGED <<refcount, visible, pc, val, locks>>

Finished ==
  /\ \A t \in Threads : pc[t] = "idle"
  /\ SumFunction(locks) = MaxLocks
  /\ UNCHANGED vars

Next ==
  \/ \E t \in Threads :
       \/ Lock(t) \/ LockSwap(t) \/ Unlock(t)
       \/ LockShared(t) \/ SharedLoad(t) \/ SharedSwap(t) \/ SharedRetry(t)
       \/ UnlockShared(t)
       \/ Access(t, "read") \/ Access(t, "write")
  \/ Finished

Spec == Init /\ [][Next]_vars

\* lock_shared()'s load returns the last value, as it does in the end.
FreshLoad(t) == SharedLoad(t) /\ val'[t] = refcount
-----------------------------------------------------------------------------

\* What _refcount may be: LOCK_WRITER, or a number of threads.
Counts == LOCK_WRITER .. Cardinality(Threads)

\* The types of _refcount, of the locals and of the history of the accesses.
TypeOK ==
  /\ refcount \in Counts
  /\ sync \subseteq Accesses
  /\ visible \in [Threads -> SUBSET Counts]
  /\ known \in [Threads -> SUBSET Accesses]
  /\ pc \in [Threads -> {"idle", "lock", "load", "cas", "writing", "reading"}]
  /\ val \in [Threads -> Counts]
  /\ locks \in [Threads -> Nat]

Readers == {t \in Threads : pc[t] = "reading"}
Writers == {t \in Threads : pc[t] = "writing"}

\* shared_mutex's own comment: the count is 0 if no thread holds the lock, the
\* number of readers if they do, and -1 if a single writer does.
RefcountMeaning ==
  \/ Writers = {} /\ refcount = Cardinality(Readers)
  \/ Readers = {} /\ refcount = LOCK_WRITER /\ \E t \in Threads : Writers = {t}

\* The memory orders suffice: whoever holds the lock comes after every earlier
\* access of the protected variable that conflicts with its own.
NoDataRace ==
  \A t \in Threads :
    /\ pc[t] = "writing" => Conflicts(t, "write") \subseteq known[t]
    /\ pc[t] = "reading" => Conflicts(t, "read") \subseteq known[t]

RW == INSTANCE RWLock WITH readers <- Readers, writers <- Writers

\* The spin lock is a readers-writer lock.
ImplementsRWLock == RW!Spec

\* lock_shared()'s RL_ASSERT(val == 0) after its inner loop.
AssertNoReader == \A t \in Threads : pc[t] = "cas" => val[t] = 0
==============================================================================
