------------------------------- MODULE LockProofs -------------------------------
(***************************************************************************)
(* Proofs about the two spin locks for any finite set of threads, each     *)
(* locking any number of times: SharedMutex, and Spinlock as MCLocks'      *)
(* instance Spin.                                                          *)
(***************************************************************************)
EXTENDS MCLocks, FiniteSetTheorems, TLAPS

-----------------------------------------------------------------------------
(* SharedMutex.                                                            *)

\* A thread always comes after its own last accesses.
KnowsOwn ==
  \A t \in Threads : <<t, "read">> \in known[t] /\ <<t, "write">> \in known[t]

\* While there is no writer, the atomic publishes every write, and every read
\* of a thread that is not reading now.
Published ==
  Writers = {} =>
    \A t \in Threads : /\ <<t, "write">> \in sync
                       /\ pc[t] # "reading" => <<t, "read">> \in sync

\* lock_shared() never tries to swap from LOCK_WRITER.
Loaded == \A t \in Threads : pc[t] = "cas" => val[t] # LOCK_WRITER

\* The inductive invariant: NoDataRace follows at the moment a thread enters
\* from what the others have published by then.
IInv == TypeOK /\ RefcountMeaning /\ KnowsOwn /\ Published /\ Loaded /\ NoDataRace

\* The sizes of the set of readers.
LEMMA ReaderCounts ==
  /\ IsFiniteSet(Readers)
  /\ Cardinality(Readers) \in Nat /\ Cardinality(Readers) <= Cardinality(Threads)
  /\ Cardinality(Threads) \in Nat
  <1>1. Readers \subseteq Threads
    BY DEF Readers
  <1>2. QED
    BY <1>1, ThreadsAssumption, FS_Subset, FS_CardinalityType

\* Nobody holds the mutex when it is made, and all know the variable's past.
LEMMA InitInv == Init => IInv
  <1> SUFFICES ASSUME Init PROVE IInv
    OBVIOUS
  <1>1. Readers = {} /\ Writers = {}
    BY DEF Init, Readers, Writers
  <1>2. RefcountMeaning
    BY <1>1, FS_EmptySet DEF Init, RefcountMeaning, LOCK_FREE
  <1>3. 0 \in Counts
    BY ReaderCounts DEF Counts, LOCK_WRITER
  <1>4. TypeOK
    BY <1>3 DEF Init, TypeOK, LOCK_FREE
  <1>5. KnowsOwn /\ Published /\ Loaded /\ NoDataRace
    BY DEF Init, KnowsOwn, Published, Loaded, NoDataRace, Accesses, Conflicts
  <1>6. QED
    BY <1>2, <1>4, <1>5 DEF IInv

-----------------------------------------------------------------------------
(* What each action does to the holders and to the count.                  *)

\* What a thread may still load are counts, once another count is stored.
LEMMA ModifyType ==
  ASSUME TypeOK, NEW t \in Threads, NEW v \in Counts, Modify(t, v)
  PROVE  refcount' \in Counts /\ visible' \in [Threads -> SUBSET Counts]
  BY DEF TypeOK, Modify

\* A thread that neither enters nor leaves changes no holder.
LEMMA Bystander ==
  ASSUME TypeOK, NEW t \in Threads, NEW from, NEW to, Move(t, from, to),
         from \notin {"reading", "writing"}, to \notin {"reading", "writing"}
  PROVE  /\ Readers' = Readers /\ Writers' = Writers
         /\ \A u \in Threads : \A h \in {"reading", "writing"} :
               (pc'[u] = h) <=> (pc[u] = h)
  BY DEF TypeOK, Move, Readers, Writers

\* Asking for the mutex, loading the count and starting over keep everything.
LEMMA WaitStep ==
  ASSUME IInv, NEW t \in Threads,
         Lock(t) \/ LockShared(t) \/ SharedLoad(t) \/ SharedRetry(t)
  PROVE  IInv' /\ Readers' = Readers /\ Writers' = Writers
  <1>1. UNCHANGED <<refcount, sync, visible, known>>
    BY DEF Lock, LockShared, Request, SharedLoad, SharedRetry
  <1>2. PICK from \in {"idle", "load", "cas"}, to \in {"lock", "load", "cas"} :
          Move(t, from, to)
    BY DEF Lock, LockShared, Request, SharedLoad, SharedRetry
  <1>3. /\ Readers' = Readers /\ Writers' = Writers
        /\ \A u \in Threads : \A h \in {"reading", "writing"} :
              (pc'[u] = h) <=> (pc[u] = h)
    BY <1>2, Bystander DEF IInv
  <1>4. TypeOK'
    <2>1. pc' \in [Threads -> {"idle", "lock", "load", "cas", "writing", "reading"}]
      BY <1>2 DEF IInv, TypeOK, Move
    <2>2. val' \in [Threads -> Counts] /\ locks' \in [Threads -> Nat]
      BY DEF IInv, TypeOK, Lock, LockShared, Request, SharedLoad, SharedRetry
    <2>3. QED
      BY <1>1, <2>1, <2>2 DEF IInv, TypeOK
  <1>5. RefcountMeaning' /\ KnowsOwn'
    BY <1>1, <1>3 DEF IInv, RefcountMeaning, KnowsOwn
  <1>6. Published' /\ NoDataRace'
    BY <1>1, <1>3 DEF IInv, Published, NoDataRace
  <1>7. Loaded'
    BY DEF IInv, TypeOK, Loaded, Lock, LockShared, Request, SharedLoad, SharedRetry, Move
  <1>8. QED
    BY <1>3, <1>4, <1>5, <1>6, <1>7 DEF IInv

\* The writer enters: nobody is inside and everything is published.
LEMMA LockStep ==
  ASSUME IInv, NEW t \in Threads, LockSwap(t)
  PROVE  /\ IInv'
         /\ Readers = {} /\ Writers = {} /\ Readers' = {} /\ Writers' = {t}
  <1>1. /\ pc[t] = "lock" /\ pc' = [pc EXCEPT ![t] = "writing"] /\ refcount = 0
        /\ refcount' = LOCK_WRITER /\ UNCHANGED <<sync, val, locks>>
        /\ known' = [known EXCEPT ![t] = known[t] \cup sync]
    BY DEF LockSwap, Move, Modify, AcquireOrder, LOCK_FREE
  <1>2. Writers = {} /\ Cardinality(Readers) = 0
    BY <1>1 DEF IInv, RefcountMeaning, LOCK_WRITER
  <1>3. Readers = {}
    BY <1>2, ReaderCounts, FS_EmptySet
  <1>4. Readers' = {} /\ Writers' = {t}
    BY <1>1, <1>2, <1>3 DEF IInv, TypeOK, Readers, Writers
  <1>5. LOCK_WRITER \in Counts
    BY ReaderCounts DEF Counts, LOCK_WRITER
  <1>6. TypeOK'
    <2>1. refcount' \in Counts /\ visible' \in [Threads -> SUBSET Counts]
      BY <1>5, ModifyType DEF LockSwap, IInv
    <2>2. QED
      BY <1>1, <2>1 DEF IInv, TypeOK
  <1>7. RefcountMeaning'
    BY <1>1, <1>4 DEF RefcountMeaning
  <1>8. KnowsOwn'
    BY <1>1 DEF IInv, TypeOK, KnowsOwn
  <1>9. Published'
    BY <1>4 DEF Published
  <1>10. NoDataRace'
    <2>1. Accesses \subseteq known'[t]
      <3>1. \A u \in Threads : <<u, "write">> \in sync /\ <<u, "read">> \in sync
        BY <1>2, <1>3 DEF IInv, Published, Readers
      <3>2. ASSUME NEW a \in Accesses PROVE a \in sync
        <4>1. PICK u \in Threads, k \in {"read", "write"} : a = <<u, k>>
          BY DEF Accesses
        <4>2. QED
          BY <3>1, <4>1
      <3>3. QED
        BY <1>1, <3>2 DEF IInv, TypeOK
    <2>2. \A u \in Threads \ {t} : pc'[u] \notin {"writing", "reading"}
      BY <1>4 DEF Readers, Writers
    <2>3. pc'[t] = "writing"
      BY <1>1 DEF IInv, TypeOK
    <2>4. QED
      BY <2>1, <2>2, <2>3 DEF NoDataRace, Conflicts
  <1>11. Loaded'
    BY <1>1 DEF IInv, TypeOK, Loaded
  <1>12. QED
    BY <1>2, <1>3, <1>4, <1>6, <1>7, <1>8, <1>9, <1>10, <1>11 DEF IInv

\* The writer leaves and publishes all it comes after, which is everything.
LEMMA UnlockStep ==
  ASSUME IInv, NEW t \in Threads, Unlock(t)
  PROVE  /\ IInv'
         /\ Writers = {t} /\ Readers' = Readers /\ Writers' = {}
  <1>1. /\ pc[t] = "writing" /\ pc' = [pc EXCEPT ![t] = "idle"]
        /\ refcount' = 0 /\ UNCHANGED <<known, val, locks>> /\ sync' = known[t]
    BY DEF Unlock, Move, Modify, StoreRelease, LOCK_FREE
  <1>2. Readers = {} /\ Writers = {t}
    BY <1>1 DEF IInv, RefcountMeaning, Writers
  <1>3. Readers' = {} /\ Writers' = {}
    BY <1>1, <1>2 DEF IInv, TypeOK, Readers, Writers
  <1>4. TypeOK'
    <2>1. LOCK_FREE \in Counts
      BY ReaderCounts DEF Counts, LOCK_WRITER, LOCK_FREE
    <2>2. refcount' \in Counts /\ visible' \in [Threads -> SUBSET Counts]
      BY <2>1, ModifyType DEF Unlock, IInv
    <2>3. QED
      BY <1>1, <2>2 DEF IInv, TypeOK
  <1>5. RefcountMeaning'
    BY <1>1, <1>3, FS_EmptySet DEF RefcountMeaning
  <1>6. KnowsOwn'
    BY <1>1 DEF IInv, KnowsOwn
  <1>7. Published'
    <2>1. \A u \in Threads \ {t} : <<u, "write">> \in known[t] /\ <<u, "read">> \in known[t]
      BY <1>1 DEF IInv, NoDataRace, Conflicts, Accesses
    <2>2. QED
      BY <1>1, <2>1 DEF IInv, KnowsOwn, Published
  <1>8. NoDataRace'
    BY <1>3 DEF NoDataRace, Readers, Writers
  <1>9. Loaded'
    BY <1>1 DEF IInv, TypeOK, Loaded
  <1>10. QED
    BY <1>2, <1>3, <1>4, <1>5, <1>6, <1>7, <1>8, <1>9 DEF IInv

\* A reader enters: no writer is inside and every write is published.
LEMMA SharedLockStep ==
  ASSUME IInv, NEW t \in Threads, SharedSwap(t)
  PROVE  /\ IInv'
         /\ t \notin Readers /\ Writers = {} /\ Readers' = Readers \cup {t} /\ Writers' = {}
  <1>1. /\ pc[t] = "cas" /\ pc' = [pc EXCEPT ![t] = "reading"] /\ refcount = val[t]
        /\ refcount' = val[t] + 1 /\ UNCHANGED <<sync, val, locks>>
        /\ known' = [known EXCEPT ![t] = known[t] \cup sync]
    BY DEF SharedSwap, Move, Modify, AcquireOrder
  <1>2. Writers = {} /\ refcount = Cardinality(Readers)
    BY <1>1 DEF IInv, RefcountMeaning, Loaded
  <1>3. t \notin Readers /\ Readers' = Readers \cup {t} /\ Writers' = {}
    BY <1>1, <1>2 DEF IInv, TypeOK, Readers, Writers
  <1>4. /\ Cardinality(Readers') = Cardinality(Readers) + 1
        /\ Cardinality(Readers') <= Cardinality(Threads)
    <2>1. Readers' \subseteq Threads
      BY DEF Readers
    <2>2. QED
      BY <1>3, <2>1, ReaderCounts, ThreadsAssumption, FS_AddElement, FS_Subset
  <1>5. TypeOK'
    <2>1. val[t] + 1 \in Counts
      BY <1>1, <1>2, <1>4, ReaderCounts DEF Counts, LOCK_WRITER
    <2>2. refcount' \in Counts /\ visible' \in [Threads -> SUBSET Counts]
      BY <2>1, ModifyType DEF SharedSwap, IInv
    <2>3. QED
      BY <1>1, <2>2 DEF IInv, TypeOK
  <1>6. RefcountMeaning'
    BY <1>1, <1>2, <1>3, <1>4 DEF RefcountMeaning
  <1>7. KnowsOwn'
    BY <1>1 DEF IInv, TypeOK, KnowsOwn
  <1>8. Published'
    BY <1>1, <1>2, <1>3 DEF IInv, TypeOK, Published
  <1>9. NoDataRace'
    <2>1. Conflicts(t, "read") \subseteq known'[t]
      <3>1. \A u \in Threads : <<u, "write">> \in sync
        BY <1>2 DEF IInv, Published
      <3>2. Conflicts(t, "read") \subseteq sync
        BY <3>1 DEF Conflicts, Accesses
      <3>3. QED
        BY <1>1, <3>2 DEF IInv, TypeOK
    <2>2. \A u \in Threads \ {t} : known'[u] = known[u] /\ pc'[u] = pc[u]
      BY <1>1 DEF IInv, TypeOK
    <2>3. pc'[t] = "reading"
      BY <1>1 DEF IInv, TypeOK
    <2>4. QED
      BY <2>1, <2>2, <2>3 DEF IInv, NoDataRace
  <1>10. Loaded'
    BY <1>1 DEF IInv, TypeOK, Loaded
  <1>11. QED
    BY <1>2, <1>3, <1>5, <1>6, <1>7, <1>8, <1>9, <1>10 DEF IInv

\* A reader leaves and publishes its reads.
LEMMA SharedUnlockStep ==
  ASSUME IInv, NEW t \in Threads, UnlockShared(t)
  PROVE  /\ IInv'
         /\ t \in Readers /\ Readers' = Readers \ {t} /\ Writers' = Writers
  <1>1. /\ pc[t] = "reading" /\ pc' = [pc EXCEPT ![t] = "idle"]
        /\ refcount' = refcount - 1 /\ UNCHANGED <<known, val, locks>>
        /\ sync' = sync \cup known[t]
    BY DEF UnlockShared, Move, Modify, UpdateRelease
  <1>2. t \in Readers
    BY <1>1 DEF Readers
  <1>3. Writers = {} /\ refcount = Cardinality(Readers)
    BY <1>2 DEF IInv, RefcountMeaning
  <1>4. Readers' = Readers \ {t} /\ Writers' = {}
    BY <1>1, <1>3 DEF IInv, TypeOK, Readers, Writers
  <1>5. Cardinality(Readers') = Cardinality(Readers) - 1 /\ Cardinality(Readers') \in Nat
    <2>1. IsFiniteSet(Readers')
      BY <1>4, ReaderCounts, FS_Subset
    <2>2. QED
      BY <1>2, <1>4, <2>1, ReaderCounts, FS_RemoveElement, FS_CardinalityType
  <1>6. TypeOK'
    <2>1. refcount - 1 \in Counts
      BY <1>3, <1>5, ReaderCounts DEF Counts, LOCK_WRITER
    <2>2. refcount' \in Counts /\ visible' \in [Threads -> SUBSET Counts]
      BY <2>1, ModifyType DEF UnlockShared, IInv
    <2>3. QED
      BY <1>1, <2>2 DEF IInv, TypeOK
  <1>7. RefcountMeaning'
    BY <1>1, <1>3, <1>4, <1>5 DEF RefcountMeaning
  <1>8. KnowsOwn'
    BY <1>1 DEF IInv, KnowsOwn
  <1>9. Published'
    BY <1>1, <1>3 DEF IInv, TypeOK, Published, KnowsOwn
  <1>10. NoDataRace'
    BY <1>1 DEF IInv, TypeOK, NoDataRace
  <1>11. Loaded'
    BY <1>1 DEF IInv, TypeOK, Loaded
  <1>12. QED
    BY <1>2, <1>3, <1>4, <1>6, <1>7, <1>8, <1>9, <1>10, <1>11 DEF IInv

\* Whoever holds the mutex accesses the variable.
LEMMA AccessStep ==
  ASSUME IInv, NEW t \in Threads, NEW kind \in {"read", "write"}, Access(t, kind)
  PROVE  IInv' /\ Readers' = Readers /\ Writers' = Writers
  <1>1. /\ UNCHANGED <<refcount, visible, pc, val, locks>>
        /\ known' = Touch(known, t, kind) /\ sync' = Unpublished(sync, t, kind)
    BY DEF Access
  <1>2. Readers' = Readers /\ Writers' = Writers
    BY <1>1 DEF Readers, Writers
  <1>3. TypeOK'
    BY <1>1 DEF IInv, TypeOK, Touch, Unpublished, Accesses
  <1>4. RefcountMeaning'
    BY <1>1, <1>2 DEF IInv, RefcountMeaning
  <1>5. KnowsOwn'
    BY <1>1 DEF IInv, TypeOK, KnowsOwn, Touch
  <1>a. Loaded'
    BY <1>1 DEF IInv, Loaded
  <1>6. CASE pc[t] = "writing"
    <2>1. Writers = {t} /\ Readers = {}
      BY <1>6 DEF IInv, RefcountMeaning, Writers
    <2>2. Published'
      BY <1>2, <2>1 DEF Published
    <2>3. \A u \in Threads \ {t} : pc'[u] \notin {"writing", "reading"}
      BY <1>1, <2>1 DEF Readers, Writers
    <2>4. Conflicts(t, "write") \subseteq known'[t]
      BY <1>1, <1>6 DEF IInv, TypeOK, NoDataRace, Touch
    <2>5. QED
      BY <1>1, <1>2, <1>3, <1>4, <1>5, <1>a, <1>6, <2>2, <2>3, <2>4 DEF IInv, NoDataRace
  <1>7. CASE pc[t] = "reading" /\ kind = "read"
    <2>1. Writers = {}
      <3>1. t \in Readers
        BY <1>7 DEF Readers
      <3>2. QED
        BY <3>1 DEF IInv, RefcountMeaning
    <2>2. Published'
      BY <1>1, <1>2, <1>7, <2>1 DEF IInv, Published, Unpublished
    <2>3. \A u \in Threads : Conflicts(u, "read") \cap known[u] \subseteq known'[u]
      BY <1>1, <1>7 DEF IInv, TypeOK, Touch, Conflicts
    <2>4. NoDataRace'
      BY <1>1, <1>2, <2>1, <2>3 DEF IInv, NoDataRace, Writers
    <2>5. QED
      BY <1>2, <1>3, <1>4, <1>5, <1>a, <2>2, <2>4 DEF IInv
  <1>8. QED
    BY <1>6, <1>7 DEF Access

-----------------------------------------------------------------------------
(* The theorems.                                                           *)

\* Every step keeps the invariant and is a step of the readers-writer lock, or
\* changes no holder.
LEMMA NextStep ==
  ASSUME IInv, [Next]_vars
  PROVE  IInv' /\ [RW!Next]_<<Readers, Writers>>
  <1> USE DEF RW!Next, RW!StartRead, RW!EndRead, RW!StartWrite, RW!EndWrite
  <1>1. ASSUME NEW t \in Threads,
               Lock(t) \/ LockShared(t) \/ SharedLoad(t) \/ SharedRetry(t)
        PROVE  IInv' /\ [RW!Next]_<<Readers, Writers>>
    BY <1>1, WaitStep
  <1>2. ASSUME NEW t \in Threads, LockSwap(t)
        PROVE  IInv' /\ [RW!Next]_<<Readers, Writers>>
    BY <1>2, LockStep
  <1>3. ASSUME NEW t \in Threads, Unlock(t)
        PROVE  IInv' /\ [RW!Next]_<<Readers, Writers>>
    BY <1>3, UnlockStep
  <1>4. ASSUME NEW t \in Threads, SharedSwap(t)
        PROVE  IInv' /\ [RW!Next]_<<Readers, Writers>>
    BY <1>4, SharedLockStep
  <1>5. ASSUME NEW t \in Threads, UnlockShared(t)
        PROVE  IInv' /\ [RW!Next]_<<Readers, Writers>>
    BY <1>5, SharedUnlockStep
  <1>6. ASSUME NEW t \in Threads, Access(t, "read") \/ Access(t, "write")
        PROVE  IInv' /\ [RW!Next]_<<Readers, Writers>>
    BY <1>6, AccessStep
  <1>7. CASE UNCHANGED vars
    <2>1. Readers' = Readers /\ Writers' = Writers
      BY <1>7 DEF vars, Readers, Writers
    <2>2. IInv'
      BY <1>7, <2>1 DEF vars, IInv, TypeOK, RefcountMeaning, KnowsOwn, Published, Loaded, NoDataRace
    <2>3. QED
      BY <2>1, <2>2
  <1>8. QED
    BY <1>1, <1>2, <1>3, <1>4, <1>5, <1>6, <1>7 DEF Next, Finished

\* The inductive invariant holds of every use of the mutex.
THEOREM Invariance == Spec => []IInv
  <1>1. IInv /\ [Next]_vars => IInv'
    BY NextStep
  <1>2. QED
    BY <1>1, InitInv, PTL DEF Spec

\* The count stays between LOCK_WRITER and the number of threads.
THEOREM TypeCorrect == Spec => []TypeOK
  <1>1. IInv => TypeOK
    BY DEF IInv
  <1>2. QED
    BY <1>1, Invariance, PTL

\* _refcount means what its comment says, whatever the interleaving.
THEOREM CountIsRight == Spec => []RefcountMeaning
  <1>1. IInv => RefcountMeaning
    BY DEF IInv
  <1>2. QED
    BY <1>1, Invariance, PTL

\* Acquire on the compare-and-swaps and release on the store and on the
\* subtraction order every pair of conflicting accesses.
THEOREM RaceFree == Spec => []NoDataRace
  <1>1. IInv => NoDataRace
    BY DEF IInv
  <1>2. QED
    BY <1>1, Invariance, PTL

\* The spin lock implements the readers-writer lock: readers exclude writers
\* and a writer excludes everybody.
THEOREM IsRWLock == Spec => ImplementsRWLock
  <1>1. Init => RW!Init
    BY DEF Init, RW!Init, Readers, Writers
  <1>2. IInv /\ [Next]_vars => [RW!Next]_<<Readers, Writers>>
    BY NextStep
  <1>3. QED
    BY <1>1, <1>2, Invariance, PTL DEF Spec, ImplementsRWLock, RW!Spec

-----------------------------------------------------------------------------
(* Spinlock.                                                               *)

\* A thread always comes after its own last accesses.
SpinKnowsOwn ==
  \A t \in Threads : <<t, "read">> \in spinKnown[t] /\ <<t, "write">> \in spinKnown[t]

\* While the flag is clear, it publishes every access of the counter.
SpinPublished == flag = 0 => Spin!Accesses \subseteq spinSync

\* The inductive invariant: who finds the flag clear comes after everybody.
SpinIInv == Spin!TypeOK /\ Spin!Exclusion /\ SpinKnowsOwn /\ SpinPublished /\ Spin!NoDataRace

\* The lock is free when it is made, and all know the counter's past.
LEMMA SpinInitInv == Spin!Init => SpinIInv
  <1> SUFFICES ASSUME Spin!Init PROVE SpinIInv
    OBVIOUS
  <1>1. Spin!TypeOK
    BY DEF Spin!Init, Spin!TypeOK
  <1>2. Spin!Exclusion
    BY DEF Spin!Init, Spin!Exclusion, Spin!Inside
  <1>3. SpinKnowsOwn /\ SpinPublished /\ Spin!NoDataRace
    BY DEF Spin!Init, SpinKnowsOwn, SpinPublished, Spin!NoDataRace, Spin!Accesses, Spin!Conflicts
  <1>4. QED
    BY <1>1, <1>2, <1>3 DEF SpinIInv

\* Waiting, in any of its forms, changes nothing the lock is made of.
LEMMA SpinWaitStep ==
  ASSUME SpinIInv, NEW t \in Threads, Spin!Lock(t) \/ Spin!Load(t) \/ Spin!Body(t) \/ Spin!Wake(t)
  PROVE  SpinIInv'
  <1>1. UNCHANGED <<flag, spinSync, spinVisible, spinKnown, counter, read>>
    BY DEF Spin!Lock, Spin!Load, Spin!Body, Spin!Wake, Spin!memory
  <1>2. PICK from \in {"idle", "load", "body", "asleep"},
             to \in {"load", "exchange", "body", "asleep"} :
          spinPc[t] = from /\ spinPc' = [spinPc EXCEPT ![t] = to]
    BY DEF Spin!Lock, Spin!Load, Spin!Body, Spin!Wake, Spin!Move
  <1>3. \A u \in Threads : (spinPc'[u] \in Spin!Inside) <=> (spinPc[u] \in Spin!Inside)
    BY <1>2 DEF SpinIInv, Spin!TypeOK, Spin!Inside
  <1>4. Spin!TypeOK'
    <2>1. spinPc' \in [Threads -> {"idle", "load", "exchange", "body", "asleep",
                               "held", "adding", "added"}]
      BY <1>2 DEF SpinIInv, Spin!TypeOK
    <2>2. spins' \in [Threads -> 0 .. 8]
      BY DEF SpinIInv, Spin!TypeOK, Spin!Lock, Spin!Load, Spin!Body, Spin!Wake
    <2>3. spinLocks' \in [Threads -> Nat]
      BY DEF SpinIInv, Spin!TypeOK, Spin!Lock, Spin!Load, Spin!Body, Spin!Wake
    <2>4. QED
      BY <1>1, <2>1, <2>2, <2>3 DEF SpinIInv, Spin!TypeOK
  <1>5. Spin!Exclusion' /\ Spin!NoDataRace'
    BY <1>1, <1>3 DEF SpinIInv, Spin!Exclusion, Spin!NoDataRace
  <1>6. SpinKnowsOwn' /\ SpinPublished'
    BY <1>1 DEF SpinIInv, SpinKnowsOwn, SpinPublished
  <1>7. QED
    BY <1>4, <1>5, <1>6 DEF SpinIInv

\* The exchange: who finds the flag clear enters alone, and comes after all
\* that the flag published; who finds it set leaves it set.
LEMMA ExchangeStep ==
  ASSUME SpinIInv, NEW t \in Threads, Spin!Exchange(t)
  PROVE  SpinIInv'
  <1>1. /\ spinPc[t] = "exchange"
        /\ spinPc' = [spinPc EXCEPT ![t] = IF flag = 0 THEN "held" ELSE "body"]
        /\ flag' = 1 /\ spinKnown' = [spinKnown EXCEPT ![t] = spinKnown[t] \cup spinSync]
        /\ spinVisible' = [u \in Threads |-> IF u = t THEN {1} ELSE spinVisible[u] \cup {1}]
        /\ UNCHANGED <<spinSync, spins, counter, read, spinLocks>>
    BY DEF Spin!Exchange, Spin!Move, Spin!Modify
  <1>2. Spin!TypeOK'
    BY <1>1 DEF SpinIInv, Spin!TypeOK
  <1>3. SpinKnowsOwn' /\ SpinPublished'
    BY <1>1 DEF SpinIInv, Spin!TypeOK, SpinKnowsOwn, SpinPublished
  <1>4. CASE flag = 0
    <2>1. \A u \in Threads : spinPc[u] \notin Spin!Inside
      BY <1>4 DEF SpinIInv, Spin!Exclusion
    <2>2. \A u \in Threads : (spinPc'[u] \in Spin!Inside) <=> u = t
      BY <1>1, <1>4, <2>1 DEF SpinIInv, Spin!TypeOK, Spin!Inside
    <2>3. Spin!Exclusion'
      BY <1>1, <2>2 DEF Spin!Exclusion
    <2>4. Spin!Accesses \subseteq spinKnown'[t]
      BY <1>1, <1>4 DEF SpinIInv, Spin!TypeOK, SpinPublished
    <2>5. Spin!NoDataRace'
      BY <2>2, <2>4 DEF Spin!NoDataRace, Spin!Conflicts
    <2>6. QED
      BY <1>2, <1>3, <2>3, <2>5 DEF SpinIInv
  <1>5. CASE flag # 0
    <2>1. flag = 1
      BY <1>5 DEF SpinIInv, Spin!TypeOK
    <2>2. \A u \in Threads : (spinPc'[u] \in Spin!Inside) <=> (spinPc[u] \in Spin!Inside)
      BY <1>1, <1>5 DEF SpinIInv, Spin!TypeOK, Spin!Inside
    <2>3. Spin!Exclusion'
      BY <1>1, <2>1, <2>2 DEF SpinIInv, Spin!Exclusion
    <2>4. Spin!NoDataRace'
      BY <1>1, <2>2 DEF SpinIInv, Spin!TypeOK, Spin!NoDataRace
    <2>5. QED
      BY <1>2, <1>3, <2>3, <2>4 DEF SpinIInv
  <1>6. QED
    BY <1>4, <1>5

\* The holder accesses the counter: its rivals are outside, and the flag is set.
LEMMA SpinAccessStep ==
  ASSUME SpinIInv, NEW t \in Threads, Spin!Read(t) \/ Spin!Add(t)
  PROVE  SpinIInv'
  <1>1. PICK kind \in {"read", "write"} :
          spinKnown' = Spin!Touch(spinKnown, t, kind) /\ spinSync' = Spin!Unpublished(spinSync, t, kind)
    BY DEF Spin!Read, Spin!Add
  <1>2. PICK from \in {"held", "adding"}, to \in {"adding", "added"} :
          spinPc[t] = from /\ spinPc' = [spinPc EXCEPT ![t] = to]
    BY DEF Spin!Read, Spin!Add, Spin!Move
  <1>3. UNCHANGED <<flag, spinVisible, spins, spinLocks>>
    BY DEF Spin!Read, Spin!Add
  <1>4. /\ spinPc[t] \in Spin!Inside
        /\ \A u \in Threads : (spinPc'[u] \in Spin!Inside) <=> (spinPc[u] \in Spin!Inside)
    BY <1>2 DEF SpinIInv, Spin!TypeOK, Spin!Inside
  <1>5. Spin!TypeOK'
    <2>1. counter' \in Nat /\ read' \in [Threads -> Nat]
      BY DEF SpinIInv, Spin!TypeOK, Spin!Read, Spin!Add
    <2>2. spinSync' \subseteq Spin!Accesses /\ spinKnown' \in [Threads -> SUBSET Spin!Accesses]
      BY <1>1 DEF SpinIInv, Spin!TypeOK, Spin!Touch, Spin!Unpublished, Spin!Accesses
    <2>3. spinPc' \in [Threads -> {"idle", "load", "exchange", "body", "asleep",
                               "held", "adding", "added"}]
      BY <1>2 DEF SpinIInv, Spin!TypeOK
    <2>4. QED
      BY <1>3, <2>1, <2>2, <2>3 DEF SpinIInv, Spin!TypeOK
  <1>6. Spin!Exclusion'
    BY <1>3, <1>4 DEF SpinIInv, Spin!Exclusion
  <1>7. SpinKnowsOwn'
    BY <1>1 DEF SpinIInv, Spin!TypeOK, SpinKnowsOwn, Spin!Touch
  <1>8. SpinPublished'
    <2>1. flag = 1
      BY <1>4 DEF SpinIInv, Spin!Exclusion
    <2>2. QED
      BY <1>3, <2>1 DEF SpinPublished
  <1>9. Spin!NoDataRace'
    <2>1. \A u \in Threads : spinPc'[u] \in Spin!Inside => u = t
      BY <1>4 DEF SpinIInv, Spin!Exclusion
    <2>2. Spin!Conflicts(t, "write") \subseteq spinKnown'[t]
      BY <1>1, <1>4 DEF SpinIInv, Spin!TypeOK, Spin!NoDataRace, Spin!Touch
    <2>3. QED
      BY <2>1, <2>2 DEF Spin!NoDataRace
  <1>10. QED
    BY <1>5, <1>6, <1>7, <1>8, <1>9 DEF SpinIInv

\* The holder clears the flag and publishes all it comes after, everything.
LEMMA SpinUnlockStep ==
  ASSUME SpinIInv, NEW t \in Threads, Spin!Unlock(t)
  PROVE  SpinIInv'
  <1>1. /\ spinPc[t] = "added" /\ spinPc' = [spinPc EXCEPT ![t] = "idle"]
        /\ flag' = 0 /\ spinSync' = spinKnown[t]
        /\ spinVisible' = [u \in Threads |-> IF u = t THEN {0} ELSE spinVisible[u] \cup {0}]
        /\ UNCHANGED <<spinKnown, spins, counter, read, spinLocks>>
    BY DEF Spin!Unlock, Spin!Move, Spin!Modify
  <1>2. spinPc[t] \in Spin!Inside
    BY <1>1 DEF Spin!Inside
  <1>3. \A u \in Threads : spinPc'[u] \notin Spin!Inside
    BY <1>1, <1>2 DEF SpinIInv, Spin!TypeOK, Spin!Exclusion, Spin!Inside
  <1>4. Spin!TypeOK'
    BY <1>1 DEF SpinIInv, Spin!TypeOK
  <1>5. Spin!Exclusion' /\ Spin!NoDataRace'
    BY <1>1, <1>3 DEF Spin!Exclusion, Spin!NoDataRace
  <1>6. SpinKnowsOwn'
    BY <1>1 DEF SpinIInv, SpinKnowsOwn
  <1>7. SpinPublished'
    <2>1. Spin!Conflicts(t, "write") \subseteq spinKnown[t]
      BY <1>2 DEF SpinIInv, Spin!NoDataRace
    <2>2. ASSUME NEW a \in Spin!Accesses PROVE a \in spinKnown[t]
      <3>1. PICK u \in Threads, k \in {"read", "write"} : a = <<u, k>>
        BY DEF Spin!Accesses
      <3>2. CASE u = t
        BY <3>1, <3>2 DEF SpinIInv, SpinKnowsOwn
      <3>3. CASE u # t
        BY <2>1, <3>1, <3>3 DEF Spin!Conflicts
      <3>4. QED
        BY <3>2, <3>3
    <2>3. QED
      BY <1>1, <2>2 DEF SpinPublished
  <1>8. QED
    BY <1>4, <1>5, <1>6, <1>7 DEF SpinIInv

-----------------------------------------------------------------------------
(* The theorems.                                                           *)

\* The inductive invariant holds of every use of the lock.
THEOREM SpinInvariance == Spin!Spec => []SpinIInv
  <1>1. SpinIInv /\ [Spin!Next]_(Spin!vars) => SpinIInv'
    <2> SUFFICES ASSUME SpinIInv, [Spin!Next]_(Spin!vars) PROVE SpinIInv'
      OBVIOUS
    <2>1. ASSUME NEW t \in Threads, Spin!Lock(t) \/ Spin!Load(t) \/ Spin!Body(t) \/ Spin!Wake(t)
          PROVE  SpinIInv'
      BY <2>1, SpinWaitStep
    <2>2. ASSUME NEW t \in Threads, Spin!Exchange(t) PROVE SpinIInv'
      BY <2>2, ExchangeStep
    <2>3. ASSUME NEW t \in Threads, Spin!Read(t) \/ Spin!Add(t) PROVE SpinIInv'
      BY <2>3, SpinAccessStep
    <2>4. ASSUME NEW t \in Threads, Spin!Unlock(t) PROVE SpinIInv'
      BY <2>4, SpinUnlockStep
    <2>5. CASE UNCHANGED Spin!vars
      BY <2>5 DEF Spin!vars, Spin!memory, SpinIInv, Spin!TypeOK, Spin!Exclusion, SpinKnowsOwn, SpinPublished, Spin!NoDataRace
    <2>6. QED
      BY <2>1, <2>2, <2>3, <2>4, <2>5 DEF Spin!Next, Spin!Finished
  <1>2. QED
    BY <1>1, SpinInitInv, PTL DEF Spin!Spec

\* lock()'s loop counter never passes eight, and the flag is 0 or 1.
THEOREM SpinTypeCorrect == Spin!Spec => []Spin!TypeOK
  <1>1. SpinIInv => Spin!TypeOK
    BY DEF SpinIInv
  <1>2. QED
    BY <1>1, SpinInvariance, PTL

\* lock() and unlock() let one thread in at a time, whatever they load.
THEOREM MutualExclusion == Spin!Spec => []Exclusion
  <1>1. SpinIInv => Spin!Exclusion
    BY DEF SpinIInv
  <1>2. QED
    BY <1>1, SpinInvariance, PTL DEF Exclusion

\* A relaxed load, an acquire exchange and a release store are enough to order
\* the accesses of the counter.
THEOREM SpinRaceFree == Spin!Spec => []CounterRaceFree
  <1>1. SpinIInv => Spin!NoDataRace
    BY DEF SpinIInv
  <1>2. QED
    BY <1>1, SpinInvariance, PTL DEF CounterRaceFree
================================================================================
