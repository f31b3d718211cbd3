------------------------------- MODULE Spinlock -------------------------------
(***************************************************************************)
(* lpt::spinlock (include/lpt/spinlock.hpp): test, test-and-set, and every *)
(* eighth time round the loop a short sleep.  As in                        *)
(* benchmark/pikus_spinlock.cpp, each thread locks it a number of times    *)
(* and adds one to a plain counter.                                        *)
(*                                                                         *)
(* The accesses of the counter are kept as in HappensBefore; the relaxed   *)
(* load of the flag may return a value overwritten since.                  *)
(***************************************************************************)
EXTENDS Integers, FiniteSets, Functions, HappensBefore

CONSTANT MaxLocks  \* bound: how many times the threads lock in all

VARIABLES
  flag,     \* _flag
  sync,     \* the accesses its last release sequence published
  visible,  \* the values of _flag each thread may still load
  known,    \* the accesses each thread comes after
  pc,       \* where each thread is in lock(), or in the benchmark's loop
  spins,    \* lock()'s i
  counter,  \* counterMtx
  read,     \* the value of counterMtx a thread is about to add one to
  locks     \* how many times each thread has locked

memory == <<flag, sync, visible, known>>
vars == <<memory, pc, spins, counter, read, locks>>

Init ==
  /\ flag = 0
  /\ sync = Accesses
  /\ visible = [t \in Threads |-> {0}]
  /\ known = [t \in Threads |-> Accesses]
  /\ pc = [t \in Threads |-> "idle"]
  /\ spins = [t \in Threads |-> 0]
  /\ counter = 0
  /\ read = [t \in Threads |-> 0]
  /\ locks = [t \in Threads |-> 0]

Move(t, from, to) == pc[t] = from /\ pc' = [pc EXCEPT ![t] = to]

Modify(t, v) ==
  /\ flag' = v
  /\ visible' = [u \in Threads |-> IF u = t THEN {v} ELSE visible[u] \cup {v}]

-----------------------------------------------------------------------------

\* lock(): the loop starts with i = 0.
Lock(t) ==
  /\ Move(t, "idle", "load")
  /\ SumFunction(locks) < MaxLocks
  /\ locks' = [locks EXCEPT ![t] = @ + 1]
  /\ spins' = [spins EXCEPT ![t] = 0]
  /\ UNCHANGED <<memory, counter, read>>

\* The condition's first half: a relaxed load; a flag that is set goes round
\* the loop, a clear one goes on to the exchange.
Load(t) ==
  /\ \E v \in visible[t] : Move(t, "load", IF v = 0 THEN "exchange" ELSE "body")
  /\ UNCHANGED <<memory, spins, counter, read, locks>>

\* Mutant: the flag is set without a look at what it was.
ExchangeBlind(t) ==
  /\ Move(t, "exchange", "held")
  /\ Modify(t, 1)
  /\ known' = [known EXCEPT ![t] = @ \cup sync]
  /\ UNCHANGED <<sync, spins, counter, read, locks>>

\* Mutant: the exchange has relaxed order.
ExchangeRelaxed(t) ==
  /\ Move(t, "exchange", IF flag = 0 THEN "held" ELSE "body")
  /\ Modify(t, 1)
  /\ UNCHANGED <<sync, known, spins, counter, read, locks>>

\* The second half: the exchange sets the flag whatever it was, with acquire
\* order, and gets the lock if it was clear.
Exchange(t) ==
  /\ Move(t, "exchange", IF flag = 0 THEN "held" ELSE "body")
  /\ Modify(t, 1)
  /\ known' = [known EXCEPT ![t] = @ \cup sync]
  /\ UNCHANGED <<sync, spins, counter, read, locks>>

\* The loop's body and ++i.
Body(t) ==
  /\ Move(t, "body", IF spins[t] = 8 THEN "asleep" ELSE "load")
  /\ spins' = [spins EXCEPT ![t] = IF @ = 8 THEN 1 ELSE @ + 1]
  /\ UNCHANGED <<memory, counter, read, locks>>

\* nanosleep() returns.
Wake(t) ==
  /\ Move(t, "asleep", "load")
  /\ UNCHANGED <<memory, spins, counter, read, locks>>

\* The benchmark's ++counterMtx: it reads ...
Read(t) ==
  /\ Move(t, "held", "adding")
  /\ read' = [read EXCEPT ![t] = counter]
  /\ known' = Touch(known, t, "read") /\ sync' = Unpublished(sync, t, "read")
  /\ UNCHANGED <<flag, visible, spins, counter, locks>>

\* ... and writes.
Add(t) ==
  /\ Move(t, "adding", "added")
  /\ counter' = read[t] + 1
  /\ known' = Touch(known, t, "write") /\ sync' = Unpublished(sync, t, "write")
  /\ UNCHANGED <<flag, visible, spins, read, locks>>

\* Mutant: unlock() does not clear the flag.
UnlockForgets(t) ==
  /\ Move(t, "added", "idle")
  /\ UNCHANGED <<memory, spins, counter, read, locks>>

\* unlock(): a store with release order.
Unlock(t) ==
  /\ Move(t, "added", "idle")
  /\ Modify(t, 0)
  /\ sync' = known[t]
  /\ UNCHANGED <<known, spins, counter, read, locks>>

Finished ==
  /\ \A t \in Threads : pc[t] = "idle"
  /\ SumFunction(locks) = MaxLocks
  /\ UNCHANGED vars

Next ==
  \/ \E t \in Threads :
       \/ Lock(t) \/ Load(t) \/ Exchange(t) \/ Body(t) \/ Wake(t)
       \/ Read(t) \/ Add(t) \/ Unlock(t)
  \/ Finished

Spec == Init /\ [][Next]_vars

\* What fairness is about: a load that sees the flag clear when it is, an exchange
\* that gets the lock, and going on from wherever a thread is.
SeesFree(t) == Load(t) /\ flag = 0 /\ pc'[t] = "exchange"
Winning(t)  == Exchange(t) /\ flag = 0
Going(t)    == Load(t) \/ Exchange(t) \/ Body(t) \/ Wake(t) \/ Read(t) \/ Add(t) \/ Unlock(t)
-----------------------------------------------------------------------------

\* The types of the lock, of lock()'s loop counter, which starts over after
\* eight rounds, and of the benchmark's counter.
TypeOK ==
  /\ flag \in {0, 1}
  /\ sync \subseteq Accesses
  /\ visible \in [Threads -> SUBSET {0, 1}]
  /\ known \in [Threads -> SUBSET Accesses]
  /\ pc \in [Threads -> {"idle", "load", "exchange", "body", "asleep",
                         "held", "adding", "added"}]
  /\ spins \in [Threads -> 0 .. 8]
  /\ counter \in Nat
  /\ read \in [Threads -> Nat]
  /\ locks \in [Threads -> Nat]

Inside == {"held", "adding", "added"}

\* One thread at a time has the lock, and the flag says whether one has.
Exclusion ==
  /\ \A t, u \in Threads : pc[t] \in Inside /\ pc[u] \in Inside => t = u
  /\ flag = 1 <=> \E t \in Threads : pc[t] \in Inside

\* Acquire and release order every two accesses of the counter by different
\* threads.
NoDataRace ==
  \A t \in Threads : pc[t] \in Inside => Conflicts(t, "write") \subseteq known[t]
==============================================================================
