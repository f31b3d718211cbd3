-------------------------------- MODULE MCLocks --------------------------------
(***************************************************************************)
(* One TLC instance for the two spin locks: a behaviour chooses one and    *)
(* runs it, the other stays in its initial state.  SharedMutex's names are *)
(* taken as they are, lpt::spinlock is the instance Spin.                  *)
(***************************************************************************)
EXTENDS SharedMutex

CONSTANT Locks  \* those to choose from

VARIABLES
  which,
  flag, spinSync, spinVisible, spinKnown, spinPc, spins, counter, read, spinLocks

spinVars == <<flag, spinSync, spinVisible, spinKnown, spinPc, spins, counter, read, spinLocks>>

Spin == INSTANCE Spinlock
  WITH sync <- spinSync, visible <- spinVisible, known <- spinKnown, pc <- spinPc, locks <- spinLocks

locksVars == <<which, vars, spinVars>>

LocksInit == which \in Locks /\ Init /\ Spin!Init

LocksNext ==
  /\ UNCHANGED which
  /\ IF which = "shared_mutex" THEN Next ELSE UNCHANGED vars
  /\ IF which = "spinlock" THEN Spin!Next ELSE UNCHANGED spinVars

\* A step of the one lock or of the other.
Either(step, spinStep) ==
  \/ step /\ UNCHANGED <<which, spinVars>>
  \/ spinStep /\ UNCHANGED <<which, vars>>

\* The fairness of both, thread by thread: of a lock that is not chosen no step
\* is enabled.  A load returns the last value in the end; a compare-and-swap or
\* an exchange that could succeed again and again succeeds; whoever is past them
\* goes on.
LocksFairness ==
  \A t \in Threads :
    /\ SF_locksVars(Either(LockSwap(t) \/ FreshLoad(t), Spin!SeesFree(t)))
    /\ SF_locksVars(Either(SharedSwap(t), Spin!Winning(t)))
    /\ WF_locksVars(Either(SharedRetry(t) \/ Unlock(t) \/ UnlockShared(t), Spin!Going(t)))

LocksSpec == LocksInit /\ [][LocksNext]_locksVars /\ LocksFairness
-----------------------------------------------------------------------------
(***************************************************************************)
(* Spinlock's properties, stated and explained there.                      *)
(***************************************************************************)

\* Spinlock: one thread at a time has the lock.
Exclusion == Spin!Exclusion

\* Spinlock: acquire and release order the accesses of the counter.
CounterRaceFree == Spin!NoDataRace

\* Every thread that asks for the lock, in either mode, gets it, if each asks a
\* bounded number of times.
Granted ==
  \A t \in Threads :
    pc[t] \in {"lock", "load"} \/ spinPc[t] = "load"
      ~> pc[t] \in {"writing", "reading"} \/ spinPc[t] = "held"
================================================================================
