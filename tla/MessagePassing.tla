---------------------------- MODULE MessagePassing ----------------------------
(***************************************************************************)
(* The two Relacy tests of message passing (relacy/race_ok.cpp and         *)
(* race_ko.cpp): one thread writes x and sets a flag, the other writes x   *)
(* if it finds it set.  The accesses of x are kept as in HappensBefore.    *)
(***************************************************************************)
EXTENDS HappensBefore

CONSTANTS Sender, Receiver   \* thread_index 0 and 1

VARIABLES
  order,      \* of the store: "release" (race_ok), "relaxed" (race_ko)
  flag,       \* the atomic a
  sync,       \* the accesses the store of the flag published
  known,      \* the accesses each thread comes after
  step,       \* each thread's next step
  racing      \* the receiver has written x in a data race

vars == <<order, flag, sync, known, step, racing>>

\* before() comes before both threads.
Init ==
  /\ order \in {"release", "relaxed"}
  /\ flag = 0 /\ sync = {} /\ racing = FALSE
  /\ known = [t \in Threads |-> Accesses]
  /\ step = [t \in Threads |-> "start"]

Goto(t, from, pc) == step[t] = from /\ step' = [step EXCEPT ![t] = pc]

-----------------------------------------------------------------------------

Write(t) ==
  /\ racing' = (racing \/ ~(Conflicts(t, "write") \subseteq known[t]))
  /\ known' = Touch(known, t, "write")
  /\ sync' = Unpublished(sync, t, "write")

Send ==
  /\ Goto(Sender, "start", "store")
  /\ Write(Sender)
  /\ UNCHANGED <<order, flag>>

\* Mutant: nothing is published.
PublishedNot == sync

Published == IF order = "release" THEN known[Sender] ELSE sync

Store ==
  /\ Goto(Sender, "store", "done")
  /\ flag' = 1 /\ sync' = Published
  /\ UNCHANGED <<order, known, racing>>

\* The load may also miss a store that has been made.
Load ==
  /\ \/ /\ flag = 1 /\ Goto(Receiver, "start", "write")
        /\ known' = [known EXCEPT ![Receiver] = @ \cup sync]
     \/ Goto(Receiver, "start", "done") /\ UNCHANGED known
  /\ UNCHANGED <<order, flag, sync, racing>>

Receive ==
  /\ Goto(Receiver, "write", "done")
  /\ Write(Receiver)
  /\ UNCHANGED <<order, flag>>

Finished == step[Sender] = "done" /\ step[Receiver] = "done" /\ UNCHANGED vars

Next == Send \/ Store \/ Load \/ Receive \/ Finished

Spec == Init /\ [][Next]_vars
-----------------------------------------------------------------------------

\* With the release store the receiver's write of x comes after the sender's, and
\* does not race with it; the test that is "Buggy on purpose" has the race.
MessageOrdered == racing => order = "relaxed"
==============================================================================
