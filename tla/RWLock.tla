-------------------------------- MODULE RWLock --------------------------------
(***************************************************************************)
(* What a readers-writer lock promises: any number of readers, or one      *)
(* writer.                                                                 *)
(***************************************************************************)
CONSTANT Threads

VARIABLES readers, writers

Init == readers = {} /\ writers = {}

StartRead(t) ==
  /\ writers = {} /\ t \notin readers
  /\ readers' = readers \cup {t} /\ UNCHANGED writers

EndRead(t) ==
  /\ t \in readers
  /\ readers' = readers \ {t} /\ UNCHANGED writers

StartWrite(t) ==
  /\ readers = {} /\ writers = {}
  /\ writers' = {t} /\ UNCHANGED readers

EndWrite(t) ==
  /\ writers = {t}
  /\ writers' = {} /\ UNCHANGED readers

Next == \E t \in Threads : StartRead(t) \/ EndRead(t) \/ StartWrite(t) \/ EndWrite(t)

Spec == Init /\ [][Next]_<<readers, writers>>
==============================================================================
