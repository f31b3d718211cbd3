------------------------------ MODULE ToolsProofs ------------------------------
(***************************************************************************)
(* Proofs about the small tools of MCTools for every value of their        *)
(* constants: any number of threads, objects and steps.  Each tool's       *)
(* theorem rests on its own inductive invariant, which the steps of the    *)
(* other tools leave alone.                                                *)
(***************************************************************************)
EXTENDS MCTools, Sequences, SumTheorems, TLAPS

(***************************************************************************)
(* Message passing: the two threads of the tests, among any number of      *)
(* threads that do not touch x.                                            *)
(***************************************************************************)

\* The flag, the happened-before sets and the steps of the two tests' threads.
MessageTypes ==
  /\ order \in {"release", "relaxed"} /\ flag \in {0, 1} /\ racing \in BOOLEAN
  /\ known \in [Threads -> SUBSET Message!Accesses] /\ sync \subseteq Message!Accesses
  /\ step \in [Threads -> {"start", "store", "write", "done"}]

\* With the release store: until the receiver writes, the sender comes after all
\* accesses of x, what it publishes with the flag are all of them, and the
\* receiver is sent on by a flag that is set.
Handed ==
  order = "release" =>
    /\ ~racing
    /\ step[Sender] # "done" => known[Sender] = Message!Accesses /\ flag = 0
    /\ flag = 1 /\ step[Receiver] \in {"start", "write"} => sync = Message!Accesses
    /\ step[Receiver] = "write" => flag = 1 /\ known[Receiver] = Message!Accesses

MessageInv == MessageTypes /\ Handed

LEMMA MessageInit == Message!Init => MessageInv
  <1> SUFFICES ASSUME Message!Init PROVE MessageInv
    OBVIOUS
  <1>1. MessageTypes
    BY DEF Message!Init, MessageTypes
  <1>2. Handed
    BY ToolsAssumption DEF Message!Init, Handed
  <1>3. QED
    BY <1>1, <1>2 DEF MessageInv

\* The sender writes x before anybody else knows of it, and then publishes.
LEMMA SenderStep ==
  ASSUME MessageInv, Message!Send \/ Message!Store
  PROVE  MessageInv'
  <1>1. CASE Message!Send
    <2>1. /\ step[Sender] = "start" /\ step' = [step EXCEPT ![Sender] = "store"]
          /\ racing' = (racing \/ ~(Message!Conflicts(Sender, "write") \subseteq known[Sender]))
          /\ known' = Message!Touch(known, Sender, "write") /\ sync' = Message!Unpublished(sync, Sender, "write")
          /\ UNCHANGED <<order, flag>>
      BY <1>1 DEF Message!Send, Message!Goto, Message!Write
    <2>2. MessageTypes'
      BY <2>1, ToolsAssumption DEF MessageInv, MessageTypes, Message!Touch, Message!Unpublished, Message!Accesses
    <2>3. CASE order = "release"
      <3>1. known[Sender] = Message!Accesses /\ flag = 0 /\ ~racing
        BY <2>1, <2>3 DEF MessageInv, Handed
      <3>2. ~racing'
        BY <2>1, <3>1 DEF Message!Conflicts
      <3>3. known'[Sender] = Message!Accesses
        BY <2>1, <3>1, ToolsAssumption DEF Message!Touch, Message!Accesses
      <3>4. step'[Receiver] # "write"
        BY <2>1, <2>3, <3>1, ToolsAssumption DEF MessageInv, MessageTypes, Handed
      <3>5. QED
        BY <2>1, <2>2, <3>1, <3>2, <3>3, <3>4 DEF MessageInv, Handed
    <2>4. QED
      BY <2>1, <2>2, <2>3 DEF MessageInv, Handed
  <1>2. CASE Message!Store
    <2>1. /\ step[Sender] = "store" /\ step' = [step EXCEPT ![Sender] = "done"]
          /\ flag' = 1 /\ sync' = IF order = "release" THEN known[Sender] ELSE sync
          /\ UNCHANGED <<order, known, racing>>
      BY <1>2 DEF Message!Store, Message!Goto, Message!Published
    <2>2. MessageTypes'
      BY <2>1, ToolsAssumption DEF MessageInv, MessageTypes
    <2>3. Handed'
      BY <2>1, ToolsAssumption DEF MessageInv, MessageTypes, Handed
    <2>4. QED
      BY <2>2, <2>3 DEF MessageInv
  <1>3. QED
    BY <1>1, <1>2

\* A load that reads the flag's store joins what it published.
LEMMA ReceiverStep ==
  ASSUME MessageInv, Message!Load \/ Message!Receive
  PROVE  MessageInv'
  <1>1. CASE Message!Load
    <2>1. /\ step[Receiver] = "start" /\ UNCHANGED <<order, flag, sync, racing>>
          /\ \/ /\ flag = 1 /\ step' = [step EXCEPT ![Receiver] = "write"]
                /\ known' = [known EXCEPT ![Receiver] = @ \cup sync]
             \/ step' = [step EXCEPT ![Receiver] = "done"] /\ UNCHANGED known
      BY <1>1 DEF Message!Load, Message!Goto
    <2>2. MessageTypes'
      BY <2>1, ToolsAssumption DEF MessageInv, MessageTypes
    <2>3. CASE step' = [step EXCEPT ![Receiver] = "done"] /\ UNCHANGED known
      <3>1. step'[Receiver] = "done" /\ step'[Sender] = step[Sender]
        BY <2>1, <2>3, ToolsAssumption DEF MessageInv, MessageTypes
      <3>2. QED
        BY <2>1, <2>2, <2>3, <3>1 DEF MessageInv, Handed
    <2>4. CASE /\ flag = 1 /\ step' = [step EXCEPT ![Receiver] = "write"]
               /\ known' = [known EXCEPT ![Receiver] = @ \cup sync]
      <3>1. step'[Receiver] = "write" /\ step'[Sender] = step[Sender]
        BY <2>1, <2>4, ToolsAssumption DEF MessageInv, MessageTypes
      <3>2. known'[Sender] = known[Sender] /\ known'[Receiver] = known[Receiver] \cup sync
        BY <2>4, ToolsAssumption DEF MessageInv, MessageTypes
      <3>3. order = "release" => sync = Message!Accesses /\ known'[Receiver] = Message!Accesses
        BY <2>1, <2>4, <3>2, ToolsAssumption DEF MessageInv, MessageTypes, Handed
      <3>4. QED
        BY <2>1, <2>2, <2>4, <3>1, <3>2, <3>3 DEF MessageInv, Handed
    <2>5. QED
      BY <2>1, <2>3, <2>4
  <1>2. CASE Message!Receive
    <2>1. /\ step[Receiver] = "write" /\ step' = [step EXCEPT ![Receiver] = "done"]
          /\ racing' = (racing \/ ~(Message!Conflicts(Receiver, "write") \subseteq known[Receiver]))
          /\ known' = Message!Touch(known, Receiver, "write") /\ sync' = Message!Unpublished(sync, Receiver, "write")
          /\ UNCHANGED <<order, flag>>
      BY <1>2 DEF Message!Receive, Message!Goto, Message!Write
    <2>2. MessageTypes'
      BY <2>1, ToolsAssumption DEF MessageInv, MessageTypes, Message!Touch, Message!Unpublished, Message!Accesses
    <2>3. order = "release" => ~racing' /\ step[Sender] = "done"
      BY <2>1, ToolsAssumption DEF MessageInv, MessageTypes, Handed, Message!Conflicts
    <2>4. Handed'
      BY <2>1, <2>3, ToolsAssumption DEF MessageInv, MessageTypes, Handed
    <2>5. QED
      BY <2>2, <2>4 DEF MessageInv
  <1>3. QED
    BY <1>1, <1>2

\* With the release store the receiver's write never races with the sender's,
\* as race_ok.cpp expects of Relacy.
THEOREM ReleaseOrders == ToolsSpec => []MessageOrdered
  <1>1. ToolsInit => MessageInv
    BY MessageInit DEF ToolsInit
  <1>2. MessageInv /\ [ToolsNext]_toolsVars => MessageInv'
    <2> SUFFICES ASSUME MessageInv, Message!Next \/ UNCHANGED messageVars PROVE MessageInv'
      BY DEF ToolsNext, toolsVars
    <2>1. CASE Message!Send \/ Message!Store
      BY <2>1, SenderStep
    <2>2. CASE Message!Load \/ Message!Receive
      BY <2>2, ReceiverStep
    <2>3. CASE UNCHANGED messageVars
      BY <2>3 DEF messageVars, MessageInv, MessageTypes, Handed
    <2>4. QED
      BY <2>1, <2>2, <2>3 DEF Message!Next, Message!Finished, Message!vars, messageVars
  <1>3. MessageInv => MessageOrdered
    BY DEF MessageInv, MessageTypes, Handed, MessageOrdered, Message!MessageOrdered
  <1>4. QED
    BY <1>1, <1>2, <1>3, PTL DEF ToolsSpec

-----------------------------------------------------------------------------
(***************************************************************************)
(* PAPI.                                                                   *)
(***************************************************************************)

PapiPositions == {"app", "init", "threadinit", "register", "start"}

PapiCounters ==
  [made : BOOLEAN, added : Perf!EventSets, hw : [Perf!Values -> Int], acc : [Perf!Values -> Int]]

\* The types of the library's statics and of the objects.
PapiTypes ==
  /\ pc \in [Threads -> PapiPositions]
  /\ initBy \in Threads \cup {NoThread} /\ once \in BOOLEAN
  /\ threadInits \in Nat /\ registered \subseteq Threads
  /\ ctr \in [Threads -> PapiCounters]
  /\ first \in [Threads \X Measures -> [Perf!Values -> Int]] /\ open \subseteq Threads \X Measures

\* The static is initialised by whoever is in its initialiser, and by nobody
\* when it has been; a thread registers, starts and counts in this order.
Initialised ==
  /\ threadInits = IF once THEN 1 ELSE 0
  /\ once => initBy = NoThread
  /\ \A t \in Threads :
       /\ pc[t] = "threadinit" => initBy = t
       /\ pc[t] = "register" => once
       /\ t \in registered => once
       /\ pc[t] = "start" \/ ctr[t].made => t \in registered

PapiInv == PapiTypes /\ Initialised

\* The added events' counts are at the first places.
LEMMA Listed ==
  /\ << >> \in Perf!EventSets
  /\ \A list \in Perf!EventSets : \A k \in DOMAIN list : k \in Perf!Values /\ list[k] \in Perf!Values
  <1>1. << >> \in [1..0 -> Perf!Values] /\ 0 \in 0..Events /\ DOMAIN << >> = {}
    BY ToolsAssumption
  <1>2. << >> \in Perf!EventSets
    BY <1>1 DEF Perf!EventSets
  <1>3. ASSUME NEW list \in Perf!EventSets, NEW k \in DOMAIN list PROVE k \in Perf!Values /\ list[k] \in Perf!Values
    <2>1. PICK n \in 0..Events : list \in [1..n -> Perf!Values]
      BY DEF Perf!EventSets
    <2>2. k \in 1..n /\ list[k] \in Perf!Values
      BY <2>1
    <2>3. QED
      BY <2>2, ToolsAssumption DEF Perf!Values
  <1>4. QED
    BY <1>2, <1>3

LEMMA PapiInit == Perf!Init => PapiInv
  <1> SUFFICES ASSUME Perf!Init PROVE PapiInv
    OBVIOUS
  <1>1. Perf!NoCounters \in PapiCounters /\ Perf!NoCounters.made = FALSE /\ Perf!Zero \in [Perf!Values -> Int]
    BY Listed DEF Perf!NoCounters, PapiCounters, Perf!Zero
  <1>2. QED
    BY <1>1 DEF Perf!Init, PapiInv, PapiTypes, PapiPositions, Initialised

\* Objects and threads that are not being made are left alone.
LEMMA InitStep ==
  ASSUME PapiInv, NEW t \in Threads,
         \/ Perf!Make(t, "hardware") \/ Perf!Make(t, "counters")
         \/ Perf!LibraryInit(t) \/ Perf!ThreadInit(t) \/ Perf!Register(t)
  PROVE  PapiInv'
  <1>1. UNCHANGED <<ctr, first, open>>
    BY DEF Perf!Make, Perf!LibraryInit, Perf!ThreadInit, Perf!Register
  <1>2. PICK where \in PapiPositions : pc' = [pc EXCEPT ![t] = where]
    BY DEF Perf!Make, Perf!LibraryInit, Perf!ThreadInit, Perf!Register, Perf!Goto, PapiPositions
  <1>3. pc'[t] = where /\ \A u \in Threads \ {t} : pc'[u] = pc[u]
    BY <1>2 DEF PapiInv, PapiTypes
  <1>4. PapiTypes'
    <2>1. initBy' \in Threads \cup {NoThread} /\ once' \in BOOLEAN
      BY DEF PapiInv, PapiTypes, Perf!Make, Perf!LibraryInit, Perf!ThreadInit, Perf!Register
    <2>2. threadInits' \in Nat /\ registered' \subseteq Threads
      BY DEF PapiInv, PapiTypes, Perf!Make, Perf!LibraryInit, Perf!ThreadInit, Perf!Register
    <2>3. QED
      BY <1>1, <1>2, <2>1, <2>2 DEF PapiInv, PapiTypes
  <1>5. CASE Perf!Make(t, "hardware") \/ Perf!Make(t, "counters")
    <2>1. pc'[t] = "init" /\ UNCHANGED <<initBy, once, threadInits, registered>>
      BY <1>5 DEF Perf!Make, Perf!Goto, PapiInv, PapiTypes
    <2>2. QED
      BY <1>1, <1>3, <1>4, <2>1 DEF PapiInv, Initialised
  <1>6. CASE Perf!LibraryInit(t)
    <2>1. /\ ~once /\ initBy = NoThread /\ UNCHANGED <<once, threadInits, registered>>
          /\ \/ initBy' = t /\ pc'[t] = "threadinit"
             \/ pc'[t] = "app" /\ UNCHANGED initBy
      BY <1>6 DEF Perf!LibraryInit, Perf!Guarded, Perf!Goto, PapiInv, PapiTypes
    <2>2. \A u \in Threads : pc[u] # "threadinit"
      BY <2>1, ToolsAssumption DEF PapiInv, Initialised
    <2>3. QED
      BY <1>1, <1>3, <1>4, <2>1, <2>2 DEF PapiInv, Initialised
  <1>7. CASE Perf!ThreadInit(t)
    <2>1. /\ pc[t] = "threadinit" /\ initBy' = NoThread /\ UNCHANGED registered
          /\ \/ once' = TRUE /\ threadInits' = threadInits + 1 /\ pc'[t] = "register"
             \/ pc'[t] = "app" /\ UNCHANGED <<once, threadInits>>
      BY <1>7 DEF Perf!ThreadInit, Perf!Goto, PapiInv, PapiTypes
    <2>2. initBy = t /\ ~once /\ threadInits = 0
      BY <2>1, ToolsAssumption DEF PapiInv, PapiTypes, Initialised
    <2>3. \A u \in Threads \ {t} : pc[u] # "threadinit"
      BY <2>2 DEF PapiInv, Initialised
    <2>4. QED
      BY <1>1, <1>3, <1>4, <2>1, <2>2, <2>3 DEF PapiInv, Initialised
  <1>8. CASE Perf!Register(t)
    <2>1. /\ once /\ UNCHANGED <<initBy, once, threadInits>>
          /\ \/ registered' = registered \cup {t} /\ pc'[t] \in {"start", "app"}
             \/ UNCHANGED registered /\ pc'[t] = "app"
      BY <1>8 DEF Perf!Register, Perf!Goto, PapiInv, PapiTypes, Initialised
    <2>2. QED
      BY <1>1, <1>3, <1>4, <2>1 DEF PapiInv, Initialised
  <1>9. QED
    BY <1>5, <1>6, <1>7, <1>8

\* A counters object is made by a registered thread.
LEMMA CountersStep ==
  ASSUME PapiInv, NEW t \in Threads, Perf!StartCounters(t) \/ Perf!StopCounters(t)
  PROVE  PapiInv'
  <1>1. UNCHANGED <<initBy, once, threadInits, registered, open, first>>
    BY DEF Perf!StartCounters, Perf!StopCounters, Perf!initVars
  <1>2. pc' \in [Threads -> PapiPositions] /\ \A u \in Threads : pc'[u] \in {pc[u], "app"}
    BY DEF Perf!StartCounters, Perf!StopCounters, Perf!initVars, Perf!Goto, PapiInv, PapiTypes, PapiPositions
  <1>3. Perf!NoCounters \in PapiCounters
    BY Listed DEF Perf!NoCounters, PapiCounters, Perf!Zero
  <1>4. /\ ctr' \in [Threads -> PapiCounters]
        /\ \A u \in Threads : ctr'[u].made => ctr[u].made \/ (u = t /\ t \in registered)
    <2>1. CASE Perf!StopCounters(t)
      <3>1. ctr' = [ctr EXCEPT ![t] = Perf!NoCounters]
        BY <2>1 DEF Perf!StopCounters
      <3>2. Perf!NoCounters.made = FALSE
        BY DEF Perf!NoCounters
      <3>3. QED
        BY <1>3, <3>1, <3>2 DEF PapiInv, PapiTypes
    <2>2. CASE Perf!StartCounters(t) /\ UNCHANGED ctr
      BY <2>2 DEF PapiInv, PapiTypes
    <2>3. CASE Perf!StartCounters(t) /\ ~UNCHANGED ctr
      <3>1. t \in registered
        BY <2>3 DEF Perf!StartCounters, PapiInv, Initialised
      <3>2. PICK list \in Perf!EventSets :
              ctr' = [ctr EXCEPT ![t] = [Perf!NoCounters EXCEPT !.made = TRUE, !.added = list]]
        BY <2>3 DEF Perf!StartCounters
      <3>3. [Perf!NoCounters EXCEPT !.made = TRUE, !.added = list] \in PapiCounters
        BY <1>3 DEF PapiCounters
      <3>4. QED
        BY <3>1, <3>2, <3>3 DEF PapiInv, PapiTypes
    <2>4. QED
      BY <2>1, <2>2, <2>3
  <1>5. PapiTypes'
    BY <1>1, <1>2, <1>4 DEF PapiInv, PapiTypes
  <1>6. Initialised'
    BY <1>1, <1>2, <1>4 DEF PapiInv, Initialised
  <1>7. QED
    BY <1>5, <1>6 DEF PapiInv

\* Work and measurements leave made objects made.
LEMMA MeasureStep ==
  ASSUME PapiInv, NEW t \in Threads,
         \/ \E e \in Perf!Values : Perf!Work(t, e)
         \/ \E m \in Measures : Perf!Begin(t, m) \/ Perf!Measured(t, m) \/ \E n \in Measures : Perf!CopyMeasure(t, m, n)
  PROVE  PapiInv'
  <1>1. UNCHANGED <<pc, initBy, once, threadInits, registered>>
    BY DEF Perf!Work, Perf!Begin, Perf!Measured, Perf!CopyMeasure, Perf!initVars
  <1>2. /\ open' \subseteq Threads \X Measures
        /\ first' \in [Threads \X Measures -> [Perf!Values -> Int]]
    <2>1. Perf!Zero \in [Perf!Values -> Int]
      BY DEF Perf!Zero
    <2>2. ctr[t].hw \in [Perf!Values -> Int]
      BY DEF PapiInv, PapiTypes, PapiCounters
    <2>3. CASE \E e \in Perf!Values : Perf!Work(t, e)
      BY <2>3 DEF Perf!Work, PapiInv, PapiTypes
    <2>4. ASSUME NEW m \in Measures, Perf!Begin(t, m) \/ Perf!Measured(t, m)
          PROVE  <1>2!1 /\ <1>2!2
      BY <2>1, <2>2, <2>4 DEF Perf!Begin, Perf!Measured, PapiInv, PapiTypes
    <2>5. ASSUME NEW m \in Measures, NEW n \in Measures, Perf!CopyMeasure(t, m, n)
          PROVE  <1>2!1 /\ <1>2!2
      BY <2>5 DEF Perf!CopyMeasure, PapiInv, PapiTypes
    <2>6. QED
      BY <2>3, <2>4, <2>5
  <1>3. /\ ctr' \in [Threads -> PapiCounters]
        /\ \A u \in Threads : ctr'[u].made = ctr[u].made
    <2>1. ctr[t] \in PapiCounters
      BY DEF PapiInv, PapiTypes
    <2>2. ASSUME NEW e \in Perf!Values, Perf!Work(t, e)
          PROVE  <1>3!1 /\ <1>3!2
      <3> DEFINE hw == Perf!Counted(ctr[t], e)
      <3>1. hw \in [Perf!Values -> Int]
        BY <2>1 DEF PapiCounters, Perf!Counted
      <3>2. ctr' = [ctr EXCEPT ![t].hw = hw]
        BY <2>2 DEF Perf!Work
      <3> HIDE DEF hw
      <3>3. QED
        BY <2>1, <3>1, <3>2 DEF PapiInv, PapiTypes, PapiCounters
    <2>3. ASSUME NEW m \in Measures, Perf!Measured(t, m)
          PROVE  <1>3!1 /\ <1>3!2
      <3> DEFINE acc == [e \in Perf!Values |-> ctr[t].acc[e] + Perf!Difference(t, m)[e]]
      <3>1. acc \in [Perf!Values -> Int]
        BY <2>1 DEF Perf!Difference, PapiInv, PapiTypes, PapiCounters
      <3>2. UNCHANGED ctr \/ ctr' = [ctr EXCEPT ![t].acc = acc]
        BY <2>3 DEF Perf!Measured
      <3> HIDE DEF acc
      <3>3. QED
        BY <2>1, <3>1, <3>2 DEF PapiInv, PapiTypes, PapiCounters
    <2>4. CASE \E m \in Measures : Perf!Begin(t, m) \/ \E n \in Measures : Perf!CopyMeasure(t, m, n)
      BY <2>4 DEF Perf!Begin, Perf!CopyMeasure, PapiInv, PapiTypes
    <2>5. QED
      BY <2>2, <2>3, <2>4
  <1>4. PapiTypes' /\ Initialised'
    BY <1>1, <1>2, <1>3 DEF PapiInv, PapiTypes, Initialised
  <1>5. QED
    BY <1>4 DEF PapiInv

\* Whatever fails and whichever threads come first, PAPI_thread_init() succeeds
\* at most once, and a thread counts only after it was registered.
THEOREM InitialisedOnce == ToolsSpec => []InitOnce
  <1>1. ToolsInit => PapiInv
    BY PapiInit DEF ToolsInit
  <1>2. PapiInv /\ [ToolsNext]_toolsVars => PapiInv'
    <2> SUFFICES ASSUME PapiInv, Perf!Next \/ UNCHANGED papiVars PROVE PapiInv'
      BY DEF ToolsNext, toolsVars
    <2>1. CASE Perf!Finished \/ UNCHANGED papiVars
      BY <2>1 DEF Perf!Finished, Perf!vars, Perf!initVars, papiVars, PapiInv, PapiTypes, Initialised
    <2>2. ASSUME NEW t \in Threads,
                 \/ Perf!Make(t, "hardware") \/ Perf!Make(t, "counters") \/ Perf!LibraryInit(t)
                 \/ Perf!ThreadInit(t) \/ Perf!Register(t) \/ Perf!StartCounters(t) \/ Perf!StopCounters(t)
                 \/ \E e \in Perf!Values : Perf!Work(t, e)
                 \/ \E m \in Measures : Perf!Begin(t, m) \/ Perf!Measured(t, m) \/ \E n \in Measures : Perf!CopyMeasure(t, m, n)
          PROVE  PapiInv'
      BY <2>2, InitStep, CountersStep, MeasureStep
    <2>3. QED
      BY <2>1, <2>2 DEF Perf!Next
  <1>3. PapiInv => InitOnce
    BY DEF PapiInv, PapiTypes, Initialised, InitOnce, Perf!InitOnce
  <1>4. QED
    BY <1>1, <1>2, <1>3, PTL DEF ToolsSpec

LEMMA PerfSum == \A f : Perf!SumFunction(f) = SumFunctionOnSet(f, DOMAIN f)
  BY DEF Perf!SumFunction, Perf!SumFunctionOnSet, Perf!FoldFunctionOnSet, Perf!MapThenFoldSet,
         SumFunctionOnSet, FoldFunctionOnSet, MapThenFoldSet

LEMMA PerfCardinality == \A S : Perf!Cardinality(S) = Cardinality(S)
  BY DEF Cardinality, Perf!Cardinality, IsFiniteSet, Perf!IsFiniteSet

\* What each measurement of event e read first.
FirstOf(f, e) == [m \in Threads \X Measures |-> f[m][e]]

Reads == [Threads \X Measures -> [Perf!Values -> Int]]

\* What happens of each event while a measurement is open, once for each.
Works == [Perf!Values -> Int]

\* A thread's counters c with the open measurements S, which began with f, have
\* at place k counted what happened of the event there inside of them, w; at the
\* places that are left over nothing is counted.
Done(c, w, k) == IF k \in DOMAIN c.added THEN w[c.added[k]] ELSE 0
Conserved(c, f, S, w, k) == c.acc[k] + SumOver(c.hw[k], FirstOf(f, k), S) = Done(c, w, k)

Balanced(c, f, S, w, loose) ==
  /\ ~c.made => S = {}
  /\ ~loose => \A e \in Perf!Values : Conserved(c, f, S, w, e)

LEMMA DoneType ==
  ASSUME NEW c \in PapiCounters, NEW w \in Works, NEW k
  PROVE  Done(c, w, k) \in Int
  BY Listed DEF PapiCounters, Works, Done

LEMMA SumOfReads ==
  ASSUME NEW f \in Reads, NEW e \in Perf!Values, NEW S \in SUBSET (Threads \X Measures), IsFiniteSet(S), NEW n \in Int
  PROVE  /\ \A m \in S : FirstOf(f, e)[m] = f[m][e] /\ FirstOf(f, e)[m] \in Int
         /\ SumOver(n, FirstOf(f, e), S) \in Int
  <1>1. \A m \in S : FirstOf(f, e)[m] = f[m][e]
    BY DEF FirstOf
  <1>2. \A m \in S : f[m][e] \in Int
    BY DEF Reads
  <1>3. \A m \in S : FirstOf(f, e)[m] \in Int
    BY <1>1, <1>2
  <1>4. SumOver(n, FirstOf(f, e), S) \in Int
    BY <1>3, OverType
  <1>5. QED
    BY <1>1, <1>3, <1>4

LEMMA ReadsSplit ==
  ASSUME NEW f \in Reads, NEW e \in Perf!Values, NEW S \in SUBSET (Threads \X Measures), IsFiniteSet(S), NEW n \in Int,
         NEW x \in S
  PROVE  SumOver(n, FirstOf(f, e), S) = (n - f[x][e]) + SumOver(n, FirstOf(f, e), S \ {x})
  <1>1. PICK u, k, R, y : u = FirstOf(f, e) /\ k = n /\ R = S /\ y = x
    OBVIOUS
  <1>2. k \in Int /\ IsFiniteSet(R) /\ y \in R /\ \A m \in R : u[m] \in Int
    BY <1>1, SumOfReads
  <1>3. SumOver(k, u, R) = (k - u[y]) + SumOver(k, u, R \ {y})
    BY <1>2, OverSplit
  <1>4. u[x] = f[x][e]
    BY <1>1, SumOfReads
  <1>5. QED
    BY <1>1, <1>3, <1>4, Zenon

\* Measurements that read the same have counted the same.
LEMMA SameReads ==
  ASSUME NEW f \in Reads, NEW h \in Reads, NEW e \in Perf!Values, NEW S \in SUBSET (Threads \X Measures), IsFiniteSet(S),
         NEW n \in Int, \A m \in S : f[m] = h[m]
  PROVE  SumOver(n, FirstOf(f, e), S) = SumOver(n, FirstOf(h, e), S)
  <1>1. \A m \in S : FirstOf(f, e)[m] = FirstOf(h, e)[m]
    BY DEF FirstOf
  <1>2. \A m \in S : n - FirstOf(f, e)[m] = n - FirstOf(h, e)[m]
    BY <1>1
  <1>3. QED
    BY <1>2, OverSame

LEMMA BalancedWhenReset ==
  ASSUME NEW c \in PapiCounters, NEW f, NEW loose, c.hw = Perf!Zero, c.acc = Perf!Zero
  PROVE  Balanced(c, f, {}, Perf!Zero, loose)
  <1>1. \A e \in Perf!Values : c.hw[e] = 0 /\ c.acc[e] = 0 /\ Done(c, Perf!Zero, e) = 0
    BY Listed DEF Perf!Zero, Done, PapiCounters
  <1>2. \A e \in Perf!Values : SumOver(c.hw[e], FirstOf(f, e), {}) = 0
    BY OverNone
  <1>3. \A e \in Perf!Values : Conserved(c, f, {}, Perf!Zero, e)
    BY <1>1, <1>2 DEF Conserved
  <1>4. QED
    BY <1>3 DEF Balanced

LEMMA BalancedForOthers ==
  ASSUME NEW c \in PapiCounters, NEW f \in Reads, NEW h \in Reads, NEW S \in SUBSET (Threads \X Measures), IsFiniteSet(S),
         NEW w, NEW loose, \A m \in S : h[m] = f[m], Balanced(c, f, S, w, loose)
  PROVE  Balanced(c, h, S, w, loose)
  <1>1. ASSUME NEW e \in Perf!Values, Conserved(c, f, S, w, e) PROVE Conserved(c, h, S, w, e)
    <2>1. c.hw[e] \in Int
      BY DEF PapiCounters
    <2>2. SumOver(c.hw[e], FirstOf(h, e), S) = SumOver(c.hw[e], FirstOf(f, e), S)
      BY <2>1, SameReads
    <2>3. QED
      BY <1>1, <2>2 DEF Conserved
  <1>2. QED
    BY <1>1 DEF Balanced

\* Each open measurement counts once what happens.
LEMMA BalancedByWork ==
  ASSUME NEW c \in PapiCounters, NEW f \in Reads, NEW S \in SUBSET (Threads \X Measures), IsFiniteSet(S),
         NEW w \in Works, NEW v \in Works, NEW loose, NEW d \in PapiCounters, NEW x \in Perf!Values, c.made,
         d.made = c.made, d.added = c.added, d.acc = c.acc, d.hw = Perf!Counted(c, x),
         v = [w EXCEPT ![x] = @ + Cardinality(S)],
         Balanced(c, f, S, w, loose)
  PROVE  Balanced(d, f, S, v, loose)
  <1>1. ASSUME NEW k \in Perf!Values, Conserved(c, f, S, w, k) PROVE Conserved(d, f, S, v, k)
    <2>1. c.hw[k] \in Int /\ c.acc[k] \in Int /\ Cardinality(S) \in Int
      BY FS_CardinalityType DEF PapiCounters
    <2>2. SumOver(c.hw[k], FirstOf(f, k), S) \in Int /\ \A m \in S : FirstOf(f, k)[m] \in Int
      BY <2>1, SumOfReads
    <2>3. CASE k \in DOMAIN c.added /\ c.added[k] = x
      <3>1. SumOver(c.hw[k] + 1, FirstOf(f, k), S) = SumOver(c.hw[k], FirstOf(f, k), S) + Cardinality(S)
        BY <2>1, <2>2, OverTick
      <3>2. d.hw[k] = c.hw[k] + 1
        BY <2>3 DEF Perf!Counted
      <3>3. Done(c, w, k) = w[x] /\ Done(d, v, k) = w[x] + Cardinality(S) /\ w[x] \in Int
        BY <2>3 DEF Done, Works
      <3>4. c.acc[k] + SumOver(c.hw[k], FirstOf(f, k), S) = w[x]
        BY <1>1, <3>3 DEF Conserved
      <3>5. d.acc[k] + SumOver(d.hw[k], FirstOf(f, k), S) = w[x] + Cardinality(S)
        BY <2>1, <2>2, <3>1, <3>2, <3>3, <3>4
      <3>6. QED
        BY <3>3, <3>5 DEF Conserved
    <2>4. CASE ~(k \in DOMAIN c.added /\ c.added[k] = x)
      <3>1. d.hw[k] = c.hw[k]
        BY <2>1, <2>4 DEF Perf!Counted
      <3>2. Done(d, v, k) = Done(c, w, k)
        BY <2>4, Listed DEF Done, Works, PapiCounters
      <3>3. QED
        BY <1>1, <3>1, <3>2 DEF Conserved
    <2>5. QED
      BY <2>3, <2>4
  <1>2. ~d.made => S = {}
    OBVIOUS
  <1>3. ~loose => \A k \in Perf!Values : Conserved(d, f, S, v, k)
    BY <1>1 DEF Balanced
  <1>4. QED
    BY <1>2, <1>3 DEF Balanced

\* A measurement has counted nothing when it is made.
LEMMA BalancedByBegin ==
  ASSUME NEW c \in PapiCounters, NEW f \in Reads, NEW h \in Reads, NEW S \in SUBSET (Threads \X Measures), IsFiniteSet(S),
         NEW w, NEW loose, c.made, NEW x \in (Threads \X Measures) \ S, h[x] = c.hw, \A m \in S : h[m] = f[m],
         Balanced(c, f, S, w, loose)
  PROVE  Balanced(c, h, S \cup {x}, w, loose)
  <1>1. ASSUME NEW e \in Perf!Values, Conserved(c, f, S, w, e) PROVE Conserved(c, h, S \cup {x}, w, e)
    <2>1. PICK T, n : T = S \cup {x} /\ n = c.hw[e]
      OBVIOUS
    <2>2. T \in SUBSET (Threads \X Measures) /\ IsFiniteSet(T) /\ T \ {x} = S /\ x \in T /\ n \in Int
      BY <2>1, FS_AddElement DEF PapiCounters
    <2>4. SumOver(n, FirstOf(h, e), T) = (n - h[x][e]) + SumOver(n, FirstOf(h, e), S)
      BY <2>2, ReadsSplit
    <2>5. h[x][e] = n
      BY <2>1
    <2>6. SumOver(n, FirstOf(h, e), S) = SumOver(n, FirstOf(f, e), S)
      BY <2>2, SameReads
    <2>7. SumOver(n, FirstOf(h, e), S) \in Int
      BY <2>2, SumOfReads
    <2>8. SumOver(n, FirstOf(h, e), T) = SumOver(n, FirstOf(f, e), S)
      BY <2>2, <2>4, <2>5, <2>6, <2>7
    <2>9. QED
      BY <1>1, <2>1, <2>8 DEF Conserved
  <1>2. QED
    BY <1>1 DEF Balanced

\* What a measurement has counted goes over to the sums.
LEMMA BalancedByEnd ==
  ASSUME NEW c \in PapiCounters, NEW f \in Reads, NEW h \in Reads, NEW S \in SUBSET (Threads \X Measures), IsFiniteSet(S),
         NEW w \in Works, NEW loose, NEW x \in S, \A m \in S \ {x} : h[m] = f[m], NEW d \in PapiCounters,
         d.made = c.made, d.added = c.added, d.hw = c.hw,
         \A e \in Perf!Values : d.acc[e] = c.acc[e] + (c.hw[e] - f[x][e]),
         Balanced(c, f, S, w, loose)
  PROVE  Balanced(d, h, S \ {x}, w, loose)
  <1>1. ASSUME NEW e \in Perf!Values, Conserved(c, f, S, w, e) PROVE Conserved(d, h, S \ {x}, w, e)
    <2>1. PICK T, n : T = S \ {x} /\ n = c.hw[e]
      OBVIOUS
    <2>2. T \in SUBSET (Threads \X Measures) /\ IsFiniteSet(T) /\ n \in Int /\ c.acc[e] \in Int
      BY <2>1, FS_Subset DEF PapiCounters
    <2>4. SumOver(n, FirstOf(f, e), S) = (n - f[x][e]) + SumOver(n, FirstOf(f, e), T)
      BY <2>1, <2>2, ReadsSplit
    <2>5. SumOver(n, FirstOf(h, e), T) = SumOver(n, FirstOf(f, e), T)
      BY <2>1, <2>2, SameReads
    <2>6. SumOver(n, FirstOf(f, e), T) \in Int /\ f[x][e] \in Int
      <3>1. SumOver(n, FirstOf(f, e), T) \in Int
        BY <2>2, SumOfReads
      <3>2. x \in Threads \X Measures
        OBVIOUS
      <3>3. f[x][e] \in Int
        BY <3>2 DEF Reads
      <3>4. QED
        BY <3>1, <3>3
    <2>7. d.acc[e] = c.acc[e] + (n - f[x][e])
      BY <2>1
    <2>8. d.acc[e] + SumOver(n, FirstOf(h, e), T) = c.acc[e] + SumOver(n, FirstOf(f, e), S)
      BY <2>2, <2>4, <2>5, <2>6, <2>7
    <2>9. Done(d, w, e) = Done(c, w, e)
      BY DEF Done
    <2>10. QED
      BY <1>1, <2>1, <2>8, <2>9 DEF Conserved
  <1>2. ~c.made => S \ {x} = {}
    BY DEF Balanced
  <1>3. QED
    BY <1>1, <1>2 DEF Balanced

CountTypes ==
  IsFiniteSet(open) /\ worked \in [Threads -> Works] /\ spoiled \in [Threads -> BOOLEAN]

Counting ==
  \A t \in Threads : Balanced(ctr[t], first, Perf!Mine(t), worked[t], spoiled[t])

CountInv == PapiInv /\ CountTypes /\ Counting

LEMMA CountInit == Perf!Init => CountInv
  <1> SUFFICES ASSUME Perf!Init PROVE CountInv
    OBVIOUS
  <1>0. Perf!Zero \in Works
    BY DEF Perf!Zero, Works
  <1>1. IsFiniteSet(open) /\ worked \in [Threads -> Works] /\ spoiled \in [Threads -> BOOLEAN]
    BY <1>0, FS_EmptySet DEF Perf!Init
  <1>2. \A t \in Threads : /\ Perf!Mine(t) = {} /\ worked[t] = Perf!Zero
                           /\ ctr[t].hw = Perf!Zero /\ ctr[t].acc = Perf!Zero
    BY DEF Perf!Init, Perf!Mine, Perf!NoCounters
  <1>3. ASSUME NEW t \in Threads PROVE Balanced(ctr[t], first, Perf!Mine(t), worked[t], spoiled[t])
    <2>1. PICK c, f, loose : c = ctr[t] /\ f = first /\ loose = spoiled[t]
      OBVIOUS
    <2>2. Balanced(c, f, {}, Perf!Zero, loose)
      BY <1>2, <2>1, PapiInit, BalancedWhenReset DEF PapiInv, PapiTypes
    <2>3. QED
      BY <1>2, <2>1, <2>2
  <1>4. QED
    BY <1>1, <1>3, PapiInit DEF CountInv, CountTypes, Counting

LEMMA MineTypes ==
  ASSUME PapiInv, CountTypes, NEW t \in Threads
  PROVE  /\ Perf!Mine(t) \in SUBSET (Threads \X Measures) /\ IsFiniteSet(Perf!Mine(t))
         /\ ctr[t] \in PapiCounters /\ first \in Reads /\ worked[t] \in Works /\ Cardinality(Perf!Mine(t)) \in Int
  <1>1. Perf!Mine(t) \subseteq open
    BY DEF Perf!Mine
  <1>2. IsFiniteSet(Perf!Mine(t))
    BY <1>1, FS_Subset DEF CountTypes
  <1>3. Cardinality(Perf!Mine(t)) \in Int
    BY <1>2, FS_CardinalityType
  <1>4. QED
    BY <1>1, <1>2, <1>3 DEF PapiInv, PapiTypes, CountTypes, Reads
\* The counts of a thread that takes no step are left alone, and so are the
\* measurements of others.
LEMMA OnlyMine ==
  ASSUME CountInv, PapiInv', NEW t \in Threads, CountTypes',
         \A u \in Threads \ {t} : /\ ctr'[u] = ctr[u] /\ worked'[u] = worked[u] /\ spoiled'[u] = spoiled[u]
                                  /\ Perf!Mine(u)' = Perf!Mine(u)
                                  /\ \A m \in Perf!Mine(u) : first'[m] = first[m],
         Balanced(ctr'[t], first', Perf!Mine(t)', worked'[t], spoiled'[t])
  PROVE  CountInv'
  <1>1. ASSUME NEW u \in Threads \ {t}
        PROVE  Balanced(ctr'[u], first', Perf!Mine(u)', worked'[u], spoiled'[u])
    <2>1. PICK c, f, h, S, w, loose :
             c = ctr[u] /\ f = first /\ h = first' /\ S = Perf!Mine(u) /\ w = worked[u] /\ loose = spoiled[u]
      OBVIOUS
    <2>2. c \in PapiCounters /\ f \in Reads /\ S \in SUBSET (Threads \X Measures) /\ IsFiniteSet(S)
      BY <2>1, MineTypes DEF CountInv
    <2>3. h \in Reads
      BY <2>1 DEF PapiInv, PapiTypes, Reads
    <2>4. \A m \in S : h[m] = f[m]
      BY <2>1
    <2>5. Balanced(c, f, S, w, loose)
      BY <2>1 DEF CountInv, Counting
    <2>6. Balanced(c, h, S, w, loose)
      BY <2>2, <2>3, <2>4, <2>5, BalancedForOthers
    <2>7. QED
      BY <2>1, <2>6
  <1>2. Counting'
    BY <1>1 DEF Counting
  <1>3. QED
    BY <1>2 DEF CountInv

LEMMA CountersCount ==
  ASSUME CountInv, PapiInv', NEW t \in Threads, Perf!StartCounters(t) \/ Perf!StopCounters(t)
  PROVE  CountInv'
  <1>1. UNCHANGED <<open, first>> /\ \A u : Perf!Mine(u)' = Perf!Mine(u)
    BY DEF Perf!StartCounters, Perf!StopCounters, Perf!initVars, Perf!Mine
  <1>2. CASE UNCHANGED <<ctr, worked, spoiled>>
    BY <1>1, <1>2 DEF CountInv, CountTypes, Counting
  <1>3. CASE ~UNCHANGED <<ctr, worked, spoiled>>
    <2>1. PICK d : ctr' = [ctr EXCEPT ![t] = d] /\ d.hw = Perf!Zero /\ d.acc = Perf!Zero
      <3>0. Perf!NoCounters.hw = Perf!Zero /\ Perf!NoCounters.acc = Perf!Zero
        BY DEF Perf!NoCounters
      <3>1. CASE Perf!StartCounters(t)
        <4>1. PICK n : ctr' = [ctr EXCEPT ![t] = [Perf!NoCounters EXCEPT !.made = TRUE, !.added = n]]
          BY <1>3, <3>1 DEF Perf!StartCounters
        <4>2. PICK d : d = [Perf!NoCounters EXCEPT !.made = TRUE, !.added = n]
          OBVIOUS
        <4>3. d.hw = Perf!NoCounters.hw /\ d.acc = Perf!NoCounters.acc
          BY <4>2 DEF Perf!NoCounters
        <4>4. QED
          BY <3>0, <4>1, <4>2, <4>3, Zenon
      <3>2. CASE Perf!StopCounters(t)
        <4>1. ctr' = [ctr EXCEPT ![t] = Perf!NoCounters]
          BY <3>2 DEF Perf!StopCounters
        <4>2. QED
          BY <3>0, <4>1, Zenon
      <3>3. QED
        BY <3>1, <3>2
    <2>2. /\ worked' = [worked EXCEPT ![t] = Perf!Zero] /\ spoiled' = [spoiled EXCEPT ![t] = FALSE]
          /\ ~ctr[t].made \/ Perf!Mine(t) = {}
      BY <1>3 DEF Perf!StartCounters, Perf!StopCounters
    <2>3. ctr'[t].hw = Perf!Zero /\ ctr'[t].acc = Perf!Zero /\ \A u \in Threads \ {t} : ctr'[u] = ctr[u]
      BY <2>1 DEF CountInv, PapiInv, PapiTypes
    <2>4. worked'[t] = Perf!Zero /\ \A u \in Threads \ {t} : worked'[u] = worked[u] /\ spoiled'[u] = spoiled[u]
      BY <2>2 DEF CountInv, CountTypes
    <2>5. Perf!Mine(t) = {}
      BY <2>2 DEF CountInv, Counting, Balanced
    <2>6. Balanced(ctr'[t], first', Perf!Mine(t)', worked'[t], spoiled'[t])
      <3>1. PICK c, f, loose : c = ctr'[t] /\ f = first' /\ loose = spoiled'[t]
        OBVIOUS
      <3>2. Balanced(c, f, {}, Perf!Zero, loose)
        BY <2>3, <3>1, BalancedWhenReset DEF PapiInv, PapiTypes
      <3>3. QED
        BY <1>1, <2>4, <2>5, <3>1, <3>2
    <2>7. CountTypes'
      <3>1. Perf!Zero \in Works
        BY DEF Perf!Zero, Works
      <3>2. QED
        BY <1>1, <2>2, <3>1 DEF CountInv, CountTypes
    <2>8. QED
      BY <1>1, <2>3, <2>4, <2>6, <2>7, OnlyMine
  <1>4. QED
    BY <1>2, <1>3

LEMMA WorkCounts ==
  ASSUME CountInv, PapiInv', NEW t \in Threads, NEW x \in Perf!Values, Perf!Work(t, x)
  PROVE  CountInv'
  <1>1. UNCHANGED <<open, first, spoiled>> /\ (\A u : Perf!Mine(u)' = Perf!Mine(u)) /\ ctr[t].made
    BY DEF Perf!Work, Perf!Mine
  <1>2. PICK v : /\ v = [worked[t] EXCEPT ![x] = @ + Cardinality(Perf!Mine(t))]
                 /\ worked' = [worked EXCEPT ![t] = v]
    BY PerfCardinality DEF Perf!Work, CountInv, CountTypes
  <1>3. PICK hw : hw = Perf!Counted(ctr[t], x) /\ ctr' = [ctr EXCEPT ![t].hw = hw]
    BY DEF Perf!Work
  <1>4. /\ ctr'[t].made = ctr[t].made /\ ctr'[t].added = ctr[t].added /\ ctr'[t].acc = ctr[t].acc
        /\ ctr'[t].hw = hw /\ \A u \in Threads \ {t} : ctr'[u] = ctr[u]
    BY <1>3 DEF CountInv, PapiInv, PapiTypes, PapiCounters
  <1>5. v \in Works
    BY <1>2, MineTypes DEF CountInv, Works
  <1>6. /\ CountTypes' /\ worked'[t] = v
        /\ \A u \in Threads \ {t} : worked'[u] = worked[u]
    BY <1>1, <1>2, <1>5 DEF CountInv, CountTypes
  <1>7. Balanced(ctr'[t], first', Perf!Mine(t)', worked'[t], spoiled'[t])
    <2>1. PICK c, d, f, S, w, loose :
             c = ctr[t] /\ d = ctr'[t] /\ f = first /\ S = Perf!Mine(t) /\ w = worked[t] /\ loose = spoiled[t]
      OBVIOUS
    <2>2. /\ c \in PapiCounters /\ f \in Reads /\ S \in SUBSET (Threads \X Measures) /\ IsFiniteSet(S)
          /\ w \in Works
      BY <2>1, MineTypes DEF CountInv
    <2>3. d \in PapiCounters
      BY <2>1 DEF PapiInv, PapiTypes
    <2>4. Balanced(c, f, S, w, loose) /\ c.made
      BY <1>1, <2>1 DEF CountInv, Counting
    <2>5. /\ d.made = c.made /\ d.added = c.added /\ d.acc = c.acc /\ d.hw = Perf!Counted(c, x)
          /\ v = [w EXCEPT ![x] = @ + Cardinality(S)]
      BY <1>2, <1>3, <1>4, <2>1
    <2>6. Balanced(d, f, S, v, loose)
      BY <1>5, <2>2, <2>3, <2>4, <2>5, BalancedByWork
    <2>7. QED
      BY <1>1, <1>6, <2>1, <2>6
  <1>8. QED
    BY <1>1, <1>4, <1>6, <1>7, OnlyMine

LEMMA BeginCounts ==
  ASSUME CountInv, PapiInv', NEW t \in Threads, NEW m \in Measures, Perf!Begin(t, m)
  PROVE  CountInv'
  <1>1. PICK x \in Threads \X Measures : x = <<t, m>>
    OBVIOUS
  <1>2. /\ ctr[t].made /\ x \notin open /\ open' = open \cup {x}
        /\ first' = [first EXCEPT ![x] = ctr[t].hw] /\ UNCHANGED <<ctr, worked, spoiled>>
    BY <1>1 DEF Perf!Begin
  <1>3. /\ Perf!Mine(t)' = Perf!Mine(t) \cup {x} /\ x \notin Perf!Mine(t)
        /\ \A u \in Threads \ {t} : Perf!Mine(u)' = Perf!Mine(u) /\ x \notin Perf!Mine(u)
    BY <1>1, <1>2 DEF Perf!Mine
  <1>4. first'[x] = ctr[t].hw /\ \A y \in (Threads \X Measures) \ {x} : first'[y] = first[y]
    BY <1>2 DEF CountInv, PapiInv, PapiTypes
  <1>5. CountTypes'
    BY <1>2, FS_AddElement DEF CountInv, CountTypes
  <1>6. Balanced(ctr'[t], first', Perf!Mine(t)', worked'[t], spoiled'[t])
    <2>1. PICK c, f, h, S, w, loose :
             c = ctr[t] /\ f = first /\ h = first' /\ S = Perf!Mine(t) /\ w = worked[t] /\ loose = spoiled[t]
      OBVIOUS
    <2>2. c \in PapiCounters /\ f \in Reads /\ S \in SUBSET (Threads \X Measures) /\ IsFiniteSet(S)
      BY <2>1, MineTypes DEF CountInv
    <2>3. h \in Reads
      BY <2>1 DEF PapiInv, PapiTypes, Reads
    <2>4. Balanced(c, f, S, w, loose) /\ c.made
      BY <1>2, <2>1 DEF CountInv, Counting
    <2>5. x \in (Threads \X Measures) \ S /\ h[x] = c.hw /\ \A y \in S : h[y] = f[y]
      BY <1>3, <1>4, <2>1, <2>2
    <2>6. Balanced(c, h, S \cup {x}, w, loose)
      BY <2>2, <2>3, <2>4, <2>5, BalancedByBegin
    <2>7. QED
      BY <1>2, <1>3, <2>1, <2>6
  <1>7. \A u \in Threads \ {t} : \A y \in Perf!Mine(u) : first'[y] = first[y]
    <2>1. \A u \in Threads : Perf!Mine(u) \in SUBSET (Threads \X Measures)
      BY MineTypes DEF CountInv
    <2>2. QED
      BY <1>3, <1>4, <2>1
  <1>8. QED
    BY <1>2, <1>3, <1>5, <1>6, <1>7, OnlyMine

LEMMA CopyCounts ==
  ASSUME CountInv, PapiInv', NEW t \in Threads, NEW m \in Measures, NEW n \in Measures, Perf!CopyMeasure(t, m, n)
  PROVE  CountInv'
  <1>1. PICK x \in Threads \X Measures : x = <<t, n>>
    OBVIOUS
  <1>2. /\ <<t, m>> \in open /\ x \notin open /\ open' = open \cup {x}
        /\ first' = [first EXCEPT ![x] = first[<<t, m>>]]
        /\ spoiled' = [spoiled EXCEPT ![t] = TRUE] /\ UNCHANGED <<ctr, worked>>
    BY <1>1 DEF Perf!CopyMeasure
  <1>3. \A u \in Threads \ {t} : Perf!Mine(u)' = Perf!Mine(u) /\ x \notin Perf!Mine(u)
    BY <1>1, <1>2 DEF Perf!Mine
  <1>4. \A y \in (Threads \X Measures) \ {x} : first'[y] = first[y]
    BY <1>2 DEF CountInv, PapiInv, PapiTypes
  <1>5. CountTypes'
    BY <1>2, FS_AddElement DEF CountInv, CountTypes
  <1>6. Balanced(ctr'[t], first', Perf!Mine(t)', worked'[t], spoiled'[t])
    <2>1. <<t, m>> \in Perf!Mine(t)
      BY <1>2 DEF Perf!Mine
    <2>2. Balanced(ctr[t], first, Perf!Mine(t), worked[t], spoiled[t])
      BY DEF CountInv, Counting
    <2>3. ctr[t].made
      BY <2>1, <2>2 DEF Balanced
    <2>4. spoiled'[t] = TRUE
      BY <1>2 DEF CountInv, CountTypes
    <2>5. QED
      BY <1>2, <2>2, <2>3, <2>4 DEF Balanced
  <1>7. \A u \in Threads \ {t} : \A y \in Perf!Mine(u) : first'[y] = first[y]
    <2>1. \A u \in Threads : Perf!Mine(u) \in SUBSET (Threads \X Measures)
      BY MineTypes DEF CountInv
    <2>2. QED
      BY <1>3, <1>4, <2>1
  <1>8. \A u \in Threads \ {t} : spoiled'[u] = spoiled[u]
    BY <1>2 DEF CountInv, CountTypes
  <1>9. QED
    BY <1>2, <1>3, <1>5, <1>6, <1>7, <1>8, OnlyMine

LEMMA MeasuredCounts ==
  ASSUME CountInv, PapiInv', NEW t \in Threads, NEW m \in Measures, Perf!Measured(t, m)
  PROVE  CountInv'
  <1>1. PICK x \in Threads \X Measures : x = <<t, m>>
    OBVIOUS
  <1>2. /\ x \in open /\ open' = open \ {x} /\ first' = [first EXCEPT ![x] = Perf!Zero] /\ UNCHANGED worked
    BY <1>1 DEF Perf!Measured
  <1>3. /\ Perf!Mine(t)' = Perf!Mine(t) \ {x} /\ x \in Perf!Mine(t)
        /\ \A u \in Threads \ {t} : Perf!Mine(u)' = Perf!Mine(u) /\ x \notin Perf!Mine(u)
    BY <1>1, <1>2 DEF Perf!Mine
  <1>4. \A y \in (Threads \X Measures) \ {x} : first'[y] = first[y]
    BY <1>2 DEF CountInv, PapiInv, PapiTypes
  <1>5. spoiled' = spoiled \/ spoiled' = [spoiled EXCEPT ![t] = TRUE]
    BY DEF Perf!Measured
  <1>6. CountTypes'
    <2>1. IsFiniteSet(open')
      BY <1>2, FS_Subset DEF CountInv, CountTypes
    <2>2. QED
      BY <1>2, <1>5, <2>1 DEF CountInv, CountTypes
  <1>7. \A u \in Threads \ {t} : spoiled'[u] = spoiled[u] /\ ctr'[u] = ctr[u]
    <2>1. UNCHANGED ctr \/ \E a : ctr' = [ctr EXCEPT ![t].acc = a]
      BY DEF Perf!Measured
    <2>2. QED
      BY <1>5, <2>1 DEF CountInv, CountTypes, PapiInv, PapiTypes
  <1>8. Balanced(ctr[t], first, Perf!Mine(t), worked[t], spoiled[t])
    BY DEF CountInv, Counting
  <1>9. Balanced(ctr'[t], first', Perf!Mine(t)', worked'[t], spoiled'[t])
    <2>1. CASE spoiled' = [spoiled EXCEPT ![t] = TRUE] /\ UNCHANGED ctr
      <3>1. ctr[t].made
        BY <1>3, <1>8 DEF Balanced
      <3>2. spoiled'[t] = TRUE
        BY <2>1 DEF CountInv, CountTypes
      <3>3. QED
        BY <1>2, <1>8, <2>1, <3>1, <3>2 DEF Balanced
    <2>2. CASE ~(spoiled' = [spoiled EXCEPT ![t] = TRUE] /\ UNCHANGED ctr)
      <3>1. PICK acc : /\ acc = [e \in Perf!Values |-> ctr[t].acc[e] + Perf!Difference(t, m)[e]]
                       /\ ctr' = [ctr EXCEPT ![t].acc = acc] /\ spoiled' = spoiled
        BY <2>2 DEF Perf!Measured
      <3>2. \A e \in Perf!Values : acc[e] = ctr[t].acc[e] + (ctr[t].hw[e] - first[x][e])
        BY <1>1, <3>1 DEF Perf!Difference
      <3>3. /\ ctr'[t].made = ctr[t].made /\ ctr'[t].added = ctr[t].added /\ ctr'[t].hw = ctr[t].hw
            /\ ctr'[t].acc = acc
        BY <3>1 DEF CountInv, PapiInv, PapiTypes, PapiCounters
      <3>4. PICK c, d, f, h, S, w, loose :
               /\ c = ctr[t] /\ d = ctr'[t] /\ f = first /\ h = first'
               /\ S = Perf!Mine(t) /\ w = worked[t] /\ loose = spoiled[t]
        OBVIOUS
      <3>5. /\ c \in PapiCounters /\ f \in Reads /\ S \in SUBSET (Threads \X Measures) /\ IsFiniteSet(S)
            /\ w \in Works
        BY <3>4, MineTypes DEF CountInv
      <3>6. h \in Reads /\ d \in PapiCounters
        BY <3>4 DEF PapiInv, PapiTypes, Reads
      <3>7. x \in S /\ \A y \in S \ {x} : h[y] = f[y]
        BY <1>3, <1>4, <3>4, <3>5
      <3>8. /\ d.made = c.made /\ d.added = c.added /\ d.hw = c.hw
            /\ \A e \in Perf!Values : d.acc[e] = c.acc[e] + (c.hw[e] - f[x][e])
        BY <3>2, <3>3, <3>4
      <3>9. Balanced(d, h, S \ {x}, w, loose)
        BY <1>8, <3>4, <3>5, <3>6, <3>7, <3>8, BalancedByEnd
      <3>10. QED
        BY <1>2, <1>3, <3>1, <3>4, <3>9
    <2>3. QED
      BY <2>1, <2>2
  <1>10. \A u \in Threads \ {t} : \A y \in Perf!Mine(u) : first'[y] = first[y]
    <2>1. \A u \in Threads : Perf!Mine(u) \in SUBSET (Threads \X Measures)
      BY MineTypes DEF CountInv
    <2>2. QED
      BY <1>3, <1>4, <2>1
  <1>11. QED
    BY <1>2, <1>3, <1>6, <1>7, <1>9, <1>10, OnlyMine

\* Nested measurements add up: a counters object's sums and what its open
\* measurements have counted so far are what happened inside of them, of the
\* event PAPI reads at each place, until a measurement of its thread is copied or
\* its last read fails.
THEOREM CountsAddUp == ToolsSpec => []CountsConserved
  <1>1. ToolsInit => CountInv
    BY CountInit DEF ToolsInit
  <1>2. CountInv /\ [ToolsNext]_toolsVars => CountInv'
    <2> SUFFICES ASSUME CountInv, Perf!Next \/ UNCHANGED papiVars PROVE CountInv'
      BY DEF ToolsNext, toolsVars
    <2>1. CASE UNCHANGED papiVars
      BY <2>1 DEF papiVars, CountInv, CountTypes, Counting, Perf!Mine, PapiInv, PapiTypes, Initialised
    <2>2. ASSUME NEW t \in Threads,
                 \/ Perf!Make(t, "hardware") \/ Perf!Make(t, "counters")
                 \/ Perf!LibraryInit(t) \/ Perf!ThreadInit(t) \/ Perf!Register(t)
          PROVE  CountInv'
      <3>1. PapiInv'
        BY <2>2, InitStep DEF CountInv
      <3>2. UNCHANGED <<ctr, open, first, worked, spoiled>>
        BY <2>2 DEF Perf!Make, Perf!LibraryInit, Perf!ThreadInit, Perf!Register
      <3>3. QED
        BY <3>1, <3>2 DEF CountInv, CountTypes, Counting, Perf!Mine
    <2>3. ASSUME NEW t \in Threads, Perf!StartCounters(t) \/ Perf!StopCounters(t) PROVE CountInv'
      BY <2>3, CountersStep, CountersCount DEF CountInv
    <2>4. ASSUME NEW t \in Threads, NEW e \in Perf!Values, Perf!Work(t, e) PROVE CountInv'
      BY <2>4, MeasureStep, WorkCounts DEF CountInv
    <2>5. ASSUME NEW t \in Threads, NEW m \in Measures, Perf!Begin(t, m) PROVE CountInv'
      BY <2>5, MeasureStep, BeginCounts DEF CountInv
    <2>6. ASSUME NEW t \in Threads, NEW m \in Measures, Perf!Measured(t, m) PROVE CountInv'
      BY <2>6, MeasureStep, MeasuredCounts DEF CountInv
    <2>7. ASSUME NEW t \in Threads, NEW m \in Measures, NEW n \in Measures, Perf!CopyMeasure(t, m, n) PROVE CountInv'
      BY <2>7, MeasureStep, CopyCounts DEF CountInv
    <2>8. Perf!Finished => UNCHANGED papiVars
      BY DEF Perf!Finished, Perf!vars, Perf!initVars, papiVars
    <2>9. QED
      BY <2>1, <2>2, <2>3, <2>4, <2>5, <2>6, <2>7, <2>8 DEF Perf!Next
  <1>3. CountInv => CountsConserved
    <2> SUFFICES ASSUME CountInv, NEW t \in Threads, ~spoiled[t], NEW e \in Perf!Values
                 PROVE  ctr[t].acc[e] + Perf!SumFunction([m \in Perf!Mine(t) |-> ctr[t].hw[e] - first[m][e]])
                          = IF e \in DOMAIN ctr[t].added THEN worked[t][ctr[t].added[e]] ELSE 0
      BY DEF CountsConserved, Perf!CountsConserved, Perf!Total
    <2>1. PICK f, g : /\ f = [m \in Perf!Mine(t) |-> ctr[t].hw[e] - first[m][e]]
                      /\ g = [m \in Perf!Mine(t) |-> ctr[t].hw[e] - FirstOf(first, e)[m]]
      OBVIOUS
    <2>2. Perf!Mine(t) \in SUBSET (Threads \X Measures)
      BY MineTypes DEF CountInv
    <2>3. f = g
      BY <2>1, <2>2 DEF FirstOf
    <2>4. Perf!SumFunction(f) = SumFunctionOnSet(f, DOMAIN f) /\ DOMAIN f = Perf!Mine(t)
      BY <2>1, PerfSum
    <2>5. SumOver(ctr[t].hw[e], FirstOf(first, e), Perf!Mine(t)) = SumFunctionOnSet(g, Perf!Mine(t))
      BY <2>1 DEF SumOver
    <2>6. Conserved(ctr[t], first, Perf!Mine(t), worked[t], e)
      BY DEF CountInv, Counting, Balanced
    <2>7. QED
      BY <2>1, <2>3, <2>4, <2>5, <2>6 DEF Conserved, Done
  <1>4. QED
    BY <1>1, <1>2, <1>3, PTL DEF ToolsSpec

-----------------------------------------------------------------------------
(***************************************************************************)
(* The indenting stream.                                                   *)
(***************************************************************************)

Guard == [old : Int, delta : Int]

\* While guards end as scopes do, each has the level the one below it set.
Chained ==
  ~crossed => \A i \in 1 .. Len(guards) :
    guards[i].old = IF i = 1 THEN 0 ELSE Indent!Raised(guards[i - 1].old, guards[i - 1].delta)

IndentTypes ==
  /\ guards \in Seq(Guard) /\ level \in Int
  /\ text \in BOOLEAN /\ crossed \in BOOLEAN /\ off \in BOOLEAN

IndentInv == IndentTypes /\ Chained /\ IndentFollows

LEMMA IndentStart == Indent!Init => IndentInv
  <1> SUFFICES ASSUME Indent!Init PROVE IndentInv
    OBVIOUS
  <1>1. guards = << >> /\ level = 0 /\ column = 0 /\ text = FALSE /\ crossed = FALSE /\ off = FALSE
    BY DEF Indent!Init
  <1>2. Len(guards) = 0 /\ guards \in Seq(Guard)
    BY <1>1
  <1>3. IndentFollows
    BY <1>1 DEF IndentFollows, Indent!IndentFollows
  <1>4. IndentTypes
    <2>1. level \in Int
      BY <1>1
    <2>2. text \in BOOLEAN /\ crossed \in BOOLEAN /\ off \in BOOLEAN
      BY <1>1, Zenon
    <2>3. QED
      BY <1>2, <2>1, <2>2, Zenon DEF IndentTypes
  <1>5. Chained
    <2>1. 1 .. Len(guards) = {}
      BY <1>2
    <2>2. QED
      BY <2>1 DEF Chained
  <1>6. QED
    BY <1>3, <1>4, <1>5 DEF IndentInv

\* The new guard remembers the level of the last one.
LEMMA MakeGuardStep ==
  ASSUME IndentInv, NEW delta \in Deltas, Indent!MakeGuard(delta)
  PROVE  IndentInv'
  <1> DEFINE g == [old |-> level, delta |-> delta]
  <1>1. /\ guards' = Append(guards, g) /\ level' = Indent!Raised(level, delta)
        /\ UNCHANGED <<text, crossed>>
    BY DEF Indent!MakeGuard
  <1>2. g \in Guard /\ level' \in Int /\ off' \in BOOLEAN
    BY <1>1, ToolsAssumption DEF IndentInv, IndentTypes, Guard, Indent!Raised, Indent!MakeGuard
  <1>3. guards' \in Seq(Guard) /\ Len(guards') = Len(guards) + 1
    BY <1>1, <1>2 DEF IndentInv, IndentTypes
  <1>4. guards'[Len(guards')] = g /\ \A i \in 1 .. Len(guards) : guards'[i] = guards[i]
    BY <1>1, <1>2, <1>3 DEF IndentInv, IndentTypes
  <1>5. ~crossed => level = IF Len(guards) = 0 THEN 0
                            ELSE Indent!Raised(guards[Len(guards)].old, guards[Len(guards)].delta)
    BY DEF IndentInv, IndentTypes, IndentFollows, Indent!IndentFollows, Indent!Last
  <1>6. Chained'
    <2> SUFFICES ASSUME ~crossed, NEW i \in 1 .. Len(guards) + 1
                 PROVE  guards'[i].old = IF i = 1 THEN 0
                          ELSE Indent!Raised(guards'[i - 1].old, guards'[i - 1].delta)
      BY <1>1, <1>3 DEF Chained
    <2>1. CASE i = Len(guards) + 1
      BY <1>3, <1>4, <1>5, <2>1 DEF IndentInv, IndentTypes
    <2>2. CASE i \in 1 .. Len(guards)
      <3>1. guards'[i] = guards[i] /\ (i # 1 => i - 1 \in 1 .. Len(guards))
        BY <1>4, <2>2
      <3>2. i # 1 => guards'[i - 1] = guards[i - 1]
        BY <1>4, <3>1
      <3>3. QED
        BY <2>2, <3>1, <3>2 DEF IndentInv, Chained
    <2>3. QED
      BY <2>1, <2>2 DEF IndentInv, IndentTypes
  <1>7. IndentFollows'
    <2>1. guards' # << >> /\ Indent!Last(guards') = g
      BY <1>3, <1>4 DEF Indent!Last, IndentInv
    <2>2. level' = Indent!Raised(g.old, g.delta)
      BY <1>1
    <2>3. ASSUME ~text', ~off' PROVE column' = level'
      <3>1. ~text /\ ~off /\ level' = level + 1 /\ column' = column + 1
        <4>1. ~text
          BY <1>1, <2>3
        <4>2. off' = (off \/ (~text /\ level' # level + 1)) /\ column' = IF text THEN column ELSE column + 1
          BY DEF Indent!MakeGuard
        <4>3. QED
          BY <2>3, <4>1, <4>2
      <3>2. column = level
        BY <3>1 DEF IndentInv, IndentFollows, Indent!IndentFollows
      <3>3. QED
        BY <3>1, <3>2
    <2>4. QED
      BY <2>1, <2>2, <2>3 DEF IndentFollows, Indent!IndentFollows
  <1>8. QED
    BY <1>1, <1>2, <1>3, <1>6, <1>7 DEF IndentInv, IndentTypes

\* The last guard gives the level back to the one below it.
LEMMA EndGuardStep ==
  ASSUME IndentInv, NEW i \in 1 .. Len(guards), Indent!EndGuard(i)
  PROVE  IndentInv'
  <1>1. /\ level' = guards[i].old
        /\ guards' = SubSeq(guards, 1, i - 1) \o SubSeq(guards, i + 1, Len(guards))
        /\ crossed' = (crossed \/ i # Len(guards)) /\ off' = (off \/ ~text)
        /\ UNCHANGED <<column, text>>
    BY DEF Indent!EndGuard, Indent!Reset, Indent!RemoveAt
  <1>2. IndentTypes'
    <2>1. SubSeq(guards, 1, i - 1) \in Seq(Guard) /\ SubSeq(guards, i + 1, Len(guards)) \in Seq(Guard)
      BY DEF IndentInv, IndentTypes
    <2>2. guards' \in Seq(Guard)
      BY <1>1, <2>1
    <2>3. guards[i] \in Guard
      BY DEF IndentInv, IndentTypes
    <2>4. level' \in Int
      BY <1>1, <2>3 DEF Guard
    <2>5. QED
      BY <1>1, <2>2, <2>4 DEF IndentInv, IndentTypes
  <1>3. CASE ~crossed'
    <2>1. i = Len(guards) /\ ~crossed
      BY <1>1, <1>3
    <2>2. Len(guards') = Len(guards) - 1 /\ \A j \in 1 .. Len(guards) - 1 : guards'[j] = guards[j]
      BY <1>1, <2>1 DEF IndentInv, IndentTypes
    <2>3. Chained'
      BY <1>1, <2>1, <2>2 DEF IndentInv, IndentTypes, Chained
    <2>4. level' = IF guards' = << >> THEN 0
                   ELSE Indent!Raised(Indent!Last(guards').old, Indent!Last(guards').delta)
      <3>1. level' = IF Len(guards) = 1 THEN 0
                     ELSE Indent!Raised(guards[Len(guards) - 1].old, guards[Len(guards) - 1].delta)
        BY <1>1, <2>1 DEF IndentInv, IndentTypes, Chained
      <3>2. Len(guards) = 1 <=> guards' = << >>
        BY <1>2, <2>2 DEF IndentTypes
      <3>3. Len(guards) # 1 => Indent!Last(guards') = guards[Len(guards) - 1]
        BY <1>2, <2>2 DEF IndentInv, IndentTypes, Indent!Last
      <3>4. QED
        BY <3>1, <3>2, <3>3
    <2>5. QED
      BY <1>1, <1>2, <2>3, <2>4 DEF IndentInv, IndentTypes, IndentFollows, Indent!IndentFollows
  <1>4. CASE crossed'
    BY <1>1, <1>2, <1>4 DEF IndentInv, IndentTypes, Chained, IndentFollows, Indent!IndentFollows
  <1>5. QED
    BY <1>3, <1>4

\* Levels and indents follow the guards, however many there are.
THEOREM LevelsFollow == ToolsSpec => []IndentFollows
  <1>1. ToolsInit => IndentInv
    BY IndentStart DEF ToolsInit
  <1>2. IndentInv /\ [ToolsNext]_toolsVars => IndentInv'
    <2> SUFFICES ASSUME IndentInv, Indent!Next \/ UNCHANGED indentVars PROVE IndentInv'
      BY DEF ToolsNext, toolsVars
    <2>1. CASE Indent!PutText \/ Indent!PutNewline
      BY <2>1 DEF Indent!PutText, Indent!PutNewline, IndentInv, IndentTypes, Chained, IndentFollows, Indent!IndentFollows
    <2>2. CASE UNCHANGED indentVars
      BY <2>2 DEF indentVars, IndentInv, IndentTypes, Chained, IndentFollows, Indent!IndentFollows
    <2>3. QED
      BY <2>1, <2>2, MakeGuardStep, EndGuardStep DEF Indent!Next, Indent!Finished, Indent!vars, indentVars
  <1>3. IndentInv => IndentFollows
    BY DEF IndentInv
  <1>4. QED
    BY <1>1, <1>2, <1>3, PTL DEF ToolsSpec

-----------------------------------------------------------------------------
(***************************************************************************)
(* The pool allocator.                                                     *)
(***************************************************************************)

Slots(a) == 1 .. Len(heap[a])

PoolTypes ==
  /\ \A a \in DOMAIN heap : heap[a] \in Seq(1 .. items)
  /\ used \subseteq 1 .. items /\ leaked \subseteq 1 .. items
  /\ items \in Nat /\ assigned \in BOOLEAN

\* Items are on one list, once, and not with the program, nor lost.
Disjoint ==
  /\ \A a \in DOMAIN heap : \A i, j \in Slots(a) : heap[a][i] = heap[a][j] => i = j
  /\ \A a, b \in DOMAIN heap : \A i \in Slots(a), j \in Slots(b) : heap[a][i] = heap[b][j] => a = b
  /\ \A a \in DOMAIN heap : \A i \in Slots(a) : heap[a][i] \notin used \cup leaked
  /\ used \cap leaked = {}

\* No item is gone.
Everywhere ==
  \A p \in 1 .. items : p \in used \cup leaked \/ \E a \in DOMAIN heap : \E i \in Slots(a) : heap[a][i] = p

PoolInv == PoolTypes /\ (~assigned => Disjoint /\ Everywhere)

LEMMA PoolInit == Pool!Init => PoolInv
  <1> SUFFICES ASSUME Pool!Init PROVE PoolInv
    OBVIOUS
  <1>1. DOMAIN heap = {} /\ used = {} /\ leaked = {} /\ items = 0
    BY DEF Pool!Init
  <1>2. assigned \in BOOLEAN
    BY Zenon DEF Pool!Init
  <1>3. PoolTypes
    BY <1>1, <1>2 DEF PoolTypes
  <1>4. QED
    BY <1>1, <1>3 DEF PoolInv, Disjoint, Everywhere

\* One list is another one, the rest are the same.
LEMMA WithList ==
  ASSUME NEW a, NEW list, heap' = Pool!With(a, list)
  PROVE  /\ DOMAIN heap' = DOMAIN heap \cup {a} /\ heap'[a] = list
         /\ \A b \in DOMAIN heap \ {a} : heap'[b] = heap[b]
  BY DEF Pool!With

LEMMA ConstructStep ==
  ASSUME PoolInv, NEW a \in Allocators, Pool!Construct(a)
  PROVE  PoolInv'
  <1> DEFINE list == [i \in 1 .. InitialItems |-> items + i]
  <1>1. /\ a \notin DOMAIN heap /\ heap' = Pool!With(a, list) /\ items' = items + InitialItems
        /\ UNCHANGED <<used, leaked, assigned>>
    BY DEF Pool!Construct
  <1>2. InitialItems \in Nat /\ items \in Nat
    BY ToolsAssumption DEF PoolInv, PoolTypes
  <1>3. items' \in Nat /\ \A p \in 1 .. items : p \in 1 .. items'
    BY <1>1, <1>2
  <1>4. list \in Seq(1 .. items') /\ Len(list) = InitialItems /\ \A i \in 1 .. InitialItems : list[i] = items + i
    <2>1. \A i \in 1 .. InitialItems : items + i \in 1 .. items + InitialItems
      BY <1>2
    <2>2. list \in [1 .. InitialItems -> 1 .. items']
      BY <1>1, <2>1
    <2>3. QED
      BY <1>2, <2>2
  <1> HIDE DEF list
  <1>5. /\ DOMAIN heap' = DOMAIN heap \cup {a} /\ heap'[a] = list
        /\ \A b \in DOMAIN heap : heap'[b] = heap[b]
    BY <1>1, WithList
  <1>6. PoolTypes'
    <2>1. \A b \in DOMAIN heap : heap[b] \in Seq(1 .. items')
      BY <1>3 DEF PoolInv, PoolTypes
    <2>2. QED
      BY <1>1, <1>3, <1>4, <1>5, <2>1 DEF PoolInv, PoolTypes
  <1>7. ASSUME ~assigned PROVE Disjoint' /\ Everywhere'
    <2>1. \A b \in DOMAIN heap : \A i \in Slots(b) : heap[b][i] \in 1 .. items
      BY DEF PoolInv, PoolTypes, Slots
    <2>2. \A i \in 1 .. InitialItems : list[i] \notin 1 .. items
      BY <1>2, <1>4
    <2>3. Disjoint'
      <3>1. \A b \in DOMAIN heap : b # a /\ heap'[b] = heap[b] /\ Slots(b)' = Slots(b)
        BY <1>1, <1>5 DEF Slots
      <3>2. \A i \in Slots(a)' : heap'[a][i] \notin 1 .. items /\ heap'[a][i] = items + i /\ i \in Nat
        BY <1>2, <1>4, <1>5, <2>2 DEF Slots
      <3>3. Disjoint /\ used \subseteq 1 .. items /\ leaked \subseteq 1 .. items
        BY <1>7 DEF PoolInv, PoolTypes
      <3>4. \A i, j \in Slots(a)' : heap'[a][i] = heap'[a][j] => i = j
        BY <1>2, <3>2
      <3>5. \A b \in DOMAIN heap' : \A i, j \in Slots(b)' : heap'[b][i] = heap'[b][j] => i = j
        BY <1>5, <3>1, <3>3, <3>4 DEF Disjoint
      <3>6. \A b, c \in DOMAIN heap' : \A i \in Slots(b)', j \in Slots(c)' : heap'[b][i] = heap'[c][j] => b = c
        BY <1>5, <2>1, <3>1, <3>2, <3>3 DEF Disjoint
      <3>7. \A b \in DOMAIN heap' : \A i \in Slots(b)' : heap'[b][i] \notin used \cup leaked
        BY <1>5, <3>1, <3>2, <3>3 DEF Disjoint
      <3>8. QED
        BY <1>1, <3>3, <3>5, <3>6, <3>7 DEF Disjoint
    <2>4. Everywhere'
      <3> SUFFICES ASSUME NEW p \in 1 .. items'
                   PROVE  p \in used' \cup leaked' \/ \E b \in DOMAIN heap' : \E i \in 1 .. Len(heap'[b]) : heap'[b][i] = p
        BY DEF Everywhere, Slots
      <3>1. CASE p \in 1 .. items
        BY <1>1, <1>5, <1>7, <3>1 DEF PoolInv, Everywhere, Slots
      <3>2. CASE p \notin 1 .. items
        <4>1. p - items \in 1 .. InitialItems /\ items + (p - items) = p
          BY <1>1, <1>2, <3>2
        <4>2. p - items \in 1 .. Len(heap'[a]) /\ heap'[a][p - items] = p
          BY <1>4, <1>5, <4>1
        <4>3. QED
          BY <1>5, <4>2
      <3>3. QED
        BY <3>1, <3>2
    <2>5. QED
      BY <2>3, <2>4
  <1>8. QED
    BY <1>1, <1>6, <1>7 DEF PoolInv

\* An allocator that is made, or goes, takes no item from another one.
LEMMA CopyStep ==
  ASSUME PoolInv, NEW a \in Allocators, NEW b \in Allocators, Pool!Copy(a, b) \/ Pool!Assign(a, b)
  PROVE  PoolInv'
  <1>1. CASE Pool!Copy(a, b)
    <2>1. b \notin DOMAIN heap /\ heap' = Pool!With(b, << >>) /\ UNCHANGED <<used, leaked, items, assigned>>
      BY <1>1 DEF Pool!Copy, Pool!CopiedList
    <2>2. /\ DOMAIN heap' = DOMAIN heap \cup {b} /\ heap'[b] = << >>
          /\ \A c \in DOMAIN heap : heap'[c] = heap[c]
      BY <2>1, WithList
    <2>3. Len(heap'[b]) = 0 /\ heap'[b] \in Seq(1 .. items)
      BY <2>2
    <2>4. PoolTypes'
      BY <2>1, <2>2, <2>3 DEF PoolInv, PoolTypes
    <2>5. \A c \in DOMAIN heap' : c # b \/ Slots(c)' = {}
      BY <2>3 DEF Slots
    <2>6. \A c \in DOMAIN heap : Slots(c)' = Slots(c)
      BY <2>2 DEF Slots
    <2>7. ~assigned => Disjoint' /\ Everywhere'
      BY <2>1, <2>2, <2>5, <2>6 DEF PoolInv, Disjoint, Everywhere
    <2>8. QED
      BY <2>1, <2>4, <2>7 DEF PoolInv
  <1>2. CASE Pool!Assign(a, b)
    <2>1. /\ {a, b} \subseteq DOMAIN heap /\ heap' = Pool!With(b, heap[a]) /\ assigned' = TRUE
          /\ leaked' = leaked \cup Pool!ToSet(heap[b]) /\ UNCHANGED <<used, items>>
      BY <1>2 DEF Pool!Assign
    <2>2. /\ DOMAIN heap' = DOMAIN heap /\ heap'[b] = heap[a]
          /\ \A c \in DOMAIN heap \ {b} : heap'[c] = heap[c]
      BY <2>1, WithList
    <2>3. leaked' \subseteq 1 .. items
      <3>1. heap[b] \in Seq(1 .. items) /\ leaked \subseteq 1 .. items
        BY <2>1 DEF PoolInv, PoolTypes
      <3>2. \A i \in DOMAIN heap[b] : heap[b][i] \in 1 .. items
        <4>1. ASSUME NEW S, NEW q \in Seq(S) PROVE \A i \in DOMAIN q : q[i] \in S
          OBVIOUS
        <4>2. QED
          BY <3>1, <4>1, Zenon
      <3>3. Pool!ToSet(heap[b]) \subseteq 1 .. items
        BY <3>2, Zenon DEF Pool!ToSet
      <3>4. QED
        BY <2>1, <3>1, <3>3
    <2>4. QED
      BY <2>1, <2>2, <2>3 DEF PoolInv, PoolTypes
  <1>3. QED
    BY <1>1, <1>2

LEMMA DestroyStep ==
  ASSUME PoolInv, NEW a \in Allocators, Pool!Destroy(a)
  PROVE  PoolInv'
  <1>1. /\ a \in DOMAIN heap /\ leaked' = leaked \cup Pool!ToSet(heap[a])
        /\ DOMAIN heap' = DOMAIN heap \ {a} /\ \A c \in DOMAIN heap \ {a} : heap'[c] = heap[c]
        /\ UNCHANGED <<used, items, assigned>>
    BY DEF Pool!Destroy
  <1>2. Pool!ToSet(heap[a]) = {heap[a][i] : i \in Slots(a)} /\ Pool!ToSet(heap[a]) \subseteq 1 .. items
    BY <1>1 DEF PoolInv, PoolTypes, Pool!ToSet, Slots
  <1>3. PoolTypes'
    BY <1>1, <1>2 DEF PoolInv, PoolTypes
  <1>4. \A c \in DOMAIN heap' : Slots(c)' = Slots(c)
    BY <1>1 DEF Slots
  <1>5. ~assigned => Disjoint'
    BY <1>1, <1>2, <1>4 DEF PoolInv, Disjoint
  <1>6. ~assigned => Everywhere'
    BY <1>1, <1>2, <1>4 DEF PoolInv, Everywhere
  <1>7. QED
    BY <1>1, <1>3, <1>5, <1>6 DEF PoolInv
\* An item that is given out is taken from a list or new ...
LEMMA AllocateStep ==
  ASSUME PoolInv, NEW a \in Allocators, Pool!Allocate(a)
  PROVE  PoolInv'
  <1> DEFINE s == heap[a]
  <1>1. a \in DOMAIN heap /\ s \in Seq(1 .. items) /\ UNCHANGED <<leaked, assigned>> /\ items \in Nat
    BY DEF Pool!Allocate, PoolInv, PoolTypes
  <1>2. CASE s # << >>
    <2>1. used' = used \cup {Head(s)} /\ heap' = Pool!With(a, Tail(s)) /\ items' = items
      BY <1>2 DEF Pool!Allocate
    <2>2. /\ DOMAIN heap' = DOMAIN heap /\ heap'[a] = Tail(s)
          /\ \A b \in DOMAIN heap \ {a} : heap'[b] = heap[b]
      BY <1>1, <2>1, WithList
    <2>3. /\ Tail(s) \in Seq(1 .. items) /\ Len(Tail(s)) = Len(s) - 1 /\ Len(s) \in Nat \ {0}
          /\ \A i \in 1 .. Len(s) - 1 : Tail(s)[i] = s[i + 1] /\ i + 1 \in 1 .. Len(s) /\ i + 1 # 1
          /\ Head(s) = s[1] /\ 1 \in 1 .. Len(s)
      BY <1>1, <1>2
    <2>4. \A i \in 1 .. Len(s) : i = 1 \/ (i - 1 \in 1 .. Len(s) - 1 /\ Tail(s)[i - 1] = s[i])
      BY <2>3
    <2>5. PoolTypes'
      <3>1. Head(s) \in 1 .. items
        BY <1>1, <2>3
      <3>2. used' \subseteq 1 .. items
        BY <2>1, <3>1 DEF PoolInv, PoolTypes
      <3>3. \A b \in DOMAIN heap' : heap'[b] \in Seq(1 .. items)
        BY <2>2, <2>3 DEF PoolInv, PoolTypes
      <3>4. QED
        BY <1>1, <2>1, <3>2, <3>3 DEF PoolInv, PoolTypes
    <2>6. /\ \A b \in DOMAIN heap \ {a} : Slots(b)' = Slots(b)
          /\ Slots(a) = 1 .. Len(s) /\ Slots(a)' = 1 .. Len(s) - 1
      BY <2>2, <2>3 DEF Slots
    <2>7. ASSUME ~assigned PROVE Disjoint' /\ Everywhere'
      <3>1. Disjoint /\ Everywhere
        BY <2>7 DEF PoolInv
      <3>2. \A b \in DOMAIN heap : \A i \in Slots(b)' :
              \E j \in Slots(b) : heap'[b][i] = heap[b][j]
        <4> TAKE b \in DOMAIN heap
        <4> TAKE i \in Slots(b)'
        <4>1. CASE b # a
          BY <2>2, <2>6, <4>1
        <4>2. CASE b = a
          <5>1. i \in 1 .. Len(s) - 1 /\ heap'[b][i] = Tail(s)[i]
            BY <2>2, <2>6, <4>2
          <5>2. heap'[b][i] = heap[b][i + 1] /\ i + 1 \in Slots(b)
            BY <2>3, <2>6, <4>2, <5>1
          <5>3. QED
            BY <5>2
        <4>3. QED
          BY <4>1, <4>2
      <3>3. \A b \in DOMAIN heap' : \A i, j \in Slots(b)' : heap'[b][i] = heap'[b][j] => i = j
        <4>1. \A i, j \in Slots(a)' : heap'[a][i] = heap'[a][j] => i = j
          <5> SUFFICES ASSUME NEW i \in 1 .. Len(s) - 1, NEW j \in 1 .. Len(s) - 1, Tail(s)[i] = Tail(s)[j]
                       PROVE  i = j
            BY <2>2, <2>6
          <5>1. s[i + 1] = s[j + 1] /\ i + 1 \in 1 .. Len(s) /\ j + 1 \in 1 .. Len(s)
            BY <2>3
          <5>2. i + 1 = j + 1
            BY <1>1, <2>6, <3>1, <5>1 DEF Disjoint
          <5>3. QED
            BY <2>3, <5>2
        <4>2. \A b \in DOMAIN heap \ {a} : \A i, j \in Slots(b)' : heap'[b][i] = heap'[b][j] => i = j
          BY <2>2, <2>6, <3>1 DEF Disjoint
        <4>3. QED
          BY <2>2, <4>1, <4>2
      <3>4. \A b, c \in DOMAIN heap' : \A i \in Slots(b)', j \in Slots(c)' : heap'[b][i] = heap'[c][j] => b = c
        BY <2>2, <3>1, <3>2 DEF Disjoint
      <3>5. \A b \in DOMAIN heap' : \A i \in Slots(b)' : heap'[b][i] \notin used' \cup leaked'
        <4>1. \A b \in DOMAIN heap' : \A i \in Slots(b)' : heap'[b][i] \notin used \cup leaked
          BY <2>2, <3>1, <3>2 DEF Disjoint
        <4>2. \A i \in Slots(a)' : heap'[a][i] # s[1]
          <5> SUFFICES ASSUME NEW i \in 1 .. Len(s) - 1, Tail(s)[i] = s[1] PROVE FALSE
            BY <2>2, <2>6
          <5>1. s[i + 1] = s[1] /\ i + 1 \in 1 .. Len(s) /\ 1 \in 1 .. Len(s) /\ i + 1 # 1
            BY <2>3
          <5>2. QED
            BY <1>1, <2>6, <3>1, <5>1 DEF Disjoint
        <4>3. \A b \in DOMAIN heap \ {a} : \A i \in Slots(b)' : heap'[b][i] # s[1]
          BY <1>1, <2>2, <2>3, <2>6, <3>1 DEF Disjoint
        <4>4. QED
          BY <1>1, <2>1, <2>2, <2>3, <4>1, <4>2, <4>3
      <3>6. used' \cap leaked' = {}
        BY <1>1, <2>1, <2>3, <2>6, <3>1 DEF Disjoint
      <3>7. Everywhere'
        <4> SUFFICES ASSUME NEW p \in 1 .. items
                     PROVE  p \in used' \cup leaked' \/ \E b \in DOMAIN heap' : \E i \in Slots(b)' : heap'[b][i] = p
          BY <2>1 DEF Everywhere
        <4>1. CASE p \in used \cup leaked
          BY <1>1, <2>1, <4>1
        <4>2. ASSUME NEW b \in DOMAIN heap, NEW i \in Slots(b), heap[b][i] = p
              PROVE  p \in used' \/ \E c \in DOMAIN heap' : \E j \in Slots(c)' : heap'[c][j] = p
          <5>1. CASE b # a
            BY <2>2, <2>6, <4>2, <5>1
          <5>2. CASE b = a /\ i = 1
            BY <2>1, <2>3, <4>2, <5>2
          <5>3. CASE b = a /\ i # 1
            <6>1. i - 1 \in 1 .. Len(s) - 1 /\ Tail(s)[i - 1] = p
              BY <2>4, <2>6, <4>2, <5>3
            <6>2. QED
              BY <1>1, <2>2, <2>6, <6>1
          <5>4. QED
            BY <5>1, <5>2, <5>3
        <4>3. QED
          BY <3>1, <4>1, <4>2 DEF Everywhere
      <3>8. QED
        BY <3>3, <3>4, <3>5, <3>6, <3>7 DEF Disjoint
    <2>8. QED
      BY <1>1, <2>5, <2>7 DEF PoolInv
  <1>3. CASE s = << >>
    <2>1. items' = items + 1 /\ used' = used \cup {items + 1} /\ UNCHANGED heap
      BY <1>3 DEF Pool!Allocate
    <2>2. items + 1 \notin 1 .. items /\ \A p \in 1 .. items' : p \in 1 .. items \/ p = items + 1
      BY <1>1, <2>1
    <2>3. \A b \in DOMAIN heap : heap[b] \in Seq(1 .. items') /\ \A i \in Slots(b) : heap[b][i] \in 1 .. items
      BY <1>1, <2>1 DEF PoolInv, PoolTypes, Slots
    <2>4. PoolTypes'
      BY <1>1, <2>1, <2>3 DEF PoolInv, PoolTypes
    <2>5. \A b \in DOMAIN heap : Slots(b)' = Slots(b)
      BY <2>1 DEF Slots
    <2>6. ~assigned => Disjoint'
      BY <1>1, <2>1, <2>2, <2>3, <2>5 DEF PoolInv, PoolTypes, Disjoint
    <2>7. ~assigned => Everywhere'
      BY <1>1, <2>1, <2>2, <2>5 DEF PoolInv, Everywhere
    <2>8. QED
      BY <1>1, <2>4, <2>6, <2>7 DEF PoolInv
  <1>4. QED
    BY <1>2, <1>3

\* ... and one that is given back goes to the end of a list, whichever it is.
LEMMA DeallocateStep ==
  ASSUME PoolInv, NEW a \in Allocators, NEW p \in used, Pool!Deallocate(a, p)
  PROVE  PoolInv'
  <1> DEFINE s == heap[a]
  <1>1. /\ a \in DOMAIN heap /\ s \in Seq(1 .. items) /\ items \in Nat /\ p \in 1 .. items
        /\ heap' = Pool!With(a, Append(s, p)) /\ used' = used \ {p} /\ UNCHANGED <<leaked, items, assigned>>
    BY DEF Pool!Deallocate, PoolInv, PoolTypes
  <1>2. /\ DOMAIN heap' = DOMAIN heap /\ heap'[a] = Append(s, p)
        /\ \A b \in DOMAIN heap \ {a} : heap'[b] = heap[b]
    BY <1>1, WithList
  <1>3. /\ Append(s, p) \in Seq(1 .. items) /\ Len(Append(s, p)) = Len(s) + 1 /\ Len(s) \in Nat
        /\ Append(s, p)[Len(s) + 1] = p /\ \A i \in 1 .. Len(s) : Append(s, p)[i] = s[i]
    BY <1>1
  <1>4. PoolTypes'
    BY <1>1, <1>2, <1>3 DEF PoolInv, PoolTypes
  <1>5. /\ \A b \in DOMAIN heap \ {a} : Slots(b)' = Slots(b)
        /\ Slots(a) = 1 .. Len(s) /\ Slots(a)' = Slots(a) \cup {Len(s) + 1} /\ Len(s) + 1 \notin Slots(a)
    BY <1>2, <1>3 DEF Slots
  <1>6. \A b \in DOMAIN heap : \A i \in Slots(b)' :
          (i \in Slots(b) /\ heap'[b][i] = heap[b][i]) \/ (b = a /\ i = Len(s) + 1 /\ heap'[b][i] = p)
    BY <1>2, <1>3, <1>5
  <1>7. ASSUME ~assigned PROVE Disjoint' /\ Everywhere'
    <2>1. Disjoint /\ Everywhere
      BY <1>7 DEF PoolInv
    <2>2. \A b \in DOMAIN heap : \A i \in Slots(b) : heap[b][i] # p
      BY <2>1 DEF Disjoint
    <2>3. Disjoint'
      <3>1. \A b \in DOMAIN heap' : \A i, j \in Slots(b)' : heap'[b][i] = heap'[b][j] => i = j
        BY <1>2, <1>6, <2>1, <2>2 DEF Disjoint
      <3>2. \A b, c \in DOMAIN heap' : \A i \in Slots(b)', j \in Slots(c)' : heap'[b][i] = heap'[c][j] => b = c
        BY <1>2, <1>6, <2>1, <2>2 DEF Disjoint
      <3>3. \A b \in DOMAIN heap' : \A i \in Slots(b)' : heap'[b][i] \notin used' \cup leaked'
        BY <1>1, <1>2, <1>6, <2>1 DEF Disjoint
      <3>4. used' \cap leaked' = {}
        BY <1>1, <2>1 DEF Disjoint
      <3>5. QED
        BY <3>1, <3>2, <3>3, <3>4 DEF Disjoint
    <2>4. Everywhere'
      <3> SUFFICES ASSUME NEW q \in 1 .. items
                   PROVE  q \in used' \cup leaked' \/ \E b \in DOMAIN heap' : \E i \in Slots(b)' : heap'[b][i] = q
        BY <1>1 DEF Everywhere
      <3>1. CASE q = p
        BY <1>1, <1>2, <1>3, <1>5, <3>1
      <3>2. CASE q # p
        <4>1. CASE q \in used \cup leaked
          BY <1>1, <3>2, <4>1
        <4>2. ASSUME NEW b \in DOMAIN heap, NEW i \in Slots(b), heap[b][i] = q
              PROVE  \E c \in DOMAIN heap' : \E j \in Slots(c)' : heap'[c][j] = q
          <5>1. i \in Slots(b)' /\ heap'[b][i] = heap[b][i]
            BY <1>2, <1>3, <1>5
          <5>2. QED
            BY <1>2, <4>2, <5>1
        <4>3. QED
          BY <2>1, <4>1, <4>2 DEF Everywhere
      <3>3. QED
        BY <3>1, <3>2
    <2>5. QED
      BY <2>3, <2>4
  <1>8. QED
    BY <1>1, <1>4, <1>7 DEF PoolInv

\* An item is in one place, whatever is copied and given back where.
THEOREM ItemsHaveOneOwner == ToolsSpec => []OneOwner
  <1>1. ToolsInit => PoolInv
    BY PoolInit DEF ToolsInit
  <1>2. PoolInv /\ [ToolsNext]_toolsVars => PoolInv'
    <2> SUFFICES ASSUME PoolInv, Pool!Next \/ UNCHANGED poolVars PROVE PoolInv'
      BY DEF ToolsNext, toolsVars
    <2>1. CASE Pool!Finished \/ UNCHANGED poolVars
      BY <2>1 DEF Pool!Finished, Pool!vars, poolVars, PoolInv, PoolTypes, Disjoint, Everywhere, Slots
    <2>2. QED
      BY <2>1, ConstructStep, CopyStep, DestroyStep, AllocateStep, DeallocateStep DEF Pool!Next
  <1>3. PoolInv => OneOwner
    <2> SUFFICES ASSUME PoolInv, ~assigned, NEW p \in 1 .. items
                 PROVE  LET places == {a \in DOMAIN heap : p \in Pool!ToSet(heap[a])} IN
                        /\ \A a \in places : \A i, j \in 1 .. Len(heap[a]) : heap[a][i] = p /\ heap[a][j] = p => i = j
                        /\ \/ p \in used /\ places = {} /\ p \notin leaked
                           \/ p \notin used /\ p \notin leaked /\ \E a \in places : places = {a}
                           \/ p \notin used /\ p \in leaked /\ places = {}
      BY DEF OneOwner, Pool!OneOwner
    <2>1. Disjoint /\ Everywhere
      BY DEF PoolInv
    <2>2. \A a \in DOMAIN heap : p \in Pool!ToSet(heap[a]) <=> \E i \in Slots(a) : heap[a][i] = p
      BY DEF PoolInv, PoolTypes, Pool!ToSet, Slots
    <2>3. QED
      BY <2>1, <2>2 DEF Disjoint, Everywhere, Slots
  <1>4. QED
    BY <1>1, <1>2, <1>3, PTL DEF ToolsSpec
-----------------------------------------------------------------------------
(***************************************************************************)
(* SymbolInfo: any number of objects and addresses, on both platforms.     *)
(***************************************************************************)

SymPlaces == Objs \cup {"temp"}
SymNames == ({"null", "module"} \X (Addrs \cup {Null})) \cup ({"buffer"} \X SymPlaces)

SymTypes ==
  /\ platform \in {"glibc", "windows"} /\ kind \in {"frame", "symbol"}
  /\ alive \subseteq Objs
  /\ addr \in [SymPlaces -> Addrs \cup {Null}]
  /\ given \in [SymPlaces -> Addrs \cup {Null}]
  /\ names \in [SymPlaces -> SymNames]
  /\ buffer \in [SymPlaces -> Addrs \cup {Null, Garbage}]

\* An object has the address it was given, unless a symbol was emptied.
Given == \A o \in alive : addr[o] = given[o] \/ (kind = "symbol" /\ o \in emptied)

\* The names a symbol of address a has: in the module, or in its own buffer.
NamesOf(o, a, n, b) ==
  IF platform = "glibc" THEN n = IF a = Null THEN <<"null", Null>> ELSE <<"module", a>>
  ELSE o \notin exchanged => IF a = Null THEN n = <<"null", Null>> ELSE n = <<"buffer", o>> /\ b = a

Named == kind = "symbol" => \A o \in alive : NamesOf(o, addr[o], names[o], buffer[o])

SymInv == SymTypes /\ Given /\ Named

LEMMA SymInit == Sym!Init => SymInv
  BY DEF Sym!Init, Sym!Places, Sym!NoNames, SymInv, SymTypes, SymPlaces, SymNames, Given, Named

\* The names of an object that has resolved address a.
ResolvedNames(o, a) ==
  IF a = Null THEN <<"null", Null>> ELSE IF platform = "glibc" THEN <<"module", a>> ELSE <<"buffer", o>>

SymStates ==
  [addr : [SymPlaces -> Addrs \cup {Null}], names : [SymPlaces -> SymNames], buffer : [SymPlaces -> Addrs \cup {Null, Garbage}]]

\* r differs from s in object o, which has resolved a.
ResolvedIn(r, s, o, a) ==
  /\ r \in SymStates
  /\ r.addr = [s.addr EXCEPT ![o] = a]
  /\ \A x \in SymPlaces \ {o} : r.names[x] = s.names[x] /\ r.buffer[x] = s.buffer[x]
  /\ kind = "frame" => r.names = s.names
  /\ kind # "frame" => /\ r.names[o] = ResolvedNames(o, a)
                       /\ r.names[o] = <<"buffer", o>> => r.buffer[o] = a

\* o and p have changed members, all others have kept them.
SwappedIn(r, s, o, p) ==
  /\ r \in SymStates
  /\ r.addr[o] = s.addr[p] /\ r.names[o] = s.names[p] /\ r.buffer[o] = s.buffer[p]
  /\ r.addr[p] = s.addr[o] /\ r.names[p] = s.names[o] /\ r.buffer[p] = s.buffer[o]
  /\ \A x \in SymPlaces \ {o, p} : r.addr[x] = s.addr[x] /\ r.names[x] = s.names[x] /\ r.buffer[x] = s.buffer[x]

\* o has what p had, and p has nothing left.
MovedIn(r, s, o, p) ==
  /\ r \in SymStates
  /\ r.addr[o] = s.addr[p] /\ r.names[o] = s.names[p]
  /\ r.addr[p] = Null
  /\ kind # "frame" => r.names[p] = <<"null", Null>>
  /\ \A x \in SymPlaces \ {o, p} : r.addr[x] = s.addr[x] /\ r.names[x] = s.names[x] /\ r.buffer[x] = s.buffer[x]

\* o has the address p had, which a symbol loses.
CopiedIn(r, s, o, p) ==
  /\ r \in SymStates
  /\ r.addr[o] = s.addr[p]
  /\ \A x \in SymPlaces \ {o, p} : r.addr[x] = s.addr[x] /\ r.names[x] = s.names[x] /\ r.buffer[x] = s.buffer[x]
  /\ kind = "frame" => r.addr[p] = s.addr[p]
  /\ kind # "frame" => r.names[o] = s.names[p] /\ r.addr[p] = Null /\ r.names[p] = <<"null", Null>>

LEMMA ResolvedState ==
  ASSUME NEW s \in SymStates, NEW o \in SymPlaces, NEW a \in Addrs \cup {Null}
  PROVE  ResolvedIn(Sym!Resolved(s, o, a), s, o, a)
  BY DEF Sym!Resolved, Sym!GlibcResolved, Sym!WinResolved, Sym!NoNames, SymStates, SymPlaces, SymNames,
         ResolvedNames, ResolvedIn

LEMMA ConstructedState ==
  ASSUME NEW s \in SymStates, NEW o \in SymPlaces, NEW a \in Addrs \cup {Null}
  PROVE  ResolvedIn(Sym!Constructed(s, o, a), s, o, a)
  <1>1. PICK b : b = [s EXCEPT !.buffer[o] = Garbage]
    OBVIOUS
  <1>2. b \in SymStates /\ b.addr = s.addr /\ b.names = s.names /\ b.buffer = [s.buffer EXCEPT ![o] = Garbage]
    BY <1>1 DEF SymStates
  <1>3. PICK r : r = Sym!Resolved(b, o, a)
    OBVIOUS
  <1>4. ResolvedIn(r, b, o, a)
    BY <1>2, <1>3, ResolvedState
  <1>5. ResolvedIn(r, s, o, a)
    BY <1>2, <1>4 DEF SymStates, ResolvedIn
  <1>6. QED
    BY <1>1, <1>3, <1>5 DEF Sym!Constructed

LEMMA SwappedState ==
  ASSUME NEW s \in SymStates, NEW o \in SymPlaces, NEW p \in SymPlaces, o # p
  PROVE  SwappedIn(Sym!Swapped(s, o, p), s, o, p)
  BY DEF Sym!Swapped, SymStates, SwappedIn

LEMMA MovedState ==
  ASSUME NEW s \in SymStates, NEW o \in SymPlaces, NEW p \in SymPlaces, o # p
  PROVE  MovedIn(Sym!MovedTo(s, o, p), s, o, p)
  <1>1. PICK b : b = Sym!Constructed(s, o, Null)
    OBVIOUS
  <1>2. ResolvedIn(b, s, o, Null)
    BY <1>1, ConstructedState
  <1>3. b \in SymStates
    BY <1>2 DEF ResolvedIn
  <1>4. PICK r : r = Sym!Swapped(b, o, p)
    OBVIOUS
  <1>5. SwappedIn(r, b, o, p)
    BY <1>3, <1>4, SwappedState
  <1>6. MovedIn(r, s, o, p)
    BY <1>2, <1>5 DEF SymStates, ResolvedIn, SwappedIn, MovedIn, ResolvedNames
  <1>7. QED
    BY <1>1, <1>4, <1>6 DEF Sym!MovedTo

LEMMA CopiedState ==
  ASSUME NEW s \in SymStates, NEW o \in SymPlaces, NEW p \in SymPlaces, o # p
  PROVE  CopiedIn(Sym!CopiedTo(s, o, p), s, o, p)
  <1>1. CASE kind = "frame"
    <2>1. PICK r : r = Sym!Constructed(s, o, s.addr[p])
      OBVIOUS
    <2>2. s.addr[p] \in Addrs \cup {Null}
      BY DEF SymStates
    <2>3. ResolvedIn(r, s, o, s.addr[p])
      BY <2>1, <2>2, ConstructedState
    <2>4. CopiedIn(r, s, o, p)
      BY <1>1, <2>3 DEF SymStates, ResolvedIn, CopiedIn
    <2>5. QED
      BY <1>1, <2>1, <2>4 DEF Sym!CopiedTo
  <1>2. CASE kind # "frame"
    <2>1. MovedIn(Sym!MovedTo(s, o, p), s, o, p)
      BY MovedState
    <2>2. QED
      BY <1>2, <2>1 DEF Sym!CopiedTo, MovedIn, CopiedIn
  <1>3. QED
    BY <1>1, <1>2

LEMMA HereIsState ==
  ASSUME SymInv
  PROVE  Sym!State \in SymStates /\ Sym!State.addr = addr /\ Sym!State.names = names /\ Sym!State.buffer = buffer
  BY DEF SymInv, SymTypes, SymStates, Sym!State

\* Resolving an address makes up for what happened to the object before.
LEMMA ResolveStep ==
  ASSUME SymInv, NEW o \in Objs, NEW a \in Addrs \cup {Null}, Sym!Construct(o, a) \/ Sym!Resolve(o, a)
  PROVE  SymInv'
  <1>1. /\ UNCHANGED <<platform, kind>> /\ alive' = alive \cup {o}
        /\ given' = [given EXCEPT ![o] = a]
        /\ exchanged' = exchanged \ {o} /\ emptied' = {x \in emptied : given'[x] = given[x]}
    BY DEF Sym!Construct, Sym!Resolve, Sym!Step, Sym!Know, SymInv, SymTypes
  <1>2. PICK r : (r = Sym!Constructed(Sym!State, o, a) \/ r = Sym!Resolved(Sym!State, o, a)) /\ Sym!Set(r)
    BY DEF Sym!Construct, Sym!Resolve
  <1>3. ResolvedIn(r, Sym!State, o, a)
    BY <1>2, HereIsState, ConstructedState, ResolvedState DEF SymPlaces
  <1>4. /\ addr' = [addr EXCEPT ![o] = a] /\ names' \in [SymPlaces -> SymNames]
        /\ buffer' \in [SymPlaces -> Addrs \cup {Null, Garbage}]
        /\ \A x \in SymPlaces \ {o} : names'[x] = names[x] /\ buffer'[x] = buffer[x]
        /\ kind # "frame" => /\ names'[o] = ResolvedNames(o, a)
                             /\ names'[o] = <<"buffer", o>> => buffer'[o] = a
    BY <1>2, <1>3, HereIsState DEF ResolvedIn, SymStates, Sym!Set
  <1>5. SymTypes'
    BY <1>1, <1>4 DEF SymInv, SymTypes, SymPlaces
  <1>6. Given'
    BY <1>1, <1>4 DEF SymInv, SymTypes, SymPlaces, Given
  <1>7. Named'
    BY <1>1, <1>4 DEF SymInv, SymTypes, SymPlaces, Named, NamesOf, ResolvedNames
  <1>8. QED
    BY <1>5, <1>6, <1>7 DEF SymInv

\* A symbol's address is handed over with its names; a frame's is copied.
LEMMA HandOverStep ==
  ASSUME SymInv, NEW o \in Objs, NEW p \in Objs, Sym!Copy(o, p) \/ Sym!Move(o, p)
  PROVE  SymInv'
  <1>1. /\ UNCHANGED <<platform, kind>> /\ alive' = alive \cup {o} /\ o # p /\ p \in alive /\ o \notin alive
        /\ exchanged' = exchanged \cup {o, p}
        /\ \/ given' = [given EXCEPT ![o] = addr[p]] /\ p \in emptied'
           \/ given' = [given EXCEPT ![o] = addr[p], ![p] = Null]
        /\ {x \in emptied : given'[x] = given[x]} \subseteq emptied'
    BY DEF Sym!Copy, Sym!Move, Sym!Step, Sym!Know, SymInv, SymTypes
  <1>2. PICK r : /\ Sym!Set(r)
                 /\ \/ r = Sym!CopiedTo(Sym!State, o, p) /\ given' = [given EXCEPT ![o] = addr[p]] /\ p \in emptied'
                    \/ r = Sym!MovedTo(Sym!State, o, p) /\ given' = [given EXCEPT ![o] = addr[p], ![p] = Null]
    BY DEF Sym!Copy, Sym!Move, Sym!Know
  <1>3. \/ CopiedIn(r, Sym!State, o, p) /\ given' = [given EXCEPT ![o] = addr[p]] /\ p \in emptied'
        \/ MovedIn(r, Sym!State, o, p) /\ given' = [given EXCEPT ![o] = addr[p], ![p] = Null]
    BY <1>1, <1>2, HereIsState, CopiedState, MovedState DEF SymPlaces
  <1>4. /\ addr' \in [SymPlaces -> Addrs \cup {Null}] /\ names' \in [SymPlaces -> SymNames]
        /\ buffer' \in [SymPlaces -> Addrs \cup {Null, Garbage}]
        /\ \A x \in SymPlaces \ {o, p} : addr'[x] = addr[x] /\ names'[x] = names[x] /\ buffer'[x] = buffer[x]
        /\ addr'[o] = addr[p]
        /\ kind # "frame" => names'[o] = names[p] /\ addr'[p] = Null /\ names'[p] = <<"null", Null>>
        /\ \/ kind = "frame" /\ addr'[p] = addr[p] /\ given' = [given EXCEPT ![o] = addr[p]]
           \/ kind # "frame" /\ given' = [given EXCEPT ![o] = addr[p]] /\ p \in emptied'
           \/ addr'[p] = Null /\ given' = [given EXCEPT ![o] = addr[p], ![p] = Null]
    BY <1>2, <1>3, HereIsState DEF CopiedIn, MovedIn, SymStates, Sym!Set
  <1>5. SymTypes'
    BY <1>1, <1>4 DEF SymInv, SymTypes, SymPlaces
  <1>6. Given'
    BY <1>1, <1>4 DEF SymInv, SymTypes, SymPlaces, Given
  <1>7. Named'
    BY <1>1, <1>4 DEF SymInv, SymTypes, SymPlaces, Named, NamesOf
  <1>8. QED
    BY <1>5, <1>6, <1>7 DEF SymInv

\* The parameter of operator=() hands over what it has taken from p.
LEMMA AssignStep ==
  ASSUME SymInv, NEW o \in Objs, NEW p \in Objs, Sym!Assign(o, p)
  PROVE  SymInv'
  <1>1. /\ UNCHANGED <<platform, kind, alive>> /\ o # p /\ p \in alive /\ o \in alive
        /\ exchanged' = exchanged \cup {o, p}
        /\ given' = [given EXCEPT ![o] = addr[p]] /\ p \in emptied'
        /\ {x \in emptied : given'[x] = given[x]} \subseteq emptied'
    BY DEF Sym!Assign, Sym!Step, Sym!Know, SymInv, SymTypes
  <1>2. PICK b : b = Sym!CopiedTo(Sym!State, "temp", p)
    OBVIOUS
  <1>3. "temp" \in SymPlaces /\ "temp" # p /\ "temp" # o /\ o \in SymPlaces /\ p \in SymPlaces
    BY ToolsAssumption DEF SymPlaces
  <1>4. CopiedIn(b, Sym!State, "temp", p)
    BY <1>2, <1>3, HereIsState, CopiedState
  <1>5. b \in SymStates
    BY <1>4 DEF CopiedIn
  <1>6. PICK r : r = Sym!Swapped(b, o, "temp")
    OBVIOUS
  <1>7. SwappedIn(r, b, o, "temp")
    BY <1>3, <1>5, <1>6, SwappedState
  <1>8. Sym!Set([r EXCEPT !.addr["temp"] = Null, !.names["temp"] = <<"null", Null>>, !.buffer["temp"] = Garbage])
    BY <1>2, <1>6 DEF Sym!Assign, Sym!NoNames
  <1>9. /\ addr' \in [SymPlaces -> Addrs \cup {Null}] /\ names' \in [SymPlaces -> SymNames]
        /\ buffer' \in [SymPlaces -> Addrs \cup {Null, Garbage}]
        /\ \A x \in SymPlaces \ {"temp"} : addr'[x] = r.addr[x] /\ names'[x] = r.names[x] /\ buffer'[x] = r.buffer[x]
    BY <1>7, <1>8 DEF SwappedIn, SymStates, SymPlaces, SymNames, Sym!Set
  <1>10. /\ \A x \in Objs \ {o, p} : addr'[x] = addr[x] /\ names'[x] = names[x] /\ buffer'[x] = buffer[x]
         /\ addr'[o] = addr[p]
         /\ kind = "frame" => addr'[p] = addr[p]
         /\ kind # "frame" => names'[o] = names[p] /\ addr'[p] = Null /\ names'[p] = <<"null", Null>>
    BY <1>1, <1>3, <1>4, <1>7, <1>9, HereIsState, ToolsAssumption DEF CopiedIn, SwappedIn, SymPlaces
  <1>11. SymTypes'
    BY <1>1, <1>9 DEF SymInv, SymTypes, SymPlaces
  <1>12. Given'
    BY <1>1, <1>10 DEF SymInv, SymTypes, SymPlaces, Given
  <1>13. Named'
    BY <1>1, <1>10 DEF SymInv, SymTypes, SymPlaces, Named, NamesOf
  <1>14. QED
    BY <1>11, <1>12, <1>13 DEF SymInv

LEMMA SwapStep ==
  ASSUME SymInv, NEW o \in Objs, NEW p \in Objs, Sym!Swap(o, p)
  PROVE  SymInv'
  <1>1. /\ UNCHANGED <<platform, kind, alive>> /\ o # p /\ p \in alive /\ o \in alive
        /\ exchanged' = exchanged \cup {o, p}
        /\ given' = [given EXCEPT ![o] = addr[p], ![p] = addr[o]]
        /\ {x \in emptied : given'[x] = given[x]} \subseteq emptied'
    BY DEF Sym!Swap, Sym!Step, Sym!Know, SymInv, SymTypes
  <1>2. SwappedIn(Sym!Swapped(Sym!State, o, p), Sym!State, o, p)
    BY <1>1, HereIsState, SwappedState DEF SymPlaces
  <1>3. /\ addr' \in [SymPlaces -> Addrs \cup {Null}] /\ names' \in [SymPlaces -> SymNames]
        /\ buffer' \in [SymPlaces -> Addrs \cup {Null, Garbage}]
        /\ \A x \in SymPlaces \ {o, p} : addr'[x] = addr[x] /\ names'[x] = names[x] /\ buffer'[x] = buffer[x]
        /\ addr'[o] = addr[p] /\ addr'[p] = addr[o] /\ names'[o] = names[p] /\ names'[p] = names[o]
    BY <1>2, HereIsState DEF Sym!Swap, SwappedIn, SymStates, Sym!Set
  <1>4. SymTypes'
    BY <1>1, <1>3 DEF SymInv, SymTypes, SymPlaces
  <1>5. Given'
    BY <1>1, <1>3 DEF SymInv, SymTypes, SymPlaces, Given
  <1>6. Named'
    BY <1>1, <1>3 DEF SymInv, SymTypes, SymPlaces, Named, NamesOf
  <1>7. QED
    BY <1>4, <1>5, <1>6 DEF SymInv

LEMMA DropStep ==
  ASSUME SymInv, NEW o \in Objs, Sym!Destroy(o)
  PROVE  SymInv'
  <1>1. /\ UNCHANGED <<platform, kind>> /\ alive' = alive \ {o}
        /\ exchanged' = exchanged \ {o} /\ emptied' = {x \in emptied : given'[x] = given[x]}
        /\ given' = [given EXCEPT ![o] = Null] /\ addr' = [addr EXCEPT ![o] = Null]
        /\ names' = [names EXCEPT ![o] = <<"null", Null>>] /\ buffer' = [buffer EXCEPT ![o] = Garbage]
    BY DEF Sym!Destroy, Sym!Step, Sym!Know, Sym!Set, Sym!State, Sym!NoNames, SymInv, SymTypes
  <1>2. SymTypes'
    BY <1>1 DEF SymInv, SymTypes, SymPlaces, SymNames
  <1>3. Given'
    BY <1>1 DEF SymInv, SymTypes, SymPlaces, Given
  <1>4. Named'
    BY <1>1 DEF SymInv, SymTypes, SymPlaces, Named, NamesOf
  <1>5. QED
    BY <1>2, <1>3, <1>4 DEF SymInv

\* Whatever the program does with its objects, they keep the addresses they are
\* given and show those addresses' names: but for a symbol_info that was copied,
\* and on Windows one whose members came from another object.
THEOREM NamesStay == ToolsSpec => []NamesMatch
  <1>1. ToolsInit => SymInv
    BY SymInit DEF ToolsInit
  <1>2. SymInv /\ [ToolsNext]_toolsVars => SymInv'
    <2> SUFFICES ASSUME SymInv, Sym!Next \/ UNCHANGED symVars PROVE SymInv'
      BY DEF ToolsNext, toolsVars
    <2>1. ASSUME NEW o \in Objs, NEW a \in Addrs \cup {Null}, Sym!Construct(o, a) \/ Sym!Resolve(o, a) PROVE SymInv'
      BY <2>1, ResolveStep
    <2>2. ASSUME NEW o \in Objs, NEW p \in Objs, Sym!Copy(o, p) \/ Sym!Move(o, p) PROVE SymInv'
      BY <2>2, HandOverStep
    <2>3. ASSUME NEW o \in Objs, NEW p \in Objs, Sym!Assign(o, p) PROVE SymInv'
      BY <2>3, AssignStep
    <2>4. ASSUME NEW o \in Objs, NEW p \in Objs, Sym!Swap(o, p) PROVE SymInv'
      BY <2>4, SwapStep
    <2>5. ASSUME NEW o \in Objs, Sym!Destroy(o) PROVE SymInv'
      BY <2>5, DropStep
    <2>6. CASE UNCHANGED symVars
      BY <2>6 DEF symVars, SymInv, SymTypes, Given, Named, NamesOf
    <2>7. QED
      BY <2>1, <2>2, <2>3, <2>4, <2>5, <2>6 DEF Sym!Next, Sym!Finished, Sym!vars, Sym!objVars, symVars
  <1>3. SymInv => NamesMatch
    <2> SUFFICES ASSUME SymInv, NEW o \in alive, ~(kind = "symbol" /\ platform = "windows" /\ o \in exchanged)
                 PROVE  Sym!Shown(o) = addr[o]
      BY DEF SymInv, Given, NamesMatch, Sym!NamesMatch
    <2>1. CASE kind = "frame"
      BY <2>1 DEF Sym!Shown
    <2>2. CASE kind = "symbol"
      <3>1. \/ names[o] = <<"null", Null>> /\ addr[o] = Null
            \/ names[o] = <<"module", addr[o]>>
            \/ names[o] = <<"buffer", o>> /\ buffer[o] = addr[o]
        BY <2>2 DEF SymInv, SymTypes, Named, NamesOf
      <3>2. QED
        BY <2>2, <3>1 DEF Sym!Shown
    <2>3. QED
      BY <2>1, <2>2 DEF SymInv, SymTypes
  <1>4. QED
    BY <1>1, <1>2, <1>3, PTL DEF ToolsSpec

-----------------------------------------------------------------------------
(***************************************************************************)
(* Workers: any number of workers, iterations and rounds.                  *)
(***************************************************************************)

Positions == {"none", "created", "atstart", "loop", "loaded", "locked", "add", "leave", "atstop", "done"}
BeforeStart == {"none", "created", "atstart"}

WorkTypes ==
  /\ at \in [Workers -> Positions] /\ failed \in BOOLEAN
  /\ main \in {"phase", "spawn", "sleep", "join", "ended", "thrown"}

\* The workers pass each barrier together, and one that waits at a barrier waits
\* for another.
Together ==
  /\ (\A t \in Workers : at[t] \in BeforeStart) \/ (\A t \in Workers : at[t] \notin BeforeStart)
  /\ body = "emplace" \/ (\A t \in Workers : at[t] = "done") \/ (\A t \in Workers : at[t] # "done")
  /\ body = "emplace" => \A t \in Workers : at[t] \notin {"leave", "atstop"}
  /\ \A t \in Workers : at[t] \in {"atstart", "atstop"} => \E u \in Workers : at[u] \notin {"atstart", "atstop"}

\* main() starts them all, unless it fails to, and goes on when they have ended.
Started ==
  /\ main \in {"sleep", "join"} /\ ~failed => \A t \in Workers : at[t] # "none"
  /\ main \in {"phase", "ended"} => \A t \in Workers : at[t] \in {"none", "done"}
  /\ failed => main \in {"join", "thrown"}
  /\ main = "thrown" => failed

WorkInv == WorkTypes /\ Together /\ Started

LEMMA WorkInit == Work!Init => WorkInv
  BY DEF Work!Init, WorkInv, WorkTypes, Together, Started, Positions, BeforeStart

LEMMA MainStep ==
  ASSUME WorkInv, Work!UseVector \/ Work!Fill \/ Work!Spawned \/ Work!Stop \/ Work!Join
  PROVE  WorkInv'
  <1>1. CASE Work!UseVector
    <2>1. main = "phase" /\ main' \in {"phase", "ended"} /\ UNCHANGED <<at, body, failed>>
      BY <1>1 DEF Work!UseVector, Work!NextPhase, Work!workerVars
    <2>2. QED
      BY <2>1 DEF WorkInv, WorkTypes, Together, Started
  <1>2. CASE Work!Fill
    BY <1>2 DEF Work!Fill, WorkInv, WorkTypes, Together, Started, Positions, BeforeStart
  <1>3. CASE Work!Spawned
    <2>1. /\ main = "spawn" /\ main' \in {"sleep", "join"} /\ UNCHANGED <<at, body, failed>>
          /\ \A t \in Workers : at[t] # "none"
      BY <1>3 DEF Work!Spawned, Work!workerVars
    <2>2. QED
      BY <2>1 DEF WorkInv, WorkTypes, Together, Started
  <1>4. CASE Work!Stop
    BY <1>4 DEF Work!Stop, Work!workerVars, WorkInv, WorkTypes, Together, Started
  <1>5. CASE Work!Join
    <2>1. /\ main = "join" /\ UNCHANGED <<at, body, failed>> /\ \A t \in Workers : at[t] \in {"none", "done"}
          /\ IF failed THEN main' = "thrown" ELSE main' \in {"phase", "ended"}
      BY <1>5 DEF Work!Join, Work!NextPhase, Work!workerVars
    <2>2. QED
      BY <2>1 DEF WorkInv, WorkTypes, Together, Started
  <1>6. QED
    BY <1>1, <1>2, <1>3, <1>4, <1>5

LEMMA SpawnStep ==
  ASSUME WorkInv, NEW t \in Workers, Work!Spawn(t)
  PROVE  WorkInv'
  <1>1. main = "spawn" /\ at[t] = "none" /\ UNCHANGED body
    BY DEF Work!Spawn
  <1>2. CASE at' = [at EXCEPT ![t] = "created"] /\ UNCHANGED <<main, failed>>
    BY <1>1, <1>2 DEF WorkInv, WorkTypes, Together, Started, Positions, BeforeStart
  <1>3. CASE failed' = TRUE /\ main' = "join" /\ UNCHANGED at
    BY <1>1, <1>3 DEF WorkInv, WorkTypes, Together, Started
  <1>4. QED
    BY <1>2, <1>3 DEF Work!Spawn, Work!Goto

\* The last one to arrive lets all of them go.
LEMMA ArriveStep ==
  ASSUME WorkInv, NEW t \in Workers, Work!Start(t) \/ Work!EndLoop(t) \/ Work!Leave(t)
  PROVE  WorkInv'
  <1>1. UNCHANGED <<main, failed, body>>
    BY DEF Work!Start, Work!EndLoop, Work!Leave, Work!mainVars
  <1>2. ~(main \in {"phase", "ended"})
    BY DEF WorkInv, Started, Work!Start, Work!EndLoop, Work!Leave
  <1>3. CASE at[t] = "created" /\ Work!Arrive(t, "atstart", "loop")
    <2>1. CASE Work!Opens(t, "atstart")
      <3>1. at' = [u \in Workers |-> "loop"]
        BY <1>3, <2>1 DEF Work!Arrive, Work!Opens
      <3>2. QED
        BY <1>1, <1>2, <3>1 DEF WorkInv, WorkTypes, Together, Started, Positions, BeforeStart
    <2>2. CASE ~Work!Opens(t, "atstart")
      <3>1. at' = [at EXCEPT ![t] = "atstart"]
        BY <1>3, <2>2 DEF Work!Arrive, Work!Goto
      <3>2. PICK u \in Workers : u # t /\ at[u] # "atstart"
        BY <2>2 DEF Work!Opens
      <3>3. at[u] \in {"none", "created"}
        BY <1>3, <3>2 DEF WorkInv, Together, BeforeStart
      <3>4. QED
        BY <1>1, <1>2, <1>3, <3>1, <3>2, <3>3 DEF WorkInv, WorkTypes, Together, Started, Positions, BeforeStart
    <2>3. QED
      BY <2>1, <2>2
  <1>4. CASE at[t] \in {"loop", "leave"} /\ body # "emplace" /\ Work!Arrive(t, "atstop", "done")
    <2>1. CASE Work!Opens(t, "atstop")
      <3>1. at' = [u \in Workers |-> "done"]
        BY <1>4, <2>1 DEF Work!Arrive, Work!Opens
      <3>2. QED
        BY <1>1, <1>2, <3>1 DEF WorkInv, WorkTypes, Together, Started, Positions, BeforeStart
    <2>2. CASE ~Work!Opens(t, "atstop")
      <3>1. at' = [at EXCEPT ![t] = "atstop"]
        BY <1>4, <2>2 DEF Work!Arrive, Work!Goto
      <3>2. PICK u \in Workers : u # t /\ at[u] # "atstop"
        BY <2>2 DEF Work!Opens
      <3>3. at[u] # "atstart"
        BY <1>4, <3>2 DEF WorkInv, Together, BeforeStart
      <3>4. QED
        BY <1>1, <1>2, <1>4, <3>1, <3>2, <3>3 DEF WorkInv, WorkTypes, Together, Started, Positions, BeforeStart
    <2>3. QED
      BY <2>1, <2>2
  <1>5. CASE at[t] = "loop" /\ body = "emplace" /\ at' = [at EXCEPT ![t] = "done"]
    BY <1>1, <1>2, <1>5 DEF WorkInv, WorkTypes, Together, Started, Positions, BeforeStart
  <1>6. CASE at[t] = "loop" /\ body # "emplace" /\ at' = [at EXCEPT ![t] = "add"]
    BY <1>1, <1>2, <1>6 DEF WorkInv, WorkTypes, Together, Started, Positions, BeforeStart
  <1>7. \/ at[t] = "created" /\ Work!Arrive(t, "atstart", "loop")
        \/ at[t] \in {"loop", "leave"} /\ body # "emplace" /\ Work!Arrive(t, "atstop", "done")
        \/ at[t] = "loop" /\ body = "emplace" /\ at' = [at EXCEPT ![t] = "done"]
        \/ at[t] = "loop" /\ body # "emplace" /\ at' = [at EXCEPT ![t] = "add"]
    BY DEF WorkInv, Together, Work!Start, Work!EndLoop, Work!Leave, Work!Goto
  <1>8. QED
    BY <1>3, <1>4, <1>5, <1>6, <1>7

\* Between the barriers a worker goes about its loop.
Looping == {"loop", "loaded", "locked", "add", "leave"}

LEMMA LoopStep ==
  ASSUME WorkInv, NEW t \in Workers,
         \/ Work!Load(t) \/ Work!Store(t) \/ Work!Exchange(t) \/ Work!FetchAdd(t) \/ Work!AddLocal(t)
         \/ Work!Lock(t) \/ Work!Unlock(t)
  PROVE  WorkInv'
  <1>1. UNCHANGED <<main, failed, body>> /\ at[t] \in Looping
    BY DEF Work!Load, Work!Store, Work!Exchange, Work!FetchAdd, Work!AddLocal, Work!Lock, Work!Unlock,
           Work!mainVars, Looping
  <1>2. UNCHANGED at \/ \E p \in Looping : at' = [at EXCEPT ![t] = p] /\ (p = "leave" => body = "local")
    BY DEF Work!Load, Work!Store, Work!Exchange, Work!FetchAdd, Work!AddLocal, Work!Lock, Work!Unlock,
           Work!Goto, Looping
  <1>3. ~(main \in {"phase", "ended"})
    BY <1>1 DEF WorkInv, Started, Looping
  <1>4. CASE UNCHANGED at
    BY <1>1, <1>4 DEF WorkInv, WorkTypes, Together, Started
  <1>5. ASSUME NEW p \in Looping, at' = [at EXCEPT ![t] = p], p = "leave" => body = "local" PROVE WorkInv'
    <2>1. WorkTypes'
      BY <1>1, <1>5 DEF WorkInv, WorkTypes, Positions, Looping
    <2>2. Together'
      BY <1>1, <1>5 DEF WorkInv, WorkTypes, Together, BeforeStart, Looping
    <2>3. Started'
      BY <1>1, <1>3, <1>5 DEF WorkInv, WorkTypes, Started, Looping
    <2>4. QED
      BY <2>1, <2>2, <2>3 DEF WorkInv
  <1>6. QED
    BY <1>2, <1>4, <1>5

\* In every state, no worker of a measured function adds before all have come
\* to the start, none is done while another still adds (but papimove1's, which
\* have no barrier at the end), the workers never all wait, and while some wait
\* another is on the way, unless a thread could not be created.
THEOREM BarriersOpen == ToolsSpec => []BarrierOpens
  <1>1. ToolsInit => WorkInv
    BY WorkInit DEF ToolsInit
  <1>2. WorkInv /\ [ToolsNext]_toolsVars => WorkInv'
    <2> SUFFICES ASSUME WorkInv, Work!Next \/ UNCHANGED workersVars PROVE WorkInv'
      BY DEF ToolsNext, toolsVars
    <2>1. CASE Work!UseVector \/ Work!Fill \/ Work!Spawned \/ Work!Stop \/ Work!Join
      BY <2>1, MainStep
    <2>2. ASSUME NEW t \in Workers, Work!Spawn(t) PROVE WorkInv'
      BY <2>2, SpawnStep
    <2>3. ASSUME NEW t \in Workers, Work!Start(t) \/ Work!EndLoop(t) \/ Work!Leave(t) PROVE WorkInv'
      BY <2>3, ArriveStep
    <2>4. ASSUME NEW t \in Workers,
                 \/ Work!Load(t) \/ Work!Store(t) \/ Work!Exchange(t) \/ Work!FetchAdd(t) \/ Work!AddLocal(t)
                 \/ Work!Lock(t) \/ Work!Unlock(t)
          PROVE  WorkInv'
      BY <2>4, LoopStep
    <2>5. CASE UNCHANGED workersVars
      BY <2>5 DEF workersVars, WorkInv, WorkTypes, Together, Started
    <2>6. QED
      BY <2>1, <2>2, <2>3, <2>4, <2>5 DEF Work!Next, Work!Finished, Work!vars, Work!mainVars, Work!workerVars, workersVars
  <1>3. WorkInv => BarrierOpens
    <2> SUFFICES ASSUME WorkInv PROVE BarrierOpens
      OBVIOUS
    <2> DEFINE Waiting == {t \in Workers : at[t] \in {"atstart", "atstop"}}
    <2>1. {t \in Workers : at[t] \in {"none", "created", "atstart"}} \in {{}, Workers}
      BY DEF WorkInv, Together, BeforeStart
    <2>2. {t \in Workers : at[t] = "done"} \in {{}, Workers} \/ body = "emplace"
      BY DEF WorkInv, Together
    <2>3. Waiting # {} => Waiting # Workers
      BY DEF WorkInv, Together
    <2>4. ASSUME Waiting # {}, ~failed PROVE main = "spawn" \/ \E t \in Workers \ Waiting : at[t] \notin {"none", "done"}
      <3>1. PICK t \in Workers, u \in Workers : at[t] \in {"atstart", "atstop"} /\ at[u] \notin {"atstart", "atstop"}
        BY <2>4 DEF WorkInv, Together
      <3>2. at[u] # "done"
        BY <3>1 DEF WorkInv, Together, BeforeStart
      <3>3. main \in {"spawn", "sleep", "join"}
        BY <2>4, <3>1 DEF WorkInv, WorkTypes, Started
      <3>4. main = "spawn" \/ at[u] # "none"
        BY <2>4, <3>3 DEF WorkInv, Started
      <3>5. QED
        BY <3>1, <3>2, <3>4
    <2>5. QED
      BY <2>1, <2>2, <2>3, <2>4 DEF BarrierOpens, Work!BarrierOpens
  <1>4. QED
    BY <1>1, <1>2, <1>3, PTL DEF ToolsSpec

-----------------------------------------------------------------------------
(***************************************************************************)
(* Workers: what they have added, for any number of workers, loops and     *)
(* rounds.                                                                 *)
(***************************************************************************)

\* The sum of the first n numbers.
Tri(n) == (n * (n - 1)) \div 2

\* It grows by n.
LEMMA TriStep ==
  ASSUME NEW n \in Nat
  PROVE  Tri(n) \in Nat /\ Tri(n + 1) = Tri(n) + n
  <1>1. PICK k \in Nat : n = 2 * k \/ n = 2 * k + 1
    <2>1. n = 2 * (n \div 2) \/ n = 2 * (n \div 2) + 1
      OBVIOUS
    <2>2. n \div 2 \in Nat
      OBVIOUS
    <2>3. QED
      BY <2>1, <2>2
  <1>2. \A m \in Int : (2 * m) \div 2 = m
    OBVIOUS
  <1>3. CASE n = 2 * k
    <2>1. n * (n - 1) = 2 * (k * (2 * k - 1)) /\ (n + 1) * ((n + 1) - 1) = 2 * (k * (2 * k + 1))
      BY <1>3
    <2>2. k * (2 * k - 1) \in Int /\ k * (2 * k + 1) \in Int
      OBVIOUS
    <2>3. Tri(n) = k * (2 * k - 1) /\ Tri(n + 1) = k * (2 * k + 1)
      BY <1>2, <2>1, <2>2 DEF Tri
    <2>4. k * (2 * k + 1) = k * (2 * k - 1) + n
      BY <1>3
    <2>5. k * (2 * k - 1) >= 0
      OBVIOUS
    <2>6. QED
      BY <2>2, <2>3, <2>4, <2>5
  <1>4. CASE n = 2 * k + 1
    <2>1. n * (n - 1) = 2 * (k * (2 * k + 1)) /\ (n + 1) * ((n + 1) - 1) = 2 * ((k + 1) * (2 * k + 1))
      BY <1>4
    <2>2. k * (2 * k + 1) \in Nat /\ (k + 1) * (2 * k + 1) \in Int
      OBVIOUS
    <2>3. Tri(n) = k * (2 * k + 1) /\ Tri(n + 1) = (k + 1) * (2 * k + 1)
      BY <1>2, <2>1, <2>2 DEF Tri
    <2>4. (k + 1) * (2 * k + 1) = k * (2 * k + 1) + n
      BY <1>4
    <2>5. QED
      BY <2>2, <2>3, <2>4
  <1>5. QED
    BY <1>1, <1>3, <1>4

LEMMA TriZero == Tri(0) = 0
  <1>1. 0 * (0 - 1) = 0 /\ 0 \div 2 = 0
    OBVIOUS
  <1>2. QED
    BY <1>1 DEF Tri

\* The instance counts as this module does.
LEMMA WorkCardinality == \A S : Work!Cardinality(S) = Cardinality(S)
  BY DEF Cardinality, Work!Cardinality, IsFiniteSet, Work!IsFiniteSet

\* The bodies that add to a sum, and those that lose additions.
SumBodies == {"plain", "static", "atomic", "local", "cas", "fetch", "mutex"}
Lossy     == {"plain", "static"}

\* Each main()'s phases, by number, and its fill.
LastPhase == CASE program = "sum" -> 1 [] program = "emplace" -> 5 [] program = "churn" -> 5 [] program = "timed" -> 9
FillPhase == CASE program = "sum" -> 1 [] program = "emplace" -> 4 [] program = "churn" -> 3 [] program = "timed" -> 7

SumTypes ==
  /\ \/ program = "sum" /\ body \in SumBodies
     \/ program = "emplace" /\ body = "emplace"
     \/ program \in {"churn", "timed"} /\ body = "churn"
  /\ phase \in 1 .. LastPhase /\ round \in Nat \ {0}
  /\ left \in [Workers -> 0 .. Loops] /\ loaded \in [Workers -> Nat] /\ local \in [Workers -> Nat]
  /\ sum \in Nat
  /\ main \in {"spawn", "sleep", "join"} => phase = FillPhase

\* What a worker's position says about its loops, its reads and the mutex.
Places ==
  \A t \in Workers :
    /\ at[t] = "loaded" => left[t] > 0 /\ body \in {"plain", "static", "cas"}
    /\ at[t] = "locked" =>
         /\ mtx = t /\ loaded[t] = sum /\ body \in {"mutex", "emplace", "churn", "local"}
         /\ body \in {"mutex", "emplace"} => left[t] > 0
         /\ body = "local" => left[t] = 0
    /\ at[t] \in {"add", "leave"} => body = "local"
    /\ at[t] \in {"add", "leave", "atstop", "done"} => body = "churn" \/ left[t] = 0
    /\ body = "local" /\ at[t] # "none" => local[t] = Tri(Loops - left[t])

\* The loops a worker has done in this call, and what of them is in the sum.
Turns(t) == IF at[t] = "none" THEN 0 ELSE Loops - left[t]
Share(t) ==
  IF body = "churn" THEN 0
  ELSE IF body = "atomic" THEN Tri(Turns(t))
  ELSE IF body = "local" THEN IF at[t] \in {"leave", "atstop", "done"} THEN local[t] ELSE 0
  ELSE Turns(t)
Shares == SumFunctionOnSet([t \in Workers |-> Share(t)], Workers)

\* The sum a call begins with: of the plain static one only the bounds are known.
Base == IF body \in Work!Statics THEN Work!Total * (round - 1)
        ELSE IF body \in {"emplace", "churn"} THEN Work!VecSize ELSE 0
Low  == IF body = "static" THEN Work!AtLeast * (round - 1) ELSE 0

\* Reading and writing lose at most all but two additions: every store writes
\* one more than was read, so a worker's second one writes two more than there
\* were, and the last store of all is no worker's first.
Bounds ==
  /\ sum \in Low .. Base + Shares
  /\ \A t \in Workers : at[t] = "loaded" => loaded[t] \in Low .. Base + Shares
  /\ \A t \in Workers : Turns(t) >= 1 => sum >= Low + 1 /\ (at[t] = "loaded" => loaded[t] >= Low + 1)
  /\ Loops >= 2 => sum >= Low + 2 \/ \E t \in Workers : Turns(t) <= 1
  /\ Cardinality(Workers) = 1 =>
       \A t \in Workers : sum >= Low + Turns(t) /\ (at[t] = "loaded" => loaded[t] >= Low + Turns(t))

Filling ==
  main \in {"spawn", "sleep", "join"} =>
    IF body \in Lossy THEN Bounds ELSE sum = Base + Shares

\* What main() finds in each phase.
Resting ==
  main \in {"phase", "ended"} =>
    /\ program = "sum" =>
         /\ body \in {"cas", "fetch", "mutex"} => sum = Work!Total * (round - 1)
         /\ body = "static" => sum \in Work!AtLeast * (round - 1) .. Work!Total * (round - 1)
         /\ round > 1 => /\ \A t \in Workers : at[t] = "done"
                         /\ body \in {"atomic", "local"} => sum = Work!Triangle
                         /\ body = "plain" => sum \in Work!AtLeast .. Work!Total
    /\ program = "emplace" =>
         /\ phase = 2 => sum = 0
         /\ phase \in {3, 4} => sum = Work!VecSize
         /\ phase = 5 => sum = Work!VecSize + Work!Total /\ \A t \in Workers : at[t] = "done"
    /\ program = "churn" =>
         /\ phase = 2 => sum = 0
         /\ phase \in {3, 4, 5} => sum = Work!VecSize
         /\ phase \in {4, 5} => \A t \in Workers : at[t] = "done"
    /\ program = "timed" =>
         /\ phase \in {2, 5, 6} => sum = 0
         /\ phase \in {3, 4, 7, 8, 9} => sum = Work!VecSize
         /\ phase \in {8, 9} => \A t \in Workers : at[t] = "done"
    /\ main = "ended" => phase = 1

AddInv == WorkInv /\ SumTypes /\ Places /\ Filling /\ Resting


\* Every main() fills once a round; what comes before and after.
LEMMA PhaseFacts ==
  ASSUME SumTypes
  PROVE  /\ Len(Work!Phases) = LastPhase /\ FillPhase \in 1 .. LastPhase /\ LastPhase \in Nat
         /\ \A i \in 1 .. LastPhase : Work!Phases[i] = "fill" <=> i = FillPhase
         /\ program = "emplace" => <<Work!Phases[1], Work!Phases[2], Work!Phases[3], Work!Phases[5]>>
                                     = <<"clear", "prefill", "read", "read">>
         /\ program = "churn" => <<Work!Phases[1], Work!Phases[2], Work!Phases[4], Work!Phases[5]>>
                                     = <<"clear", "prefill", "read", "clear">>
         /\ program = "timed" => /\ <<Work!Phases[1], Work!Phases[2], Work!Phases[3], Work!Phases[4]>>
                                      = <<"clear", "prefill", "read", "clear">>
                                 /\ <<Work!Phases[5], Work!Phases[6], Work!Phases[8], Work!Phases[9]>>
                                      = <<"clear", "prefill", "read", "clear">>
  <1>1. CASE program = "sum"
    <2>1. Work!Phases = <<"fill">> /\ LastPhase = 1 /\ FillPhase = 1
      BY <1>1 DEF Work!Phases, Work!SumPhases, LastPhase, FillPhase
    <2>2. QED
      BY <1>1, <2>1
  <1>2. CASE program = "emplace"
    <2>1. Work!Phases = <<"clear", "prefill", "read", "fill", "read">> /\ LastPhase = 5 /\ FillPhase = 4
      BY <1>2 DEF Work!Phases, Work!EmplacePhases, LastPhase, FillPhase
    <2>2. QED
      BY <1>2, <2>1
  <1>3. CASE program = "churn"
    <2>1. Work!Phases = <<"clear", "prefill", "fill", "read", "clear">> /\ LastPhase = 5 /\ FillPhase = 3
      BY <1>3 DEF Work!Phases, Work!ChurnPhases, LastPhase, FillPhase
    <2>2. QED
      BY <1>3, <2>1
  <1>4. CASE program = "timed"
    <2>1. /\ Work!Phases = <<"clear", "prefill", "read", "clear", "clear", "prefill", "fill", "read", "clear">>
          /\ LastPhase = 9 /\ FillPhase = 7
      BY <1>4 DEF Work!Phases, Work!TimedPhases, LastPhase, FillPhase
    <2>2. QED
      BY <1>4, <2>1
  <1>5. QED
    BY <1>1, <1>2, <1>3, <1>4 DEF SumTypes

LEMMA TurnsType ==
  ASSUME SumTypes, NEW t \in Workers
  PROVE  Turns(t) \in Nat /\ Turns(t) <= Loops /\ Share(t) \in Nat
  <1>1. Turns(t) \in Nat /\ Turns(t) <= Loops
    BY ToolsAssumption DEF SumTypes, Turns
  <1>2. Tri(Turns(t)) \in Nat
    BY <1>1, TriStep
  <1>3. QED
    BY <1>1, <1>2 DEF Share, SumTypes

LEMMA Totals ==
  /\ Cardinality(Workers) \in Nat /\ Cardinality(Workers) # 0
  /\ Work!Total = Loops * Cardinality(Workers) /\ Work!Total \in Nat
  /\ Work!AtLeast = (IF Loops < 2 \/ Cardinality(Workers) = 1 THEN Loops ELSE 2) /\ Work!AtLeast \in Nat
  /\ Work!VecSize = 2
  /\ Work!Triangle = Cardinality(Workers) * Tri(Loops)
  <1>1. Cardinality(Workers) \in Nat /\ Cardinality(Workers) # 0
    BY ToolsAssumption, FS_CardinalityType, FS_EmptySet
  <1>2. Work!Total = Loops * Cardinality(Workers) /\ Work!Triangle = Cardinality(Workers) * Tri(Loops)
        /\ Work!AtLeast = (IF Loops < 2 \/ Cardinality(Workers) = 1 THEN Loops ELSE 2)
    BY WorkCardinality DEF Work!Total, Work!Triangle, Work!AtLeast, Tri
  <1>3. \A m, n \in Nat : m * n \in Nat
    OBVIOUS
  <1>4. QED
    BY <1>1, <1>2, <1>3, ToolsAssumption DEF Work!VecSize

LEMMA LowType ==
  ASSUME SumTypes
  PROVE  Low \in Nat /\ Base \in Nat
  <1>1. round - 1 \in Nat
    BY DEF SumTypes
  <1>2. \A m, n \in Nat : m * n \in Nat
    OBVIOUS
  <1>3. Work!Total * (round - 1) \in Nat /\ Work!AtLeast * (round - 1) \in Nat
    BY <1>1, <1>2, Totals
  <1>4. QED
    BY <1>3, Totals DEF Low, Base

LEMMA SharesType ==
  ASSUME SumTypes
  PROVE  Shares \in Int
  <1>1. PICK f : f = [t \in Workers |-> Share(t)]
    OBVIOUS
  <1>2. \A t \in Workers : f[t] \in Int
    BY <1>1, TurnsType
  <1>3. SumFunctionOnSet(f, Workers) \in Int
    BY <1>2, ToolsAssumption, SumType
  <1>4. QED
    BY <1>1, <1>3 DEF Shares

LEMMA SharesSame ==
  ASSUME \A t \in Workers : Share(t)' = Share(t)
  PROVE  Shares' = Shares
  <1>1. [t \in Workers |-> Share(t)'] = [t \in Workers |-> Share(t)]
    OBVIOUS
  <1>2. QED
    BY <1>1, Zenon DEF Shares

\* All have the same share.
LEMMA SharesEqual ==
  ASSUME NEW c \in Int, \A t \in Workers : Share(t) = c
  PROVE  Shares = c * Cardinality(Workers)
  <1>1. PICK f : f = [t \in Workers |-> Share(t)]
    OBVIOUS
  <1>2. \A t \in Workers : f[t] = c
    BY <1>1
  <1>3. SumFunctionOnSet(f, Workers) = c * Cardinality(Workers)
    BY <1>2, ToolsAssumption, SumEqual
  <1>4. QED
    BY <1>1, <1>3 DEF Shares

\* One worker's share grows.
LEMMA SharesGrow ==
  ASSUME SumTypes, SumTypes', NEW t \in Workers, \A u \in Workers \ {t} : Share(u)' = Share(u),
         NEW d \in Int, Share(t)' = Share(t) + d
  PROVE  Shares' = Shares + d
  <1>1. PICK f, h : f = [u \in Workers |-> Share(u)] /\ h = [u \in Workers |-> Share(u)']
    OBVIOUS
  <1>2. \A u \in Workers : f[u] \in Int
    BY <1>1, TurnsType
  <1>3. f[t] \in Int /\ h[t] = f[t] + d /\ h[t] \in Int /\ \A u \in Workers \ {t} : h[u] = f[u]
    BY <1>1, <1>2
  <1>4. SumFunctionOnSet(h, Workers) = SumFunctionOnSet(f, Workers) - f[t] + h[t]
    BY <1>2, <1>3, ToolsAssumption, SumChange
  <1>5. SumFunctionOnSet(f, Workers) \in Int
    BY <1>2, ToolsAssumption, SumType
  <1>6. SumFunctionOnSet(h, Workers) = SumFunctionOnSet(f, Workers) + d
    BY <1>3, <1>4, <1>5
  <1>7. Shares = SumFunctionOnSet(f, Workers) /\ Shares' = SumFunctionOnSet(h, Workers)
    BY <1>1, Zenon DEF Shares
  <1>8. QED
    BY <1>6, <1>7

\* What main() finds holds at first.
LEMMA AddInit == Work!Init => SumTypes /\ Places /\ Filling /\ Resting
  <1> SUFFICES ASSUME Work!Init PROVE SumTypes /\ Places /\ Filling /\ Resting
    OBVIOUS
  <1>1. /\ main = "phase" /\ phase = 1 /\ round = 1 /\ sum = 0 /\ at = [t \in Workers |-> "none"]
        /\ left = [t \in Workers |-> 0] /\ loaded = left /\ local = left
    BY DEF Work!Init
  <1>2. \/ program = "sum" /\ body \in SumBodies
        \/ program = "emplace" /\ body = "emplace"
        \/ program \in {"churn", "timed"} /\ body = "churn"
    <2>1. program \in {"sum", "emplace", "churn", "timed"}
      BY ToolsAssumption DEF Work!Init
    <2>2. QED
      BY <2>1, ToolsAssumption DEF Work!Init, SumBodies
  <1>3. SumTypes
    <2>1. 1 \in 1 .. LastPhase
      BY <1>2 DEF LastPhase
    <2>2. QED
      BY <1>1, <1>2, <2>1, ToolsAssumption DEF SumTypes
  <1>4. Places /\ Filling
    BY <1>1 DEF Places, Filling
  <1>5. Work!Total * 0 = 0 /\ Work!AtLeast * 0 = 0
    BY Totals
  <1>6. Resting
    BY <1>1, <1>5 DEF Resting
  <1>7. QED
    BY <1>3, <1>4, <1>6

\* Nobody is in a loop: positions, reads and the mutex may be anyone's.
LEMMA PlacesKeep ==
  ASSUME Places, UNCHANGED <<at, left, local, body>>, \A t \in Workers : at[t] # "locked"
  PROVE  Places'
  BY DEF Places

\* main() by itself: from one phase to the next.
LEMMA UseVectorAdds ==
  ASSUME AddInv, Work!UseVector PROVE SumTypes' /\ Places' /\ Filling' /\ Resting'
  <1>1. /\ main = "phase" /\ Work!Phases[phase] # "fill" /\ main' \in {"phase", "ended"}
        /\ UNCHANGED <<program, body, at, left, loaded, local, mtx>>
        /\ \/ phase < LastPhase /\ phase' = phase + 1 /\ round' = round /\ main' = "phase"
           \/ phase >= LastPhase /\ phase' = 1 /\ round' = round + 1
    BY PhaseFacts DEF AddInv, SumTypes, Work!UseVector, Work!NextPhase, Work!workerVars
  <1>2. \A t \in Workers : at[t] \in {"none", "done"}
    BY <1>1 DEF AddInv, WorkInv, Started
  <1>3. phase \in 1 .. LastPhase /\ phase # FillPhase /\ sum \in Nat /\ round \in Nat \ {0} /\ LastPhase \in Nat
    BY <1>1, PhaseFacts DEF AddInv, SumTypes
  <1>4. /\ Work!Phases[phase] = "clear" => sum' = 0
        /\ Work!Phases[phase] = "prefill" => sum' = sum + 2
        /\ Work!Phases[phase] = "read" => sum' = sum
    BY Totals DEF Work!UseVector
  <1>5. phase' \in 1 .. LastPhase /\ round' \in Nat \ {0} /\ LastPhase' = LastPhase
    <2>1. LastPhase' = LastPhase
      BY <1>1 DEF LastPhase
    <2>2. phase' \in 1 .. LastPhase
      BY <1>1, <1>3
    <2>3. round' \in Nat \ {0}
      BY <1>1, <1>3
    <2>4. QED
      BY <2>1, <2>2, <2>3
  <1>6. Places' /\ Filling'
    BY <1>1, <1>2, PlacesKeep DEF AddInv, Filling
  <1>7. program # "sum"
    BY <1>3 DEF LastPhase, FillPhase
  <1>8. CASE program = "emplace"
    <2>1. LastPhase = 5 /\ FillPhase = 4
      BY <1>8 DEF LastPhase, FillPhase
    <2>2. phase \in {1, 2, 3, 5}
      BY <1>3, <2>1
    <2>3. /\ Work!Phases[1] = "clear" /\ Work!Phases[2] = "prefill" /\ Work!Phases[3] = "read"
          /\ Work!Phases[5] = "read"
      BY <1>8, PhaseFacts DEF AddInv
    <2>4. sum' \in Nat /\ Resting'
      BY <1>1, <1>3, <1>4, <1>8, <2>1, <2>2, <2>3, Totals DEF AddInv, Resting
    <2>5. QED
      BY <1>1, <1>5, <1>6, <2>4 DEF AddInv, SumTypes
  <1>9. CASE program = "churn"
    <2>1. LastPhase = 5 /\ FillPhase = 3
      BY <1>9 DEF LastPhase, FillPhase
    <2>2. phase \in {1, 2, 4, 5}
      BY <1>3, <2>1
    <2>3. /\ Work!Phases[1] = "clear" /\ Work!Phases[2] = "prefill" /\ Work!Phases[4] = "read"
          /\ Work!Phases[5] = "clear"
      BY <1>9, PhaseFacts DEF AddInv
    <2>4. sum' \in Nat /\ Resting'
      BY <1>1, <1>3, <1>4, <1>9, <2>1, <2>2, <2>3, Totals DEF AddInv, Resting
    <2>5. QED
      BY <1>1, <1>5, <1>6, <2>4 DEF AddInv, SumTypes
  <1>10. CASE program = "timed"
    <2>1. LastPhase = 9 /\ FillPhase = 7
      BY <1>10 DEF LastPhase, FillPhase
    <2>2. phase \in {1, 2, 3, 4, 5, 6, 8, 9}
      BY <1>3, <2>1
    <2>3. /\ Work!Phases[1] = "clear" /\ Work!Phases[2] = "prefill" /\ Work!Phases[3] = "read"
          /\ Work!Phases[4] = "clear" /\ Work!Phases[5] = "clear" /\ Work!Phases[6] \in {"prefill"}
          /\ Work!Phases[8] = "read" /\ Work!Phases[9] = "clear"
      BY <1>10, PhaseFacts DEF AddInv, Work!Phases, Work!TimedPhases
    <2>4. sum' \in Nat /\ Resting'
      BY <1>1, <1>3, <1>4, <1>10, <2>1, <2>2, <2>3, Totals DEF AddInv, Resting
    <2>5. QED
      BY <1>1, <1>5, <1>6, <2>4 DEF AddInv, SumTypes
  <1>11. QED
    BY <1>7, <1>8, <1>9, <1>10 DEF AddInv, SumTypes

\* A call begins: nobody has added anything.
LEMMA SharesNone ==
  ASSUME \A t \in Workers : Share(t)' = 0
  PROVE  Shares' = 0
  <1>1. PICK f : f = [t \in Workers |-> Share(t)']
    OBVIOUS
  <1>2. \A t \in Workers : f[t] = 0
    BY <1>1
  <1>3. SumFunctionOnSet(f, Workers) = 0 * Cardinality(Workers)
    BY <1>2, ToolsAssumption, SumEqual
  <1>4. Shares' = SumFunctionOnSet(f, Workers)
    BY <1>1 DEF Shares
  <1>5. QED
    BY <1>3, <1>4, Totals

LEMMA FillAdds ==
  ASSUME AddInv, Work!Fill PROVE SumTypes' /\ Places' /\ Filling' /\ Resting'
  <1>1. /\ main = "phase" /\ Work!Phases[phase] = "fill" /\ main' = "spawn" /\ at' = [t \in Workers |-> "none"]
        /\ UNCHANGED <<program, body, phase, round, left, loaded, local>>
        /\ sum' = IF program = "sum" /\ body \notin Work!Statics THEN 0 ELSE sum
    BY DEF Work!Fill
  <1>2. phase = FillPhase
    BY <1>1, PhaseFacts DEF AddInv, SumTypes
  <1>3. SumTypes'
    BY <1>1, <1>2 DEF AddInv, SumTypes, LastPhase, FillPhase
  <1>4. Places' /\ Resting'
    BY <1>1 DEF Places, Resting
  <1>5. \A t \in Workers : Turns(t)' = 0
    BY <1>1 DEF Turns
  <1>6. Shares' = 0
    <2>1. \A t \in Workers : Share(t)' = 0
      BY <1>1, <1>5, TriZero DEF Share
    <2>2. QED
      BY <2>1, SharesNone
  <1>7. /\ Base' = Base /\ Low' = Low /\ Base \in Nat /\ Low \in Nat
    BY <1>1, LowType DEF Base, Low, AddInv
  <1>8. body \notin Lossy => sum' = Base
    BY <1>1, <1>2, Totals DEF AddInv, SumTypes, Resting, Lossy, SumBodies, Base, FillPhase, Work!Statics
  <1>9. body \in Lossy => sum' \in Low .. Base
    BY <1>1, <1>2, Totals DEF AddInv, SumTypes, Resting, Lossy, SumBodies, Base, Low, FillPhase, Work!Statics
  <1>10. ASSUME body \in Lossy PROVE Bounds'
    <2>1. sum' \in Low .. Base /\ sum' \in Nat
      BY <1>3, <1>9, <1>10 DEF SumTypes
    <2>2. \E t \in Workers : TRUE
      BY ToolsAssumption
    <2>3. Base' + Shares' = Base /\ Low' = Low /\ \A t \in Workers : at'[t] # "loaded"
      BY <1>1, <1>6, <1>7
    <2>4. sum' >= Low /\ Low + 0 = Low /\ \A t \in Workers : ~(Turns(t)' >= 1) /\ Turns(t)' <= 1
      BY <1>5, <1>7, <2>1
    <2>5. QED
      BY <1>5, <2>1, <2>2, <2>3, <2>4 DEF Bounds
  <1>11. Filling'
    BY <1>1, <1>6, <1>7, <1>8, <1>10 DEF Filling
  <1>12. QED
    BY <1>3, <1>4, <1>11

InCall == {"spawn", "sleep", "join"}

LEMMA FrameKeeps ==
  ASSUME UNCHANGED <<body, round>>
  PROVE  Base' = Base /\ Low' = Low
  BY DEF Base, Low

\* A step of a call that adds nothing.
LEMMA QuietAdds ==
  ASSUME AddInv, main' \in InCall => main \in InCall, main' \notin {"phase", "ended"},
         UNCHANGED <<program, body, phase, round, sum, loaded>>,
         \A t \in Workers : Turns(t)' = Turns(t) /\ Share(t)' = Share(t) /\ (at'[t] = "loaded" => at[t] = "loaded")
  PROVE  Filling' /\ Resting'
  <1>1. Base' = Base /\ Low' = Low /\ Shares' = Shares
    BY FrameKeeps, SharesSame
  <1>2. ASSUME body \in Lossy, main' \in InCall PROVE Bounds'
    <2>1. Bounds
      BY <1>2 DEF AddInv, Filling, InCall
    <2>2. QED
      BY <1>1, <2>1 DEF Bounds
  <1>3. Filling'
    BY <1>1, <1>2 DEF AddInv, Filling, InCall
  <1>4. Resting'
    BY DEF Resting, InCall
  <1>5. QED
    BY <1>3, <1>4

\* main() in a call.
LEMMA CallAdds ==
  ASSUME AddInv, Work!Spawned \/ Work!Stop PROVE SumTypes' /\ Places' /\ Filling' /\ Resting'
  <1>1. /\ main \in InCall /\ main' \in InCall
        /\ UNCHANGED <<program, body, phase, round, sum, at, left, loaded, local, mtx>>
    BY DEF Work!Spawned, Work!Stop, Work!workerVars, InCall
  <1>2. SumTypes' /\ Places'
    BY <1>1 DEF AddInv, SumTypes, Places, LastPhase, FillPhase, InCall
  <1>3. \A t \in Workers : Turns(t)' = Turns(t) /\ Share(t)' = Share(t)
    BY <1>1 DEF Turns, Share
  <1>4. QED
    BY <1>1, <1>2, <1>3, QuietAdds DEF InCall

LEMMA SpawnAdds ==
  ASSUME AddInv, NEW t \in Workers, Work!Spawn(t) PROVE SumTypes' /\ Places' /\ Filling' /\ Resting'
  <1>1. main = "spawn" /\ at[t] = "none" /\ UNCHANGED <<program, body, phase, round, sum, loaded, mtx>>
    BY DEF Work!Spawn
  <1>2. CASE at' = [at EXCEPT ![t] = "created"] /\ left' = [left EXCEPT ![t] = Loops]
             /\ local' = [local EXCEPT ![t] = 0] /\ main' = main
    <2>1. at'[t] = "created" /\ left'[t] = Loops /\ local'[t] = 0
          /\ \A u \in Workers \ {t} : at'[u] = at[u] /\ left'[u] = left[u] /\ local'[u] = local[u]
      BY <1>2 DEF AddInv, WorkInv, WorkTypes, SumTypes
    <2>2. Loops - Loops = 0
      BY ToolsAssumption
    <2>3. SumTypes'
      BY <1>1, <1>2, ToolsAssumption DEF AddInv, SumTypes, LastPhase, FillPhase
    <2>4. Places'
      <3>1. \A u \in Workers \ {t} : at[u] = "locked" => mtx = u
        BY DEF AddInv, Places
      <3>2. QED
        BY <1>1, <2>1, <2>2, TriZero DEF AddInv, Places
    <2>5. \A u \in Workers : Turns(u)' = Turns(u) /\ Share(u)' = Share(u)
      <3>1. \A u \in Workers : Turns(u)' = Turns(u)
        BY <1>1, <2>1, <2>2 DEF Turns
      <3>2. QED
        BY <1>1, <2>1, <3>1 DEF Share
    <2>6. QED
      BY <1>1, <1>2, <2>1, <2>3, <2>4, <2>5, QuietAdds DEF InCall
  <1>3. CASE main' = "join" /\ UNCHANGED <<at, left, local>>
    <2>1. SumTypes' /\ Places'
      BY <1>1, <1>3 DEF AddInv, SumTypes, Places, LastPhase, FillPhase
    <2>2. \A u \in Workers : Turns(u)' = Turns(u) /\ Share(u)' = Share(u)
      BY <1>1, <1>3 DEF Turns, Share
    <2>3. QED
      BY <1>1, <1>3, <2>1, <2>2, QuietAdds DEF InCall
  <1>4. QED
    BY <1>2, <1>3 DEF Work!Spawn, Work!Goto

\* Where the steps through the barriers lead.
Passes(from, here, after) ==
  \/ from \in {"created", "atstart"} /\ here \in {"atstart", "loop"}
  \/ from = "loop" /\ here \in {"atstop", "done"} /\ body # "local" /\ (body = "churn" \/ after = 0)
  \/ from = "loop" /\ here = "add" /\ body = "local" /\ after = 0
  \/ from \in {"leave", "atstop"} /\ here \in {"atstop", "done"}

LEMMA ArrivePasses ==
  ASSUME AddInv, NEW t \in Workers, Work!Start(t) \/ Work!EndLoop(t) \/ Work!Leave(t)
  PROVE  \A u \in Workers : at'[u] = at[u] \/ Passes(at[u], at'[u], left[u])
  <1>1. at \in [Workers -> Positions] /\ left[t] \in Nat
    BY ToolsAssumption DEF AddInv, WorkInv, WorkTypes, SumTypes
  <1>2. ASSUME NEW next, NEW waiting, Work!Arrive(t, waiting, next), NEW u \in Workers
        PROVE  \/ at'[u] = at[u]
               \/ u = t /\ at'[u] \in {next, waiting}
               \/ at[u] = waiting /\ at'[u] = next
    BY <1>1, <1>2 DEF Work!Arrive, Work!Goto
  <1>3. CASE Work!Start(t)
    <2>1. at[t] = "created" /\ Work!Arrive(t, "atstart", "loop")
      BY <1>3 DEF Work!Start
    <2>2. QED
      BY <1>2, <2>1 DEF Passes
  <1>4. CASE Work!Leave(t)
    <2>1. at[t] = "leave" /\ Work!Arrive(t, "atstop", "done")
      BY <1>4 DEF Work!Leave
    <2>2. QED
      BY <1>2, <2>1 DEF Passes
  <1>5. CASE Work!EndLoop(t)
    <2>1. at[t] = "loop" /\ (body = "churn" \/ left[t] = 0)
      BY <1>1, <1>5 DEF Work!EndLoop, Work!More
    <2>2. CASE body = "emplace"
      <3>1. at' = [at EXCEPT ![t] = "done"]
        BY <1>5, <2>2 DEF Work!EndLoop, Work!Goto
      <3>2. QED
        BY <1>1, <2>1, <2>2, <3>1 DEF Passes
    <2>3. CASE body = "local"
      <3>1. at' = [at EXCEPT ![t] = "add"]
        BY <1>5, <2>3 DEF Work!EndLoop, Work!Goto
      <3>2. QED
        BY <1>1, <2>1, <2>3, <3>1 DEF Passes
    <2>4. CASE body \notin {"emplace", "local"}
      <3>1. Work!Arrive(t, "atstop", "done")
        BY <1>5, <2>4 DEF Work!EndLoop
      <3>2. QED
        BY <1>2, <2>1, <2>4, <3>1 DEF Passes
    <2>5. QED
      BY <2>2, <2>3, <2>4
  <1>6. QED
    BY <1>3, <1>4, <1>5

\* The barriers add nothing.
LEMMA ArriveAdds ==
  ASSUME AddInv, NEW t \in Workers, Work!Start(t) \/ Work!EndLoop(t) \/ Work!Leave(t)
  PROVE  SumTypes' /\ Places' /\ Filling' /\ Resting'
  <1>1. UNCHANGED <<program, body, phase, round, main, sum, left, loaded, local, mtx>>
    BY DEF Work!Start, Work!EndLoop, Work!Leave, Work!mainVars
  <1>2. main \notin {"phase", "ended"}
    BY DEF Work!Start, Work!EndLoop, Work!Leave, AddInv, WorkInv, Started
  <1>3. \A u \in Workers : at'[u] = at[u] \/ Passes(at[u], at'[u], left[u])
    BY ArrivePasses
  <1>4. SumTypes'
    BY <1>1 DEF AddInv, SumTypes, LastPhase, FillPhase
  <1>5. Places'
    BY <1>1, <1>3 DEF AddInv, Places, Passes
  <1>6. \A u \in Workers : Turns(u)' = Turns(u) /\ (at'[u] = "loaded" => at[u] = "loaded")
    BY <1>1, <1>3 DEF Turns, Passes
  <1>7. \A u \in Workers : Share(u)' = Share(u)
    BY <1>1, <1>3, <1>6 DEF Share, Passes
  <1>8. QED
    BY <1>1, <1>2, <1>4, <1>5, <1>6, <1>7, QuietAdds

\* Everyone is done: everything has been added, or all but what may get lost.
LEMMA AllAdded ==
  ASSUME AddInv, main = "join", \A t \in Workers : at[t] = "done"
  PROVE  /\ body \in {"cas", "fetch", "mutex"} => sum = Work!Total * (round - 1) + Work!Total
         /\ body \in {"atomic", "local"} => sum = Work!Triangle
         /\ body = "emplace" => sum = Work!VecSize + Work!Total
         /\ body = "churn" => sum = Work!VecSize
         /\ body \in Lossy => sum \in Low + Work!AtLeast .. Base + Work!Total
  <1>1. PICK c : c = IF body = "churn" THEN 0 ELSE IF body \in {"atomic", "local"} THEN Tri(Loops) ELSE Loops
    OBVIOUS
  <1>2. c \in Nat /\ Tri(Loops) \in Nat
    BY <1>1, ToolsAssumption, TriStep
  <1>3. \A t \in Workers : body # "churn" => left[t] = 0 /\ Turns(t) = Loops
    BY ToolsAssumption DEF AddInv, Places, Turns
  <1>4. Loops - 0 = Loops
    BY ToolsAssumption
  <1>5. \A t \in Workers : body = "local" => local[t] = Tri(Loops)
    BY <1>3, <1>4 DEF AddInv, Places
  <1>6. \A t \in Workers : Share(t) = c
    BY <1>1, <1>3, <1>5 DEF Share
  <1>7. Shares = c * Cardinality(Workers)
    BY <1>2, <1>6, SharesEqual
  <1>8. PICK n \in Nat : n = Cardinality(Workers) /\ n # 0
    BY Totals
  <1>9. 0 * n = 0 /\ \A m \in Nat : m * n = n * m
    OBVIOUS
  <1>10. CASE body \in Lossy
    <2>1. Bounds
      BY <1>10 DEF AddInv, Filling
    <2>2. Shares = Work!Total /\ sum <= Base + Work!Total
      BY <1>1, <1>7, <1>10, <2>1, Totals DEF Lossy, Bounds
    <2>3. Low \in Nat /\ sum \in Nat
      BY LowType DEF AddInv, SumTypes
    <2>4. PICK t \in Workers : Turns(t) = Loops
      BY <1>3, <1>10, ToolsAssumption DEF Lossy
    <2>5. sum >= Low + Work!AtLeast
      <3>1. CASE Cardinality(Workers) = 1
        BY <2>1, <2>3, <2>4, <3>1, Totals DEF Bounds
      <3>2. CASE Loops = 0
        BY <2>1, <2>3, <3>2, Totals DEF Bounds
      <3>3. CASE Loops = 1
        BY <2>1, <2>3, <2>4, <3>3, Totals DEF Bounds
      <3>4. CASE Loops >= 2 /\ Cardinality(Workers) # 1
        <4>1. \A u \in Workers : ~(Turns(u) <= 1)
          BY <1>3, <1>10, <3>4, ToolsAssumption DEF Lossy
        <4>2. sum >= Low + 2
          BY <2>1, <3>4, <4>1 DEF Bounds
        <4>3. Work!AtLeast = 2
          BY <3>4, ToolsAssumption, Totals
        <4>4. QED
          BY <4>2, <4>3
      <3>5. QED
        BY <3>1, <3>2, <3>3, <3>4, ToolsAssumption
    <2>6. Base \in Nat /\ Work!Total \in Nat /\ Work!AtLeast \in Nat
      BY LowType, Totals DEF AddInv
    <2>7. QED
      BY <1>10, <2>2, <2>3, <2>5, <2>6 DEF Lossy
  <1>11. CASE body \notin Lossy
    <2>1. sum = Base + Shares
      BY <1>11 DEF AddInv, Filling
    <2>2. CASE body \in {"cas", "fetch", "mutex"}
      BY <1>1, <1>7, <2>1, <2>2, Totals DEF Base, Work!Statics, Lossy
    <2>3. CASE body \in {"atomic", "local"}
      <3>1. Base = 0 /\ c = Tri(Loops)
        BY <1>1, <2>3 DEF Base, Work!Statics
      <3>2. Shares = Work!Triangle /\ Shares \in Int
        BY <1>2, <1>7, <1>8, <1>9, <3>1, Totals
      <3>3. QED
        BY <1>11, <2>1, <2>3, <3>1, <3>2 DEF Lossy
    <2>4. CASE body = "emplace"
      BY <1>1, <1>7, <2>1, <2>4, Totals DEF Base, Work!Statics, Lossy
    <2>5. CASE body = "churn"
      BY <1>1, <1>7, <1>8, <1>9, <2>1, <2>5, Totals DEF Base, Work!Statics, Lossy
    <2>6. QED
      BY <1>11, <2>2, <2>3, <2>4, <2>5 DEF AddInv, SumTypes, SumBodies, Lossy
  <1>12. QED
    BY <1>10, <1>11

\* A static sum has grown by one call's additions.
LEMMA OneMoreRound ==
  ASSUME NEW m \in Nat, NEW r \in Nat \ {0}
  PROVE  m * ((r + 1) - 1) = m * (r - 1) + m
  <1>1. PICK k \in Nat : k = r - 1
    OBVIOUS
  <1>2. m * (k + 1) = m * k + m
    OBVIOUS
  <1>3. (r + 1) - 1 = k + 1
    BY <1>1
  <1>4. QED
    BY <1>1, <1>2, <1>3

\* A call ends: what it has added is what main() then finds.
LEMMA JoinAdds ==
  ASSUME AddInv, Work!Join PROVE SumTypes' /\ Places' /\ Filling' /\ Resting'
  <1>1. /\ main = "join" /\ \A t \in Workers : at[t] \in {"none", "done"}
        /\ UNCHANGED <<program, body, sum, at, left, loaded, local, mtx>>
        /\ IF failed THEN main' = "thrown" /\ UNCHANGED <<phase, round>> ELSE Work!NextPhase
    BY DEF Work!Join, Work!workerVars
  <1>2. /\ phase = FillPhase /\ phase \in 1 .. LastPhase /\ round \in Nat \ {0} /\ sum \in Nat
        /\ LastPhase' = LastPhase /\ FillPhase' = FillPhase /\ LastPhase \in Nat
    BY <1>1, PhaseFacts DEF AddInv, SumTypes, LastPhase, FillPhase
  <1>3. Places' /\ Filling'
    <2>1. main' \in {"thrown", "phase", "ended"}
      BY <1>1 DEF Work!NextPhase
    <2>2. QED
      BY <1>1, <2>1, PlacesKeep DEF AddInv, Filling
  <1>4. CASE failed
    BY <1>1, <1>2, <1>3, <1>4 DEF AddInv, SumTypes, Resting, LastPhase
  <1>5. CASE ~failed
    <2>1. \A t \in Workers : at[t] = "done"
      BY <1>1, <1>5 DEF AddInv, WorkInv, Started
    <2>2. /\ main' \in {"phase", "ended"}
          /\ \/ phase < LastPhase /\ phase' = phase + 1 /\ round' = round /\ main' = "phase"
             \/ phase >= LastPhase /\ phase' = 1 /\ round' = round + 1
      <3>1. Work!NextPhase
        BY <1>1, <1>5
      <3>2. Len(Work!Phases) = LastPhase
        BY PhaseFacts DEF AddInv
      <3>3. phase < LastPhase \/ phase >= LastPhase
        BY <1>2
      <3>4. CASE phase < LastPhase
        BY <3>1, <3>2, <3>4 DEF Work!NextPhase
      <3>5. CASE ~(phase < LastPhase) /\ phase >= LastPhase
        BY <3>1, <3>2, <3>5 DEF Work!NextPhase
      <3>6. QED
        BY <1>2, <3>4, <3>5
    <2>3. phase' \in 1 .. LastPhase
      BY <1>2, <2>2
    <2>4. round' \in Nat \ {0}
      BY <1>2, <2>2
    <2>5. SumTypes'
      BY <1>1, <1>2, <2>2, <2>3, <2>4 DEF AddInv, SumTypes
    <2>6. CASE program = "sum"
      <3>1. phase' = 1 /\ round' = round + 1
        BY <1>2, <2>2, <2>6 DEF LastPhase, FillPhase
      <3>2. PICK total \in Nat, least \in Nat : total = Work!Total /\ least = Work!AtLeast
        BY Totals
      <3>3. total * (round' - 1) = total * (round - 1) + total /\ least * (round' - 1) = least * (round - 1) + least
        BY <1>2, <3>1, OneMoreRound
      <3>4. body \in {"cas", "fetch", "mutex"} => sum = total * (round' - 1)
        BY <1>1, <2>1, <3>2, <3>3, AllAdded
      <3>5. body = "static" => sum \in least * (round' - 1) .. total * (round' - 1)
        <4>1. body = "static" => Low = least * (round - 1) /\ Base = total * (round - 1)
          BY <3>2 DEF Low, Base, Work!Statics
        <4>2. body = "static" => sum \in Low + least .. Base + total
          BY <1>1, <2>1, <3>2, AllAdded DEF Lossy
        <4>3. QED
          BY <3>3, <4>1, <4>2
      <3>6. body \in {"atomic", "local"} => sum = Work!Triangle
        BY <1>1, <2>1, AllAdded
      <3>7. body = "plain" => sum \in least .. total
        <4>1. body = "plain" => Low = 0 /\ Base = 0
          BY DEF Low, Base, Work!Statics
        <4>2. body = "plain" => sum \in Low + least .. Base + total
          BY <1>1, <2>1, <3>2, AllAdded DEF Lossy
        <4>3. 0 + least = least /\ 0 + total = total
          OBVIOUS
        <4>4. QED
          BY <4>1, <4>2, <4>3
      <3>8. Resting'
        BY <1>1, <2>1, <2>6, <3>1, <3>2, <3>4, <3>5, <3>6, <3>7 DEF Resting
      <3>9. QED
        BY <1>3, <2>5, <3>8
    <2>7. CASE program # "sum"
      <3>1. program \in {"emplace", "churn", "timed"} /\ body = IF program = "emplace" THEN "emplace" ELSE "churn"
        BY <2>7 DEF AddInv, SumTypes
      <3>2. main' = "phase" /\ phase' = IF program = "emplace" THEN 5 ELSE IF program = "churn" THEN 4 ELSE 8
        BY <1>2, <2>2, <3>1 DEF LastPhase, FillPhase
      <3>3. sum' = IF program = "emplace" THEN Work!VecSize + Work!Total ELSE Work!VecSize
        BY <1>1, <2>1, <3>1, AllAdded
      <3>4. Resting'
        BY <1>1, <2>1, <3>1, <3>2, <3>3 DEF Resting
      <3>5. QED
        BY <1>3, <2>5, <3>4
    <2>8. QED
      BY <2>6, <2>7
  <1>6. QED
    BY <1>4, <1>5

\* A worker in its loop: main() is in the call and stays there.
LEMMA InLoop ==
  ASSUME AddInv, NEW t \in Workers, at[t] \in {"loop", "loaded", "locked", "add"}, UNCHANGED Work!mainVars
  PROVE  /\ UNCHANGED <<program, body, phase, round, main>> /\ main \notin {"phase", "ended"} /\ Resting'
         /\ Base' = Base /\ Low' = Low /\ LastPhase' = LastPhase /\ FillPhase' = FillPhase
         /\ Turns(t) = Loops - left[t] /\ left[t] \in 0 .. Loops /\ at \in [Workers -> Positions]
         /\ Turns(t) \in Nat /\ Base \in Nat /\ Low \in Nat /\ Shares \in Int
  <1>1. UNCHANGED <<program, body, phase, round, main>>
    BY DEF Work!mainVars
  <1>2. main \notin {"phase", "ended"}
    BY DEF AddInv, WorkInv, Started
  <1>3. Base' = Base /\ Low' = Low
    BY <1>1, FrameKeeps
  <1>4. Turns(t) = Loops - left[t] /\ left[t] \in 0 .. Loops /\ at \in [Workers -> Positions]
    BY DEF AddInv, WorkInv, WorkTypes, SumTypes, Turns
  <1>5. Turns(t) \in Nat /\ Base \in Nat /\ Low \in Nat /\ Shares \in Int
    BY TurnsType, LowType, SharesType DEF AddInv
  <1>6. Resting' /\ LastPhase' = LastPhase /\ FillPhase' = FillPhase
    BY <1>1, <1>2 DEF Resting, LastPhase, FillPhase
  <1>7. QED
    BY <1>1, <1>2, <1>3, <1>4, <1>5, <1>6

\* What one worker does to itself leaves the others' shares alone.
LEMMA OthersShares ==
  ASSUME UNCHANGED body, NEW t,
         \A u \in Workers \ {t} : at'[u] = at[u] /\ left'[u] = left[u] /\ local'[u] = local[u]
  PROVE  \A u \in Workers \ {t} : Turns(u)' = Turns(u) /\ Share(u)' = Share(u)
  <1>1. \A u \in Workers \ {t} : Turns(u)' = Turns(u)
    BY DEF Turns
  <1>2. QED
    BY <1>1 DEF Share

\* What a worker adds to an exact sum is what its share grows by.
LEMMA GainAdds ==
  ASSUME AddInv, SumTypes', NEW t \in Workers, at[t] \in {"loop", "loaded", "locked", "add"}, UNCHANGED Work!mainVars,
         \A u \in Workers \ {t} : at'[u] = at[u] /\ left'[u] = left[u] /\ local'[u] = local[u],
         NEW d \in Int, Share(t)' = Share(t) + d, body \notin Lossy, sum' = sum + d
  PROVE  Filling'
  <1>1. UNCHANGED <<body, main>> /\ Base' = Base /\ Base \in Nat /\ Shares \in Int
    BY InLoop
  <1>2. \A u \in Workers \ {t} : Share(u)' = Share(u)
    BY <1>1, OthersShares
  <1>3. SumTypes
    BY DEF AddInv
  <1>4. Shares' = Shares + d
    BY <1>2, <1>3, SharesGrow
  <1>5. main \in InCall => sum = Base + Shares
    BY DEF AddInv, Filling, InCall
  <1>6. main \in InCall => sum' = Base' + Shares'
    BY <1>1, <1>4, <1>5
  <1>7. QED
    BY <1>1, <1>6 DEF Filling, InCall

LEMMA MoreLeft ==
  ASSUME AddInv, NEW t \in Workers, Work!More(t), body # "churn"
  PROVE  left[t] > 0
  BY DEF Work!More

\* The steps of the loop, body by body.
LEMMA LoadAdds ==
  ASSUME AddInv, NEW t \in Workers, Work!Load(t) PROVE SumTypes' /\ Places' /\ Filling' /\ Resting'
  <1>1. /\ at[t] = "loop" /\ Work!More(t) /\ body \in {"plain", "static", "cas"}
        /\ loaded' = [loaded EXCEPT ![t] = sum] /\ at' = [at EXCEPT ![t] = "loaded"]
        /\ UNCHANGED Work!mainVars /\ UNCHANGED <<left, local, mtx, sum>>
    BY DEF Work!Load, Work!Goto
  <1>2. /\ UNCHANGED <<program, body, phase, round, main>> /\ Resting' /\ Base' = Base /\ Low' = Low
        /\ LastPhase' = LastPhase /\ FillPhase' = FillPhase /\ at \in [Workers -> Positions]
    BY <1>1, InLoop
  <1>3. /\ at'[t] = "loaded" /\ loaded'[t] = sum
        /\ \A u \in Workers \ {t} : at'[u] = at[u] /\ loaded'[u] = loaded[u]
    BY <1>1, <1>2 DEF AddInv, SumTypes
  <1>4. SumTypes'
    BY <1>1, <1>2 DEF AddInv, SumTypes
  <1>5. left[t] > 0
    BY <1>1, MoreLeft
  <1>6. Places'
    BY <1>1, <1>2, <1>3, <1>5 DEF AddInv, Places
  <1>7. \A u \in Workers : Turns(u)' = Turns(u)
    BY <1>1, <1>3 DEF Turns
  <1>8. Shares' = Shares
    <2>1. \A u \in Workers : Share(u)' = Share(u)
      BY <1>1, <1>2, <1>7 DEF Share
    <2>2. QED
      BY <2>1, SharesSame
  <1>9. ASSUME Bounds PROVE Bounds'
    BY <1>1, <1>2, <1>3, <1>7, <1>8, <1>9 DEF Bounds
  <1>10. Filling'
    BY <1>1, <1>2, <1>8, <1>9 DEF AddInv, Filling
  <1>11. QED
    BY <1>2, <1>4, <1>6, <1>10

LEMMA StoreAdds ==
  ASSUME AddInv, NEW t \in Workers, Work!Store(t) PROVE SumTypes' /\ Places' /\ Filling' /\ Resting'
  <1>1. /\ at[t] = "loaded" /\ body \in {"plain", "static"} /\ sum' = loaded[t] + 1
        /\ left' = [left EXCEPT ![t] = left[t] - 1] /\ at' = [at EXCEPT ![t] = "loop"]
        /\ UNCHANGED Work!mainVars /\ UNCHANGED <<loaded, local, mtx>>
    BY DEF Work!Store, Work!Goto
  <1>2. /\ UNCHANGED <<program, body, phase, round, main>> /\ Resting' /\ Base' = Base /\ Low' = Low
        /\ LastPhase' = LastPhase /\ FillPhase' = FillPhase /\ at \in [Workers -> Positions]
        /\ Turns(t) = Loops - left[t] /\ left[t] \in 0 .. Loops
        /\ Turns(t) \in Nat /\ Base \in Nat /\ Low \in Nat /\ Shares \in Int
    BY <1>1, InLoop
  <1>3. left[t] > 0
    BY <1>1 DEF AddInv, Places
  <1>4. /\ at'[t] = "loop" /\ left'[t] = left[t] - 1
        /\ \A u \in Workers \ {t} : at'[u] = at[u] /\ left'[u] = left[u] /\ local'[u] = local[u]
    BY <1>1, <1>2 DEF AddInv, SumTypes
  <1>5. SumTypes'
    <2>1. left[t] - 1 \in 0 .. Loops /\ loaded[t] + 1 \in Nat
      BY <1>2, <1>3, ToolsAssumption DEF AddInv, SumTypes
    <2>2. QED
      BY <1>1, <1>2, <2>1 DEF AddInv, SumTypes
  <1>6. Places'
    BY <1>1, <1>2, <1>4 DEF AddInv, Places
  <1>7. Turns(t)' = Turns(t) + 1 /\ \A u \in Workers \ {t} : Turns(u)' = Turns(u) /\ Share(u)' = Share(u)
    <2>1. Turns(t)' = Loops - left'[t]
      BY <1>4 DEF Turns
    <2>2. Turns(t)' = Turns(t) + 1
      BY <1>2, <1>4, <2>1, ToolsAssumption
    <2>3. QED
      BY <1>2, <1>4, <2>2, OthersShares
  <1>8. Shares' = Shares + 1
    <2>1. Share(t)' = Share(t) + 1
      BY <1>1, <1>2, <1>7 DEF Share
    <2>2. SumTypes
      BY DEF AddInv
    <2>3. QED
      BY <1>5, <1>7, <2>1, <2>2, SharesGrow
  <1>9. ASSUME Bounds PROVE Bounds'
    <2>1. loaded[t] \in Nat /\ loaded[t] \in Low .. Base + Shares
      BY <1>1, <1>9 DEF Bounds, AddInv, SumTypes
    <2>2. sum' \in Low' .. Base' + Shares'
      BY <1>1, <1>2, <1>8, <2>1
    <2>3. ASSUME NEW u \in Workers, at'[u] = "loaded"
          PROVE  u # t /\ at[u] = "loaded" /\ loaded'[u] = loaded[u] /\ loaded'[u] \in Low' .. Base' + Shares'
      <3>1. u # t /\ at[u] = "loaded" /\ loaded[u] \in Low .. Base + Shares
        BY <1>4, <1>9, <2>3 DEF Bounds
      <3>2. QED
        BY <1>1, <1>2, <1>8, <3>1
    <2>4. sum' >= Low' + 1
      BY <1>1, <1>2, <2>1
    <2>5. \A u \in Workers : Turns(u)' >= 1 /\ at'[u] = "loaded" => loaded'[u] >= Low' + 1
      BY <1>2, <1>7, <1>9, <2>3 DEF Bounds
    <2>6. Turns(t) >= 1 => sum' >= Low' + 2
      <3>1. Turns(t) >= 1 => loaded[t] >= Low + 1
        BY <1>1, <1>9 DEF Bounds
      <3>2. QED
        BY <1>1, <1>2, <2>1, <3>1
    <2>7. ~(Turns(t) >= 1) => Turns(t)' <= 1
      BY <1>2, <1>7
    <2>8. ASSUME Cardinality(Workers) = 1, NEW u \in Workers
          PROVE  u = t /\ sum' >= Low' + Turns(u)'
      <3>1. u = t
        BY <2>8, ToolsAssumption, FS_Singleton
      <3>2. loaded[t] >= Low + Turns(t)
        BY <1>1, <1>9, <2>8 DEF Bounds
      <3>3. QED
        BY <1>1, <1>2, <1>7, <2>1, <3>1, <3>2
    <2>9. \A u \in Workers : Cardinality(Workers) = 1 => sum' >= Low' + Turns(u)' /\ at'[u] # "loaded"
      BY <1>4, <2>8
    <2>10. Loops >= 2 => sum' >= Low' + 2 \/ \E u \in Workers : Turns(u)' <= 1
      BY <2>6, <2>7
    <2>11. QED
      BY <2>2, <2>3, <2>4, <2>5, <2>9, <2>10 DEF Bounds
  <1>10. Filling'
    BY <1>1, <1>2, <1>9 DEF AddInv, Filling, Lossy
  <1>11. QED
    BY <1>2, <1>5, <1>6, <1>10

LEMMA ExchangeAdds ==
  ASSUME AddInv, NEW t \in Workers, Work!Exchange(t) PROVE SumTypes' /\ Places' /\ Filling' /\ Resting'
  <1>1. /\ at[t] = "loaded" /\ body = "cas" /\ UNCHANGED Work!mainVars /\ UNCHANGED <<local, mtx>>
        /\ IF sum = loaded[t]
           THEN /\ sum' = loaded[t] + 1 /\ left' = [left EXCEPT ![t] = left[t] - 1]
                /\ at' = [at EXCEPT ![t] = "loop"] /\ UNCHANGED loaded
           ELSE loaded' = [loaded EXCEPT ![t] = sum] /\ UNCHANGED <<sum, left, at>>
    BY DEF Work!Exchange, Work!Expected, Work!Goto
  <1>2. /\ UNCHANGED <<program, body, phase, round, main>> /\ Resting'
        /\ LastPhase' = LastPhase /\ FillPhase' = FillPhase /\ at \in [Workers -> Positions]
        /\ Turns(t) = Loops - left[t] /\ left[t] \in 0 .. Loops /\ Turns(t) \in Nat
    BY <1>1, InLoop
  <1>3. left[t] > 0 /\ body \notin Lossy
    BY <1>1 DEF AddInv, Places, Lossy
  <1>4. CASE sum = loaded[t]
    <2>1. /\ at'[t] = "loop" /\ left'[t] = left[t] - 1 /\ sum' = sum + 1
          /\ \A u \in Workers \ {t} : at'[u] = at[u] /\ left'[u] = left[u] /\ local'[u] = local[u]
      BY <1>1, <1>2, <1>4 DEF AddInv, SumTypes
    <2>2. SumTypes'
      <3>1. left[t] - 1 \in 0 .. Loops /\ sum + 1 \in Nat
        BY <1>2, <1>3, ToolsAssumption DEF AddInv, SumTypes
      <3>2. QED
        BY <1>1, <1>2, <1>4, <3>1 DEF AddInv, SumTypes
    <2>3. Places'
      BY <1>1, <1>2, <1>4, <2>1 DEF AddInv, Places
    <2>4. Turns(t)' = Turns(t) + 1
      <3>1. Turns(t)' = Loops - left'[t]
        BY <2>1 DEF Turns
      <3>2. QED
        BY <1>2, <2>1, <3>1, ToolsAssumption
    <2>5. Share(t)' = Share(t) + 1
      BY <1>1, <1>2, <2>4 DEF Share
    <2>6. Filling'
      BY <1>1, <1>3, <2>1, <2>2, <2>5, GainAdds
    <2>7. QED
      BY <1>2, <2>2, <2>3, <2>6
  <1>5. CASE sum # loaded[t]
    <2>1. loaded' = [loaded EXCEPT ![t] = sum] /\ UNCHANGED <<sum, left, at, local>>
      BY <1>1, <1>5
    <2>2. SumTypes'
      BY <1>1, <1>2, <2>1 DEF AddInv, SumTypes
    <2>3. Places'
      BY <1>1, <1>2, <2>1 DEF AddInv, Places, SumTypes
    <2>4. Share(t)' = Share(t) + 0 /\ sum' = sum + 0
      <3>1. Share(t) \in Nat /\ sum \in Nat
        BY TurnsType DEF AddInv, SumTypes
      <3>2. Share(t)' = Share(t)
        BY <1>2, <2>1 DEF Share, Turns
      <3>3. QED
        BY <2>1, <3>1, <3>2
    <2>5. Filling'
      BY <1>1, <1>3, <2>1, <2>2, <2>4, GainAdds
    <2>6. QED
      BY <1>2, <2>2, <2>3, <2>5
  <1>6. QED
    BY <1>4, <1>5

LEMMA FetchAdds ==
  ASSUME AddInv, NEW t \in Workers, Work!FetchAdd(t) PROVE SumTypes' /\ Places' /\ Filling' /\ Resting'
  <1>1. /\ at[t] = "loop" /\ Work!More(t) /\ body \in {"atomic", "fetch"} /\ sum' = sum + Work!Addend(t)
        /\ left' = [left EXCEPT ![t] = left[t] - 1]
        /\ UNCHANGED Work!mainVars /\ UNCHANGED <<at, loaded, local, mtx>>
    BY DEF Work!FetchAdd
  <1>2. /\ UNCHANGED <<program, body, phase, round, main>> /\ Resting'
        /\ LastPhase' = LastPhase /\ FillPhase' = FillPhase /\ at \in [Workers -> Positions]
        /\ Turns(t) = Loops - left[t] /\ left[t] \in 0 .. Loops /\ Turns(t) \in Nat
    BY <1>1, InLoop
  <1>3. left[t] > 0 /\ body \notin Lossy
    BY <1>1, MoreLeft DEF Lossy
  <1>4. left'[t] = left[t] - 1 /\ \A u \in Workers \ {t} : left'[u] = left[u]
    BY <1>1 DEF AddInv, SumTypes
  <1>5. PICK d \in Nat : d = Work!Addend(t) /\ d = IF body = "fetch" THEN 1 ELSE Turns(t)
    BY <1>2 DEF Work!Addend
  <1>6. SumTypes'
    <2>1. left[t] - 1 \in 0 .. Loops /\ sum + d \in Nat
      BY <1>2, <1>3, ToolsAssumption DEF AddInv, SumTypes
    <2>2. QED
      BY <1>1, <1>2, <1>5, <2>1 DEF AddInv, SumTypes
  <1>7. Places'
    BY <1>1, <1>2, <1>4 DEF AddInv, Places
  <1>8. Turns(t)' = Turns(t) + 1
    <2>1. Turns(t)' = Loops - left'[t]
      BY <1>1 DEF Turns
    <2>2. QED
      BY <1>2, <1>4, <2>1, ToolsAssumption
  <1>9. Share(t)' = Share(t) + d
    <2>1. CASE body = "fetch"
      BY <1>2, <1>5, <1>8, <2>1 DEF Share
    <2>2. CASE body = "atomic"
      <3>1. Tri(Turns(t) + 1) = Tri(Turns(t)) + Turns(t)
        BY <1>2, TriStep
      <3>2. QED
        BY <1>2, <1>5, <1>8, <2>2, <3>1 DEF Share
    <2>3. QED
      BY <1>1, <2>1, <2>2
  <1>10. Filling'
    BY <1>1, <1>3, <1>4, <1>5, <1>6, <1>9, GainAdds
  <1>11. QED
    BY <1>2, <1>6, <1>7, <1>10

LEMMA LocalAdds ==
  ASSUME AddInv, NEW t \in Workers, Work!AddLocal(t) PROVE SumTypes' /\ Places' /\ Filling' /\ Resting'
  <1>1. /\ at[t] = "loop" /\ Work!More(t) /\ body = "local" /\ sum' = sum
        /\ local' = [local EXCEPT ![t] = local[t] + Work!Addend(t)] /\ left' = [left EXCEPT ![t] = left[t] - 1]
        /\ UNCHANGED Work!mainVars /\ UNCHANGED <<at, loaded, mtx>>
    BY DEF Work!AddLocal
  <1>2. /\ UNCHANGED <<program, body, phase, round, main>> /\ Resting'
        /\ LastPhase' = LastPhase /\ FillPhase' = FillPhase /\ at \in [Workers -> Positions]
        /\ Turns(t) = Loops - left[t] /\ left[t] \in 0 .. Loops /\ Turns(t) \in Nat
    BY <1>1, InLoop
  <1>3. left[t] > 0 /\ body \notin Lossy
    BY <1>1, MoreLeft DEF Lossy
  <1>4. Work!Addend(t) = Turns(t)
    BY <1>1, <1>2 DEF Work!Addend
  <1>5. /\ left'[t] = left[t] - 1 /\ local'[t] = local[t] + Turns(t) /\ local[t] = Tri(Turns(t))
        /\ \A u \in Workers \ {t} : left'[u] = left[u] /\ local'[u] = local[u]
    BY <1>1, <1>2, <1>4 DEF AddInv, SumTypes, Places
  <1>6. SumTypes'
    <2>1. left[t] - 1 \in 0 .. Loops /\ local[t] + Turns(t) \in Nat
      BY <1>2, <1>3, ToolsAssumption DEF AddInv, SumTypes
    <2>2. QED
      BY <1>1, <1>2, <1>4, <2>1 DEF AddInv, SumTypes
  <1>7. local'[t] = Tri(Loops - left'[t])
    <2>1. Loops - left'[t] = Turns(t) + 1
      BY <1>2, <1>5, ToolsAssumption
    <2>2. QED
      BY <1>2, <1>5, <2>1, TriStep
  <1>8. Places'
    BY <1>1, <1>2, <1>5, <1>7 DEF AddInv, Places
  <1>9. Share(t)' = Share(t) + 0 /\ sum' = sum + 0
    <2>1. Share(t) = 0 /\ Share(t)' = 0 /\ sum \in Nat
      BY <1>1, <1>2 DEF AddInv, SumTypes, Share
    <2>2. QED
      BY <1>1, <2>1
  <1>10. Filling'
    BY <1>1, <1>3, <1>5, <1>6, <1>9, GainAdds
  <1>11. QED
    BY <1>2, <1>6, <1>8, <1>10

LEMMA LockAdds ==
  ASSUME AddInv, NEW t \in Workers, Work!Lock(t) PROVE SumTypes' /\ Places' /\ Filling' /\ Resting'
  <1>1. /\ \/ at[t] = "loop" /\ Work!More(t) /\ body \in {"mutex", "emplace", "churn"}
           \/ at[t] = "add"
        /\ mtx = NoThread /\ mtx' = t /\ loaded' = [loaded EXCEPT ![t] = sum]
        /\ at' = [at EXCEPT ![t] = "locked"]
        /\ UNCHANGED Work!mainVars /\ UNCHANGED <<left, local, sum>>
    BY DEF Work!Lock, Work!Goto
  <1>2. /\ UNCHANGED <<program, body, phase, round, main>> /\ Resting' /\ main \notin {"phase", "ended"}
        /\ LastPhase' = LastPhase /\ FillPhase' = FillPhase /\ at \in [Workers -> Positions]
    BY <1>1, InLoop
  <1>3. /\ body \in {"mutex", "emplace", "churn", "local"}
        /\ body \in {"mutex", "emplace"} => left[t] > 0
        /\ body = "local" => left[t] = 0
    BY <1>1, MoreLeft DEF AddInv, Places
  <1>4. /\ at'[t] = "locked" /\ loaded'[t] = sum
        /\ \A u \in Workers \ {t} : at'[u] = at[u] /\ loaded'[u] = loaded[u]
    BY <1>1, <1>2 DEF AddInv, SumTypes
  <1>5. SumTypes'
    BY <1>1, <1>2 DEF AddInv, SumTypes
  <1>6. \A u \in Workers : at[u] # "locked"
    BY <1>1, ToolsAssumption DEF AddInv, Places
  <1>7. Places'
    BY <1>1, <1>2, <1>3, <1>4, <1>6 DEF AddInv, Places
  <1>8. Share(t)' = Share(t) + 0 /\ sum' = sum + 0
    <2>1. Share(t) \in Nat /\ sum \in Nat
      BY TurnsType DEF AddInv, SumTypes
    <2>2. Share(t)' = Share(t)
      BY <1>1, <1>2, <1>4 DEF Share, Turns
    <2>3. QED
      BY <1>1, <2>1, <2>2
  <1>9. body \notin Lossy
    BY <1>3 DEF Lossy
  <1>10. Filling'
    BY <1>1, <1>4, <1>5, <1>8, <1>9, GainAdds
  <1>11. QED
    BY <1>2, <1>5, <1>7, <1>10

LEMMA UnlockAdds ==
  ASSUME AddInv, NEW t \in Workers, Work!Unlock(t) PROVE SumTypes' /\ Places' /\ Filling' /\ Resting'
  <1>1. /\ at[t] = "locked" /\ mtx' = NoThread /\ sum' = loaded[t] + Work!Gain(t)
        /\ left' = IF body \in {"local", "churn"} THEN left ELSE [left EXCEPT ![t] = left[t] - 1]
        /\ at' = [at EXCEPT ![t] = IF body = "local" THEN "leave" ELSE "loop"]
        /\ UNCHANGED Work!mainVars /\ UNCHANGED <<loaded, local>>
    BY DEF Work!Unlock, Work!Goto
  <1>2. /\ UNCHANGED <<program, body, phase, round, main>> /\ Resting'
        /\ LastPhase' = LastPhase /\ FillPhase' = FillPhase /\ at \in [Workers -> Positions]
        /\ Turns(t) = Loops - left[t] /\ left[t] \in 0 .. Loops /\ Turns(t) \in Nat
    BY <1>1, InLoop
  <1>3. /\ loaded[t] = sum /\ body \in {"mutex", "emplace", "churn", "local"}
        /\ body \in {"mutex", "emplace"} => left[t] > 0
        /\ body = "local" => left[t] = 0 /\ local[t] = Tri(Loops - left[t])
        /\ \A u \in Workers \ {t} : at[u] # "locked"
    BY <1>1 DEF AddInv, Places
  <1>4. /\ at'[t] = (IF body = "local" THEN "leave" ELSE "loop")
        /\ left'[t] = IF body \in {"local", "churn"} THEN left[t] ELSE left[t] - 1
        /\ \A u \in Workers \ {t} : at'[u] = at[u] /\ left'[u] = left[u] /\ local'[u] = local[u]
    BY <1>1, <1>2 DEF AddInv, SumTypes
  <1>5. PICK d \in Nat : d = Work!Gain(t) /\ d = IF body = "local" THEN local[t] ELSE IF body = "churn" THEN 0 ELSE 1
    BY DEF Work!Gain, AddInv, SumTypes
  <1>6. sum' = sum + d
    BY <1>1, <1>3, <1>5
  <1>7. SumTypes'
    <2>1. body \notin {"local", "churn"} => left[t] - 1 \in 0 .. Loops
      BY <1>2, <1>3, ToolsAssumption
    <2>2. sum + d \in Nat
      BY DEF AddInv, SumTypes
    <2>3. left' \in [Workers -> 0 .. Loops]
      BY <1>1, <2>1 DEF AddInv, SumTypes
    <2>4. QED
      BY <1>1, <1>2, <1>6, <2>2, <2>3 DEF AddInv, SumTypes
  <1>8. Places'
    BY <1>1, <1>2, <1>3, <1>4 DEF AddInv, Places
  <1>9. Share(t)' = Share(t) + d
    <2>1. CASE body = "local"
      <3>1. Share(t) = 0 /\ Share(t)' = local[t] /\ local[t] \in Nat
        BY <1>1, <1>2, <1>4, <2>1 DEF Share, AddInv, SumTypes
      <3>2. QED
        BY <1>5, <2>1, <3>1
    <2>2. CASE body = "churn"
      BY <1>2, <1>5, <2>2 DEF Share
    <2>3. CASE body \in {"mutex", "emplace"}
      <3>1. Turns(t)' = Loops - left'[t]
        BY <1>4, <2>3 DEF Turns
      <3>2. Turns(t)' = Turns(t) + 1
        BY <1>2, <1>4, <2>3, <3>1, ToolsAssumption
      <3>3. QED
        BY <1>2, <1>5, <2>3, <3>2 DEF Share
    <2>4. QED
      BY <1>3, <2>1, <2>2, <2>3
  <1>10. body \notin Lossy
    BY <1>3 DEF Lossy
  <1>11. Filling'
    BY <1>1, <1>4, <1>6, <1>7, <1>9, <1>10, GainAdds
  <1>12. QED
    BY <1>2, <1>7, <1>8, <1>11

\* Whatever the number of workers, loops and rounds, a measured function has
\* added everything when it returns, by whichever counting is meant to be right;
\* plain and split additions lose some, and leave at least two.
THEOREM SumsAddUp == ToolsSpec => []SumExact
  <1>1. ToolsInit => AddInv
    BY WorkInit, AddInit DEF ToolsInit, AddInv
  <1>2. AddInv /\ [ToolsNext]_toolsVars => AddInv'
    <2> SUFFICES ASSUME AddInv, Work!Next \/ UNCHANGED workersVars PROVE AddInv'
      BY DEF ToolsNext, toolsVars
    <2>1. CASE Work!UseVector \/ Work!Fill \/ Work!Spawned \/ Work!Stop \/ Work!Join
      BY <2>1, MainStep, UseVectorAdds, FillAdds, CallAdds, JoinAdds DEF AddInv
    <2>2. ASSUME NEW t \in Workers, Work!Spawn(t) PROVE AddInv'
      BY <2>2, SpawnStep, SpawnAdds DEF AddInv
    <2>3. ASSUME NEW t \in Workers, Work!Start(t) \/ Work!EndLoop(t) \/ Work!Leave(t) PROVE AddInv'
      BY <2>3, ArriveStep, ArriveAdds DEF AddInv
    <2>4. ASSUME NEW t \in Workers,
                 \/ Work!Load(t) \/ Work!Store(t) \/ Work!Exchange(t) \/ Work!FetchAdd(t) \/ Work!AddLocal(t)
                 \/ Work!Lock(t) \/ Work!Unlock(t)
          PROVE  AddInv'
      <3>1. WorkInv'
        BY <2>4, LoopStep DEF AddInv
      <3>2. SumTypes' /\ Places' /\ Filling' /\ Resting'
        BY <2>4, LoadAdds, StoreAdds, ExchangeAdds, FetchAdds, LocalAdds, LockAdds, UnlockAdds
      <3>3. QED
        BY <3>1, <3>2 DEF AddInv
    <2>5. CASE UNCHANGED workersVars
      <3>1. UNCHANGED <<program, body, phase, round, main, failed, at, left, loaded, local, mtx, sum>>
        BY <2>5 DEF workersVars
      <3>2. WorkInv' /\ SumTypes' /\ Places' /\ Resting'
        BY <3>1 DEF AddInv, WorkInv, WorkTypes, Together, Started, SumTypes, LastPhase, FillPhase, Places, Resting
      <3>3. \A u \in Workers : Turns(u)' = Turns(u) /\ Share(u)' = Share(u)
        BY <3>1 DEF Turns, Share
      <3>4. Base' = Base /\ Low' = Low /\ Shares' = Shares
        BY <3>1, <3>3, FrameKeeps, SharesSame
      <3>5. Filling'
        BY <3>1, <3>3, <3>4 DEF AddInv, Filling, Bounds
      <3>6. QED
        BY <3>2, <3>5 DEF AddInv
    <2>6. QED
      BY <2>1, <2>2, <2>3, <2>4, <2>5 DEF Work!Next, Work!Finished, Work!vars, Work!mainVars, Work!workerVars, workersVars
  <1>3. AddInv => SumExact
    <2> SUFFICES ASSUME AddInv PROVE SumExact
      OBVIOUS
    <2>1. /\ Len(Work!Phases) = LastPhase /\ FillPhase \in 1 .. LastPhase /\ LastPhase \in Nat
          /\ phase \in 1 .. LastPhase /\ round \in Nat \ {0}
          /\ \A i \in 1 .. LastPhase : Work!Phases[i] = "fill" <=> i = FillPhase
      BY PhaseFacts DEF AddInv, SumTypes
    <2>2. ASSUME main = "phase", Work!Phases[phase] = "read" PROVE sum >= Work!VecSize
      <3>1. CASE program = "emplace"
        <4>1. phase \in {3, 5}
          BY <2>1, <2>2, <3>1, PhaseFacts DEF AddInv, LastPhase, FillPhase
        <4>2. sum = 2 \/ sum = 2 + Work!Total
          BY <2>2, <3>1, <4>1, Totals DEF AddInv, Resting
        <4>3. QED
          BY <4>2, Totals
      <3>2. CASE program = "churn"
        <4>1. phase = 4
          BY <2>1, <2>2, <3>2, PhaseFacts DEF AddInv, LastPhase, FillPhase
        <4>2. QED
          BY <2>2, <3>2, <4>1, Totals DEF AddInv, Resting
      <3>3. CASE program = "timed"
        <4>1. phase \in {3, 8}
          BY <2>1, <2>2, <3>3, PhaseFacts DEF AddInv, LastPhase, FillPhase
        <4>2. QED
          BY <2>2, <3>3, <4>1, Totals DEF AddInv, Resting
      <3>4. CASE program = "sum"
        BY <2>1, <2>2, <3>4 DEF LastPhase, FillPhase
      <3>5. QED
        BY <3>1, <3>2, <3>3, <3>4 DEF AddInv, SumTypes
    <2>3. ASSUME Work!Filled
          PROVE  /\ \A t \in Workers : at[t] = "done"
                 /\ body = "plain" => sum \in Work!AtLeast .. Work!Total
                 /\ body = "static" => sum \in Work!AtLeast * (round - 1) .. Work!Total * (round - 1)
                 /\ body \in {"cas", "fetch", "mutex"} => sum = Work!Total * (round - 1)
                 /\ body \in {"atomic", "local"} => sum = Work!Triangle
                 /\ body = "emplace" => sum = Work!VecSize + Work!Total
                 /\ body = "churn" => sum = Work!VecSize
      <3>1. main \in {"phase", "ended"}
        BY <2>3 DEF Work!Filled
      <3>2. FillPhase < phase \/ (FillPhase = LastPhase /\ phase = 1 /\ round > 1)
        <4>1. PICK i \in 1 .. LastPhase : Work!Phases[i] = "fill" /\ (i < phase \/ (i = LastPhase /\ phase = 1 /\ round > 1))
          BY <2>1, <2>3 DEF Work!Filled
        <4>2. i = FillPhase
          BY <2>1, <4>1
        <4>3. QED
          BY <4>1, <4>2
      <3>3. CASE program = "sum"
        <4>1. round > 1 /\ body \in SumBodies
          BY <2>1, <3>2, <3>3 DEF LastPhase, FillPhase, AddInv, SumTypes
        <4>2. QED
          BY <3>1, <3>3, <4>1 DEF AddInv, Resting, SumBodies
      <3>4. CASE program = "emplace"
        <4>1. LastPhase = 5 /\ FillPhase = 4 /\ body = "emplace"
          BY <3>4 DEF LastPhase, FillPhase, AddInv, SumTypes
        <4>2. phase = 5
          BY <2>1, <3>2, <4>1
        <4>3. QED
          BY <3>1, <3>4, <4>1, <4>2 DEF AddInv, Resting
      <3>5. CASE program = "churn"
        <4>1. LastPhase = 5 /\ FillPhase = 3 /\ body = "churn"
          BY <3>5 DEF LastPhase, FillPhase, AddInv, SumTypes
        <4>2. phase \in {4, 5}
          BY <2>1, <3>2, <4>1
        <4>3. QED
          BY <3>1, <3>5, <4>1, <4>2 DEF AddInv, Resting
      <3>6. CASE program = "timed"
        <4>1. LastPhase = 9 /\ FillPhase = 7 /\ body = "churn"
          BY <3>6 DEF LastPhase, FillPhase, AddInv, SumTypes
        <4>2. phase \in {8, 9}
          BY <2>1, <3>2, <4>1
        <4>3. QED
          BY <3>1, <3>6, <4>1, <4>2 DEF AddInv, Resting
      <3>7. QED
        BY <3>3, <3>4, <3>5, <3>6 DEF AddInv, SumTypes
    <2>4. body \in SumBodies \cup {"emplace", "churn"}
      BY DEF AddInv, SumTypes, SumBodies
    <2>5. QED
      BY <2>2, <2>3, <2>4 DEF SumExact, Work!SumExact, SumBodies
  <1>4. QED
    BY <1>1, <1>2, <1>3, PTL DEF ToolsSpec

-----------------------------------------------------------------------------
(***************************************************************************)
(* EnumScan: any interval and any set of enumerators.                      *)
(***************************************************************************)

\* The instance counts as this module does.
LEMMA SameCardinality == \A S : Scan!Cardinality(S) = Cardinality(S)
  BY DEF Cardinality, Scan!Cardinality, IsFiniteSet, Scan!IsFiniteSet

\* The enumerators among the values visited so far.
Visited(e, v, n) == {x \in e : v <= x /\ x < v + n}

ScanInv ==
  /\ vmin \in Int /\ vmax \in Int /\ enumerators \subseteq Int
  /\ index \in Nat /\ index <= Scan!Length
  /\ IsFiniteSet(Visited(enumerators, vmin, index))
  /\ counted = Cardinality(Visited(enumerators, vmin, index))

LEMMA NothingVisited ==
  ASSUME NEW e, e \subseteq Int, NEW v \in Int
  PROVE  IsFiniteSet(Visited(e, v, 0)) /\ Cardinality(Visited(e, v, 0)) = 0
  <1>1. \A x \in e : ~(v <= x /\ x < v + 0)
    OBVIOUS
  <1>2. Visited(e, v, 0) = {}
    BY <1>1, Zenon DEF Visited
  <1>3. QED
    BY <1>2, FS_EmptySet

\* One more value is visited, which is an enumerator or not.
LEMMA OneMoreVisited ==
  ASSUME NEW e, e \subseteq Int, NEW v \in Int, NEW n \in Nat, IsFiniteSet(Visited(e, v, n))
  PROVE  /\ IsFiniteSet(Visited(e, v, n + 1))
         /\ Cardinality(Visited(e, v, n + 1)) = Cardinality(Visited(e, v, n)) + IF v + n \in e THEN 1 ELSE 0
  <1>1. CASE v + n \in e
    <2>0. /\ \A x \in e : v <= x /\ x < v + (n + 1) <=> (v <= x /\ x < v + n) \/ x = v + n
          /\ ~(v + n < v + n)
      OBVIOUS
    <2>1. Visited(e, v, n + 1) = Visited(e, v, n) \cup {v + n} /\ v + n \notin Visited(e, v, n)
      BY <1>1, <2>0, Zenon DEF Visited
    <2>2. PICK s, x : s = Visited(e, v, n) /\ x = v + n
      OBVIOUS
    <2>3. IsFiniteSet(s \cup {x}) /\ Cardinality(s \cup {x}) = Cardinality(s) + 1
      BY <2>1, <2>2, FS_AddElement
    <2>4. QED
      BY <1>1, <2>1, <2>2, <2>3
  <1>2. CASE v + n \notin e
    <2>0. \A x \in e : v <= x /\ x < v + (n + 1) <=> v <= x /\ x < v + n
      BY <1>2
    <2>1. Visited(e, v, n + 1) = Visited(e, v, n)
      BY <2>0, Zenon DEF Visited
    <2>2. Cardinality(Visited(e, v, n)) \in Nat
      BY FS_CardinalityType
    <2>3. QED
      BY <1>2, <2>1, <2>2
  <1>3. QED
    BY <1>1, <1>2

LEMMA ScanInit ==
  ASSUME ToolsInit PROVE ScanInv
  <1>1. /\ vmin \in Int /\ vmax \in Int /\ index = 0 /\ counted = 0
        /\ enumerators \subseteq Limits \cup {vmin + Scan!Length - 1}
    <2>1. CASE Scan!Init
      BY <2>1, ToolsAssumption DEF Scan!Init
    <2>2. CASE vmin = 0 /\ vmax = 0 /\ enumerators = {} /\ index = 0 /\ counted = 0
      BY <2>2
    <2>3. QED
      BY <2>1, <2>2 DEF ToolsInit
  <1>2. Scan!Length \in Nat
    BY <1>1 DEF Scan!Length, Scan!Abs
  <1>3. enumerators \subseteq Int
    BY <1>1, <1>2, ToolsAssumption
  <1>4. IsFiniteSet(Visited(enumerators, vmin, 0)) /\ Cardinality(Visited(enumerators, vmin, 0)) = 0
    BY <1>1, <1>3, NothingVisited
  <1>5. index \in Nat /\ index <= Scan!Length
    BY <1>1, <1>2
  <1>6. QED
    BY <1>1, <1>3, <1>4, <1>5 DEF ScanInv

\* For an interval around zero the index sequence has as many members as the
\* interval; the result is the number of enumerators there.
THEOREM IntervalsAroundZero == ToolsSpec => []ScansAroundZero
  <1>1. ToolsInit => ScanInv
    BY ScanInit
  <1>2. ScanInv /\ [ToolsNext]_toolsVars => ScanInv'
    <2> SUFFICES ASSUME ScanInv, Scan!Next \/ UNCHANGED scanVars PROVE ScanInv'
      BY DEF ToolsNext, toolsVars
    <2>1. CASE Scan!CountValid
      <3>1. /\ index < Scan!Length /\ index' = index + 1 /\ UNCHANGED <<vmin, vmax, enumerators>>
            /\ counted' = counted + IF vmin + index \in enumerators THEN 1 ELSE 0
        BY <2>1 DEF Scan!CountValid
      <3>2. Scan!Length \in Int /\ Scan!Length' = Scan!Length
        BY <3>1 DEF ScanInv, Scan!Length, Scan!Abs
      <3>3. /\ IsFiniteSet(Visited(enumerators, vmin, index + 1))
            /\ Cardinality(Visited(enumerators, vmin, index + 1)) =
                 Cardinality(Visited(enumerators, vmin, index)) + IF vmin + index \in enumerators THEN 1 ELSE 0
        BY OneMoreVisited DEF ScanInv
      <3>4. Visited(enumerators, vmin, index)' = Visited(enumerators, vmin, index + 1)
        BY <3>1 DEF Visited
      <3>5. IsFiniteSet(Visited(enumerators, vmin, index)') /\ counted' = Cardinality(Visited(enumerators, vmin, index)')
        BY <3>1, <3>3, <3>4 DEF ScanInv
      <3>6. QED
        BY <3>1, <3>2, <3>5 DEF ScanInv
    <2>2. CASE UNCHANGED scanVars
      BY <2>2 DEF scanVars, ScanInv, Scan!Length, Visited
    <2>3. QED
      BY <2>1, <2>2 DEF Scan!Next, Scan!Finished, Scan!vars, scanVars
  <1>3. ScanInv => ScansAroundZero
    <2> SUFFICES ASSUME ScanInv, vmin <= 0, 0 <= vmax, index >= Scan!Length
                 PROVE  counted = Cardinality(Scan!InInterval)
      BY SameCardinality DEF ScansAroundZero, Scan!ScansAroundZero, Scan!ScansInterval
    <2>1. Scan!Length = vmax - vmin
      BY DEF ScanInv, Scan!Length, Scan!Abs
    <2>2. index = vmax - vmin
      BY <2>1 DEF ScanInv
    <2>3. vmin + index = vmax
      BY <2>2 DEF ScanInv
    <2>4. Visited(enumerators, vmin, index) = Scan!InInterval
      BY <2>3 DEF ScanInv, Visited, Scan!InInterval
    <2>5. QED
      BY <2>4 DEF ScanInv
  <1>4. QED
    BY <1>1, <1>2, <1>3, PTL DEF ToolsSpec

-----------------------------------------------------------------------------
(***************************************************************************)
(* Chrono: any accumulators, measurements and times.                       *)
(***************************************************************************)

LEMMA TimeSum == \A f : Time!SumFunction(f) = SumFunctionOnSet(f, DOMAIN f)
  BY DEF Time!SumFunction, Time!SumFunctionOnSet, Time!FoldFunctionOnSet, Time!MapThenFoldSet,
         SumFunctionOnSet, FoldFunctionOnSet, MapThenFoldSet

LEMMA TimeCardinality == \A S : Time!Cardinality(S) = Cardinality(S)
  BY DEF Cardinality, Time!Cardinality, IsFiniteSet, Time!IsFiniteSet

\* The accumulators there are, and the measurements, each of which has captured
\* one of them.
TimeTypes ==
  /\ now \in Nat
  /\ elapsed \in [DOMAIN elapsed -> Int] /\ inside \in [DOMAIN elapsed -> Int]
  /\ found \in [DOMAIN elapsed -> Int] /\ extra \in [DOMAIN elapsed -> Int]
  /\ IsFiniteSet(DOMAIN to) /\ start \in [DOMAIN to -> Int] /\ to \in [DOMAIN to -> DOMAIN elapsed]

\* A sum, what its open measurements have run, and where both come from.
Exact ==
  \A a \in DOMAIN elapsed : elapsed[a] + SumOver(now, start, Time!Of(a)) = found[a] + extra[a] + inside[a]

TimeInv == TimeTypes /\ Exact

LEMMA TimeInit == Time!Init => TimeInv
  <1> SUFFICES ASSUME Time!Init PROVE TimeInv
    OBVIOUS
  <1>1. now = 0 /\ elapsed = << >> /\ start = << >> /\ to = << >> /\ inside = << >>
        /\ found = << >> /\ extra = << >>
    BY DEF Time!Init
  <1>2. DOMAIN << >> = {} /\ << >> \in [{} -> Int] /\ << >> \in [{} -> {}]
    OBVIOUS
  <1>3. QED
    BY <1>1, <1>2, FS_EmptySet DEF TimeInv, TimeTypes, Exact

LEMMA OfTypes ==
  ASSUME TimeTypes, NEW a
  PROVE  /\ IsFiniteSet(Time!Of(a)) /\ Time!Of(a) \subseteq DOMAIN to
         /\ \A m \in Time!Of(a) : start[m] \in Int
         /\ SumOver(now, start, Time!Of(a)) \in Int
         /\ a \notin DOMAIN elapsed => Time!Of(a) = {}
  <1>1. Time!Of(a) \subseteq DOMAIN to
    BY DEF Time!Of
  <1>2. IsFiniteSet(Time!Of(a)) /\ \A m \in Time!Of(a) : start[m] \in Int
    BY <1>1, FS_Subset DEF TimeTypes
  <1>3. SumOver(now, start, Time!Of(a)) \in Int
    BY <1>2, OverType DEF TimeTypes
  <1>4. QED
    BY <1>1, <1>2, <1>3 DEF TimeTypes, Time!Of

LEMMA TickStep ==
  ASSUME TimeInv, Time!Tick
  PROVE  TimeInv'
  <1>1. /\ now' = now + 1 /\ UNCHANGED <<elapsed, start, to, found, extra>>
        /\ inside' = [a \in DOMAIN inside |-> inside[a] + Cardinality(Time!Of(a))]
    BY TimeCardinality DEF Time!Tick
  <1>2. \A a : Cardinality(Time!Of(a)) \in Nat
    BY OfTypes, FS_CardinalityType DEF TimeInv
  <1>3. TimeTypes'
    BY <1>1, <1>2 DEF TimeInv, TimeTypes
  <1>4. ASSUME NEW a \in DOMAIN elapsed
        PROVE  elapsed[a] + SumOver(now + 1, start, Time!Of(a)) = found[a] + extra[a] + inside'[a]
    <2>1. SumOver(now + 1, start, Time!Of(a)) = SumOver(now, start, Time!Of(a)) + Cardinality(Time!Of(a))
      BY OfTypes, OverTick DEF TimeInv, TimeTypes
    <2>2. elapsed[a] + SumOver(now, start, Time!Of(a)) = found[a] + extra[a] + inside[a]
      BY DEF TimeInv, Exact
    <2>3. /\ elapsed[a] \in Int /\ found[a] \in Int /\ extra[a] \in Int /\ inside[a] \in Int
          /\ SumOver(now, start, Time!Of(a)) \in Int /\ Cardinality(Time!Of(a)) \in Int
      BY <1>2, OfTypes DEF TimeInv, TimeTypes
    <2>4. inside'[a] = inside[a] + Cardinality(Time!Of(a))
      BY <1>1 DEF TimeInv, TimeTypes
    <2>5. QED
      BY <2>1, <2>2, <2>3, <2>4
  <1>5. \A a : Time!Of(a)' = Time!Of(a)
    BY <1>1 DEF Time!Of
  <1>6. Exact'
    BY <1>1, <1>4, <1>5 DEF Exact
  <1>7. QED
    BY <1>3, <1>6 DEF TimeInv

\* A new accumulator has no measurements.
LEMMA NewAccumulatorStep ==
  ASSUME TimeInv, NEW b, Time!MakeAccumulator(b) \/ \E a : Time!CopyAccumulator(a, b)
  PROVE  TimeInv'
  <1>1. PICK v \in Int, f \in Int, x \in Int :
          /\ elapsed' = Time!With(elapsed, b, v) /\ found' = Time!With(found, b, f)
          /\ extra' = Time!With(extra, b, x) /\ inside' = Time!With(inside, b, 0) /\ f + x = v
          /\ b \notin DOMAIN elapsed /\ UNCHANGED <<now, start, to>>
    <2>1. CASE Time!MakeAccumulator(b)
      <3>1. PICK v \in Memory : elapsed' = Time!With(elapsed, b, v) /\ found' = Time!With(found, b, v)
        BY <2>1 DEF Time!MakeAccumulator
      <3>2. v \in Int /\ v + 0 = v
        BY ToolsAssumption
      <3>3. QED
        BY <2>1, <3>1, <3>2 DEF Time!MakeAccumulator
    <2>2. CASE \E a : Time!CopyAccumulator(a, b)
      <3>0. PICK a : Time!CopyAccumulator(a, b)
        BY <2>2
      <3>1. elapsed[a] \in Int /\ 0 + elapsed[a] = elapsed[a]
        BY <3>0 DEF Time!CopyAccumulator, TimeInv, TimeTypes
      <3>2. QED
        BY <3>0, <3>1 DEF Time!CopyAccumulator
    <2>3. QED
      BY <2>1, <2>2
  <1>2. /\ elapsed' \in [DOMAIN elapsed \cup {b} -> Int] /\ found' \in [DOMAIN elapsed \cup {b} -> Int]
        /\ extra' \in [DOMAIN elapsed \cup {b} -> Int] /\ inside' \in [DOMAIN elapsed \cup {b} -> Int]
        /\ elapsed'[b] = v /\ found'[b] = f /\ extra'[b] = x /\ inside'[b] = 0
        /\ \A a \in DOMAIN elapsed : /\ elapsed'[a] = elapsed[a] /\ found'[a] = found[a]
                                    /\ extra'[a] = extra[a] /\ inside'[a] = inside[a]
    BY <1>1 DEF Time!With, TimeInv, TimeTypes
  <1>3. TimeTypes'
    <2>1. DOMAIN elapsed' = DOMAIN elapsed \cup {b}
      BY <1>2
    <2>2. QED
      BY <1>1, <1>2, <2>1 DEF TimeInv, TimeTypes
  <1>4. SumOver(now, start, Time!Of(b)) = 0
    BY <1>1, OfTypes, OverNone DEF TimeInv
  <1>5. ASSUME NEW a \in DOMAIN elapsed \cup {b}
        PROVE  elapsed'[a] + SumOver(now, start, Time!Of(a)) = found'[a] + extra'[a] + inside'[a]
    <2>1. CASE a = b
      BY <1>1, <1>2, <1>4, <2>1
    <2>2. CASE a # b
      <3>1. elapsed[a] + SumOver(now, start, Time!Of(a)) = found[a] + extra[a] + inside[a]
        BY <2>2 DEF TimeInv, Exact
      <3>2. QED
        BY <1>2, <2>2, <3>1
    <2>3. QED
      BY <2>1, <2>2
  <1>6. \A a : Time!Of(a)' = Time!Of(a)
    BY <1>1 DEF Time!Of
  <1>7. Exact'
    BY <1>1, <1>2, <1>5, <1>6 DEF Exact
  <1>8. QED
    BY <1>3, <1>7 DEF TimeInv

LEMMA DestroyAccumulatorStep ==
  ASSUME TimeInv, NEW b, Time!DestroyAccumulator(b)
  PROVE  TimeInv'
  <1>1. /\ elapsed' = Time!Without(elapsed, b) /\ found' = Time!Without(found, b)
        /\ extra' = Time!Without(extra, b) /\ inside' = Time!Without(inside, b) /\ Time!Of(b) = {}
        /\ UNCHANGED <<now, start, to>>
    BY DEF Time!DestroyAccumulator
  <1>2. /\ elapsed' \in [DOMAIN elapsed \ {b} -> Int] /\ found' \in [DOMAIN elapsed \ {b} -> Int]
        /\ extra' \in [DOMAIN elapsed \ {b} -> Int] /\ inside' \in [DOMAIN elapsed \ {b} -> Int]
        /\ \A a \in DOMAIN elapsed \ {b} : /\ elapsed'[a] = elapsed[a] /\ found'[a] = found[a]
                                        /\ extra'[a] = extra[a] /\ inside'[a] = inside[a]
    BY <1>1 DEF Time!Without, TimeInv, TimeTypes
  <1>3. TimeTypes'
    <2>1. DOMAIN elapsed' = DOMAIN elapsed \ {b}
      BY <1>2
    <2>2. to \in [DOMAIN to -> DOMAIN elapsed \ {b}]
      BY <1>1 DEF TimeInv, TimeTypes, Time!Of
    <2>3. QED
      BY <1>1, <1>2, <2>1, <2>2 DEF TimeInv, TimeTypes
  <1>4. \A a : Time!Of(a)' = Time!Of(a)
    BY <1>1 DEF Time!Of
  <1>5. Exact'
    BY <1>1, <1>2, <1>4 DEF TimeInv, Exact
  <1>6. QED
    BY <1>3, <1>5 DEF TimeInv

\* A measurement has run for no time when it is made, and one that is moved to
\* for as long as the one it comes from.
LEMMA NewMeasureStep ==
  ASSUME TimeInv, NEW n, (\E a : Time!Measure(a, n)) \/ \E m : Time!MoveMeasure(m, n)
  PROVE  TimeInv'
  <1>1. PICK a \in DOMAIN elapsed, s \in Int :
          /\ n \notin DOMAIN to /\ start' = Time!With(start, n, s) /\ to' = Time!With(to, n, a)
          /\ inside' = [inside EXCEPT ![a] = @ + (now - s)]
          /\ UNCHANGED <<now, elapsed, found, extra>>
    <2>1. ASSUME NEW a, Time!Measure(a, n) PROVE a \in DOMAIN elapsed /\ inside = [inside EXCEPT ![a] = @ + (now - now)]
      BY <2>1 DEF Time!Measure, TimeInv, TimeTypes
    <2>2. CASE \E a : Time!Measure(a, n)
      BY <2>1, <2>2 DEF Time!Measure, TimeInv, TimeTypes
    <2>3. CASE \E m : Time!MoveMeasure(m, n)
      BY <2>3 DEF Time!MoveMeasure, TimeInv, TimeTypes
    <2>4. QED
      BY <2>2, <2>3
  <1>2. /\ to' \in [DOMAIN to \cup {n} -> DOMAIN elapsed] /\ start' \in [DOMAIN to \cup {n} -> Int]
        /\ start'[n] = s /\ to'[n] = a
        /\ \A m \in DOMAIN to : to'[m] = to[m] /\ start'[m] = start[m]
    BY <1>1 DEF Time!With, TimeInv, TimeTypes
  <1>3. IsFiniteSet(DOMAIN to \cup {n})
    BY FS_AddElement DEF TimeInv, TimeTypes
  <1>4. TimeTypes'
    <2>1. DOMAIN to' = DOMAIN to \cup {n}
      BY <1>2
    <2>2. QED
      BY <1>1, <1>2, <1>3, <2>1 DEF TimeInv, TimeTypes
  <1>5. Time!Of(a)' = Time!Of(a) \cup {n} /\ \A b : b # a => Time!Of(b)' = Time!Of(b)
    BY <1>2 DEF Time!Of
  <1>6. ASSUME NEW b PROVE SumOver(now, start', Time!Of(b)) = SumOver(now, start, Time!Of(b))
    <2>1. \A m \in Time!Of(b) : now - start'[m] = now - start[m]
      BY <1>2, OfTypes DEF TimeInv
    <2>2. IsFiniteSet(Time!Of(b))
      BY OfTypes DEF TimeInv
    <2>3. PICK u : u = start'
      OBVIOUS
    <2>4. SumOver(now, u, Time!Of(b)) = SumOver(now, start, Time!Of(b))
      BY <2>1, <2>2, <2>3, OverSame
    <2>5. QED
      BY <2>3, <2>4
  <1>7. SumOver(now, start', Time!Of(a) \cup {n}) = (now - s) + SumOver(now, start, Time!Of(a))
    <2>1. PICK u, S, T : u = start' /\ S = Time!Of(a) \cup {n} /\ T = Time!Of(a)
      OBVIOUS
    <2>2. n \in S /\ S \ {n} = T
      BY <1>1, <2>1, OfTypes DEF TimeInv
    <2>3. IsFiniteSet(S) /\ \A m \in S : u[m] \in Int
      BY <1>2, <2>1, OfTypes, FS_AddElement DEF TimeInv
    <2>4. SumOver(now, u, S) = (now - u[n]) + SumOver(now, u, T)
      BY <2>2, <2>3, OverSplit DEF TimeInv, TimeTypes
    <2>5. u[n] = s /\ SumOver(now, u, T) = SumOver(now, start, T)
      BY <1>2, <1>6, <2>1
    <2>6. QED
      BY <2>1, <2>4, <2>5
  <1>8. inside' \in [DOMAIN elapsed -> Int] /\ inside'[a] = inside[a] + (now - s)
        /\ \A b : b \in DOMAIN elapsed /\ b # a => inside'[b] = inside[b]
    BY <1>1 DEF TimeInv, TimeTypes
  <1>9. Exact'
    <2>1. ASSUME NEW b \in DOMAIN elapsed
          PROVE  elapsed[b] + SumOver(now, start', Time!Of(b)') = found[b] + extra[b] + inside'[b]
      <3>1. /\ elapsed[b] + SumOver(now, start, Time!Of(b)) = found[b] + extra[b] + inside[b]
            /\ elapsed[b] \in Int /\ found[b] \in Int /\ extra[b] \in Int /\ inside[b] \in Int /\ now \in Int
            /\ SumOver(now, start, Time!Of(b)) \in Int
        BY OfTypes DEF TimeInv, TimeTypes, Exact
      <3>2. CASE b = a
        <4>1. SumOver(now, start', Time!Of(b)') = (now - s) + SumOver(now, start, Time!Of(b))
          BY <1>5, <1>7, <3>2
        <4>2. inside'[b] = inside[b] + (now - s)
          BY <1>8, <3>2
        <4>3. PICK S, v, e, f, x, k \in Int :
                /\ S = SumOver(now, start, Time!Of(b)) /\ v = inside[b] /\ e = elapsed[b]
                /\ f = found[b] /\ x = extra[b] /\ k = now
          BY <3>1
        <4>4. e + S = f + x + v
          BY <3>1, <4>3
        <4>5. e + ((k - s) + S) = f + x + (v + (k - s))
          BY <4>4
        <4>6. QED
          BY <4>1, <4>2, <4>3, <4>5
      <3>3. CASE b # a
        <4>1. SumOver(now, start', Time!Of(b)') = SumOver(now, start, Time!Of(b))
          BY <1>5, <1>6, <3>3
        <4>2. inside'[b] = inside[b]
          BY <1>8, <2>1, <3>3
        <4>3. QED
          BY <3>1, <4>1, <4>2
      <3>4. QED
        BY <3>2, <3>3
    <2>2. QED
      BY <1>1, <2>1 DEF Exact
  <1>10. QED
    BY <1>4, <1>9 DEF TimeInv

LEMMA PlusStep ==
  ASSUME TimeInv, NEW b, NEW dur, Time!Plus(b, dur)
  PROVE  TimeInv'
  <1>1. /\ b \in DOMAIN elapsed /\ elapsed' = [elapsed EXCEPT ![b] = elapsed[b] + dur]
        /\ extra' = [extra EXCEPT ![b] = @ + dur] /\ UNCHANGED <<now, start, to, found, inside>>
    BY DEF Time!Plus, Time!Added
  <1>2. dur \in Int
    BY DEF Time!Plus, Time!Durations, TimeInv, TimeTypes
  <1>3. TimeTypes'
    BY <1>1, <1>2 DEF TimeInv, TimeTypes
  <1>4. \A a : Time!Of(a)' = Time!Of(a)
    BY <1>1 DEF Time!Of
  <1>5. ASSUME NEW a \in DOMAIN elapsed
        PROVE  elapsed'[a] + SumOver(now, start, Time!Of(a)) = found[a] + extra'[a] + inside[a]
    <2>1. elapsed[a] + SumOver(now, start, Time!Of(a)) = found[a] + extra[a] + inside[a]
      BY DEF TimeInv, Exact
    <2>2. /\ elapsed[a] \in Int /\ found[a] \in Int /\ extra[a] \in Int /\ inside[a] \in Int /\ SumOver(now, start, Time!Of(a)) \in Int
      BY OfTypes DEF TimeInv, TimeTypes
    <2>3. CASE a = b
      <3>1. elapsed'[a] = elapsed[a] + dur /\ extra'[a] = extra[a] + dur
        BY <1>1, <2>3 DEF TimeInv, TimeTypes
      <3>2. QED
        BY <1>2, <2>1, <2>2, <3>1
    <2>4. CASE a # b
      BY <1>1, <2>1, <2>4 DEF TimeInv, TimeTypes
    <2>5. QED
      BY <2>3, <2>4
  <1>6. Exact'
    BY <1>1, <1>4, <1>5 DEF Exact
  <1>7. QED
    BY <1>3, <1>6 DEF TimeInv

\* What a measurement has lived goes over to its accumulator.
LEMMA EndStep ==
  ASSUME TimeInv, NEW n, Time!End(n)
  PROVE  TimeInv'
  <1>1. PICK b, dur : b = to[n] /\ dur = now - start[n]
    OBVIOUS
  <1>2. /\ n \in DOMAIN to /\ elapsed' = [elapsed EXCEPT ![b] = elapsed[b] + dur]
        /\ start' = Time!Without(start, n) /\ to' = Time!Without(to, n)
        /\ UNCHANGED <<now, found, extra, inside>>
    BY <1>1 DEF Time!End, Time!Added
  <1>3. b \in DOMAIN elapsed /\ dur \in Int
    BY <1>1, <1>2 DEF TimeInv, TimeTypes
  <1>4. /\ to' \in [DOMAIN to \ {n} -> DOMAIN elapsed] /\ start' \in [DOMAIN to \ {n} -> Int]
        /\ \A m \in DOMAIN to \ {n} : to'[m] = to[m] /\ start'[m] = start[m]
    BY <1>2 DEF Time!Without, TimeInv, TimeTypes
  <1>5. IsFiniteSet(DOMAIN to \ {n})
    BY FS_Subset DEF TimeInv, TimeTypes
  <1>6. TimeTypes'
    <2>1. DOMAIN to' = DOMAIN to \ {n}
      BY <1>4
    <2>2. elapsed' \in [DOMAIN elapsed -> Int] /\ DOMAIN elapsed' = DOMAIN elapsed
      BY <1>2, <1>3 DEF TimeInv, TimeTypes
    <2>3. QED
      BY <1>2, <1>4, <1>5, <2>1, <2>2 DEF TimeInv, TimeTypes
  <1>7. \A a : Time!Of(a)' = Time!Of(a) \ {n}
    BY <1>4 DEF Time!Of
  <1>8. ASSUME NEW a \in DOMAIN elapsed
        PROVE  elapsed'[a] + SumOver(now, start', Time!Of(a)') = found[a] + extra[a] + inside[a]
    <2>1. PICK u, S, T : u = start' /\ S = Time!Of(a) /\ T = Time!Of(a)'
      OBVIOUS
    <2>2. IsFiniteSet(S) /\ (\A m \in S : start[m] \in Int) /\ T = S \ {n}
      BY <1>7, <2>1, OfTypes DEF TimeInv
    <2>3. IsFiniteSet(T)
      BY <2>2, FS_Subset
    <2>4. SumOver(now, u, T) = SumOver(now, start, T)
      <3>1. \A m \in T : now - u[m] = now - start[m]
        BY <1>4, <2>1, <2>2, OfTypes DEF TimeInv
      <3>2. QED
        BY <2>3, <3>1, OverSame
    <2>5. elapsed[a] + SumOver(now, start, S) = found[a] + extra[a] + inside[a]
      BY <2>1 DEF TimeInv, Exact
    <2>6. /\ elapsed[a] \in Int /\ found[a] \in Int /\ extra[a] \in Int /\ inside[a] \in Int
          /\ SumOver(now, start, S) \in Int /\ SumOver(now, start, T) \in Int
      <3>1. SumOver(now, start, T) \in Int
        BY <2>2, <2>3, OverType DEF TimeInv, TimeTypes
      <3>2. QED
        BY <2>1, <3>1, OfTypes DEF TimeInv, TimeTypes
    <2>7. CASE a = b
      <3>1. n \in S
        BY <1>1, <1>2, <2>1, <2>7 DEF Time!Of
      <3>2. SumOver(now, start, S) = (now - start[n]) + SumOver(now, start, T)
        BY <2>2, <3>1, OverSplit DEF TimeInv, TimeTypes
      <3>3. SumOver(now, start, S) = dur + SumOver(now, start, T)
        BY <1>1, <3>2
      <3>4. elapsed'[a] = elapsed[a] + dur
        BY <1>2, <1>3, <2>7 DEF TimeInv, TimeTypes
      <3>5. elapsed'[a] + SumOver(now, start, T) = found[a] + extra[a] + inside[a]
        BY <1>3, <2>5, <2>6, <3>3, <3>4
      <3>6. QED
        BY <2>1, <2>4, <3>5
    <2>8. CASE a # b
      <3>1. T = S
        BY <1>1, <2>1, <2>2, <2>8 DEF Time!Of
      <3>2. elapsed'[a] = elapsed[a]
        BY <1>2, <2>8 DEF TimeInv, TimeTypes
      <3>3. QED
        BY <2>1, <2>4, <2>5, <3>1, <3>2
    <2>9. QED
      BY <2>7, <2>8
  <1>9. Exact'
    <2>1. DOMAIN elapsed' = DOMAIN elapsed
      BY <1>2, <1>3 DEF TimeInv, TimeTypes
    <2>2. QED
      BY <1>2, <1>8, <2>1 DEF Exact
  <1>10. QED
    BY <1>6, <1>9 DEF TimeInv

\* However measurements overlap, end and are moved, and whatever copies are made,
\* what is added to an accumulator's sum is what its measurements have run, each
\* object counted from its own start: the rest of the sum is what was in its
\* memory, the sum it is a copy of, and what the program added itself.
THEOREM LivesAddUp == ToolsSpec => []ElapsedExact
  <1>1. ToolsInit => TimeInv
    BY TimeInit DEF ToolsInit
  <1>2. TimeInv /\ [ToolsNext]_toolsVars => TimeInv'
    <2> SUFFICES ASSUME TimeInv, Time!Next \/ UNCHANGED chronoVars PROVE TimeInv'
      BY DEF ToolsNext, toolsVars
    <2>1. CASE Time!Tick
      BY <2>1, TickStep
    <2>2. ASSUME NEW b, Time!MakeAccumulator(b) \/ \E a : Time!CopyAccumulator(a, b) PROVE TimeInv'
      BY <2>2, NewAccumulatorStep
    <2>3. ASSUME NEW b, Time!DestroyAccumulator(b) PROVE TimeInv'
      BY <2>3, DestroyAccumulatorStep
    <2>4. ASSUME NEW n, (\E a : Time!Measure(a, n)) \/ \E m : Time!MoveMeasure(m, n) PROVE TimeInv'
      BY <2>4, NewMeasureStep
    <2>5. ASSUME NEW b, NEW dur, Time!Plus(b, dur) PROVE TimeInv'
      BY <2>5, PlusStep
    <2>6. ASSUME NEW n, Time!End(n) PROVE TimeInv'
      BY <2>6, EndStep
    <2>7. CASE UNCHANGED chronoVars
      BY <2>7 DEF chronoVars, TimeInv, TimeTypes, Exact, Time!Of
    <2>8. QED
      BY <2>1, <2>2, <2>3, <2>4, <2>5, <2>6, <2>7 DEF Time!Next, Time!Finished, Time!vars, chronoVars
  <1>3. TimeInv => ElapsedExact
    <2> SUFFICES ASSUME TimeInv, NEW a \in DOMAIN elapsed
                 PROVE  elapsed[a] + Time!SumFunction([m \in Time!Of(a) |-> now - start[m]]) = found[a] + extra[a] + inside[a]
      BY DEF ElapsedExact, Time!ElapsedExact, Time!RunningOf
    <2>1. PICK f : f = [m \in Time!Of(a) |-> now - start[m]]
      OBVIOUS
    <2>2. Time!SumFunction(f) = SumFunctionOnSet(f, DOMAIN f) /\ DOMAIN f = Time!Of(a)
      BY <2>1, TimeSum
    <2>3. Time!SumFunction(f) = SumOver(now, start, Time!Of(a))
      BY <2>1, <2>2 DEF SumOver
    <2>4. elapsed[a] + SumOver(now, start, Time!Of(a)) = found[a] + extra[a] + inside[a]
      BY DEF TimeInv, Exact
    <2>5. QED
      BY <2>1, <2>3, <2>4
  <1>4. QED
    BY <1>1, <1>2, <1>3, PTL DEF ToolsSpec

-----------------------------------------------------------------------------
(***************************************************************************)
(* CoroStack: any number of spawned and awaited tasks, schedulers and      *)
(* operations.                                                             *)
(***************************************************************************)

\* spawn_task()'s coroutines and the Async functions'.
Coroutines == Roots \cup Tasks

\* Types of the coroutine stacks.
CoroTypes ==
  /\ status \in [Coroutines -> {"none", "created", "running", "awaiting", "waiting", "done"}]
  /\ owner \in [Coroutines -> Coroutines \cup {Nobody}]
  /\ parent \in [Coroutines -> Coroutines \cup {Nobody}]
  /\ child \in [Coroutines -> Coroutines \cup {Nobody}]
  /\ handle \in [Coroutines -> Coroutines \cup {Nobody}]
  /\ sched \in [Coroutines -> Schedulers \cup {Nobody}]
  /\ toResume \in [Schedulers -> Coroutines \cup {Nobody}]
  /\ proc \in {"running", "asserted", "crashed"} /\ misused \in BOOLEAN

\* The tasks whose bodies have begun and not ended.
Begun == {c \in Tasks : status[c] \in {"running", "awaiting", "waiting"}}

\* Who awaits is linked both ways with the one task it awaits, which belongs to it.
Linked ==
  \A c \in Coroutines :
    /\ status[c] = "awaiting" <=> child[c] # Nobody
    /\ child[c] # Nobody => child[c] \in Begun /\ parent[child[c]] = c
    /\ c \in Begun =>
         /\ parent[c] \in Coroutines /\ child[parent[c]] = c
         /\ owner[c] = parent[c] /\ handle[c] = parent[c]

\* What has not begun or has ended holds nothing, a delivered root excepted.
Held ==
  \A c \in Coroutines :
    /\ status[c] = "none" => owner[c] = Nobody
    /\ status[c] \in {"none", "created"} => parent[c] = Nobody /\ sched[c] = Nobody
    /\ c \in Roots => status[c] # "waiting" /\ owner[c] = Nobody
    /\ owner[c] # Nobody => owner[c] \in Begun \/ (owner[c] \in Roots /\ status[owner[c]] # "none")

\* The stack ends: going up from begun tasks leaves any set of them.
Ends == \A S \in SUBSET Begun : S # {} => \E x \in S : parent[x] \notin S

\* A task that waits will read from the scheduler that wakes it, and what
\* spawn_task() awaits has a scheduler.
Waits ==
  /\ \A c \in Coroutines : status[c] = "waiting" => sched[c] \in Schedulers /\ toResume[sched[c]] = c
  /\ \A c \in Begun : parent[c] \in Roots => sched[c] # Nobody

\* Without misuse a scheduler wakes only who waits for it, and serves one stack,
\* which has one end.
Serves ==
  /\ \A s \in Schedulers : toResume[s] # Nobody => status[toResume[s]] = "waiting" /\ sched[toResume[s]] = s
  /\ \E due \in [Coroutines -> Schedulers \cup {Nobody}] :
       /\ \A c \in Begun : /\ parent[c] \in Tasks => due[c] = due[parent[c]]
                           /\ sched[c] # Nobody => sched[c] = due[c]
       /\ \A c, d \in Begun : due[c] = due[d] /\ child[c] = Nobody /\ child[d] = Nobody => c = d

\* The inductive invariant: the stacks hold as long as the process runs, and only
\* misuse ends it.
CoroInv ==
  /\ CoroTypes
  /\ proc = "running" => Linked /\ Held /\ Ends /\ Waits
  /\ ~misused => proc = "running" /\ Serves

\* The program starts without coroutines.
LEMMA CoroInit == Coro!Init => CoroInv
  <1> SUFFICES ASSUME Coro!Init PROVE CoroInv
    OBVIOUS
  <1>1. /\ \A c \in Coroutines : /\ status[c] = "none" /\ owner[c] = Nobody /\ parent[c] = Nobody
                                 /\ child[c] = Nobody /\ sched[c] = Nobody
        /\ \A s \in Schedulers : toResume[s] = Nobody
        /\ proc = "running"
    BY DEF Coro!Init, Coro!Coros, Coroutines
  <1>2. CoroTypes
    BY DEF Coro!Init, Coro!Coros, Coroutines, CoroTypes
  <1>3. Begun = {}
    BY <1>1 DEF Begun, Coroutines
  <1>4. Linked /\ Held /\ Ends /\ Waits
    BY <1>1, <1>3 DEF Linked, Held, Ends, Waits
  <1>5. Serves
    <2>1. [c \in Coroutines |-> Nobody] \in [Coroutines -> Schedulers \cup {Nobody}]
      OBVIOUS
    <2>2. QED
      BY <1>1, <1>3, <2>1 DEF Serves
  <1>6. QED
    BY <1>1, <1>2, <1>4, <1>5 DEF CoroInv

\* A frame's set is closed under holding, and the smallest such.
LEMMA FramesClosed ==
  ASSUME CoroTypes, NEW c \in Coroutines
  PROVE  /\ Coro!Frames(c) \subseteq Coroutines /\ \A x \in Coro!Frames(c) : status[x] # "none"
         /\ status[c] # "none" => c \in Coro!Frames(c)
         /\ \A x \in Coroutines : status[x] # "none" /\ owner[x] \in Coro!Frames(c) => x \in Coro!Frames(c)
  BY DEF Coro!Frames, Coro!Coros, Coroutines

\* Any set that is closed under holding contains the frames of its members.
LEMMA FramesWithin ==
  ASSUME NEW c, NEW S \in SUBSET Coroutines, c \in S, \A x \in Coroutines : owner[x] \in S => x \in S
  PROVE  Coro!Frames(c) \subseteq S
  BY DEF Coro!Frames, Coro!Coros, Coroutines

\* Apart from the first, a frame goes away with the one that holds it.
LEMMA FramesOwned ==
  ASSUME CoroTypes, NEW c \in Coroutines, NEW x \in Coro!Frames(c), x # c, owner[x] \in Coroutines,
         status[owner[x]] # "none"
  PROVE  owner[x] \in Coro!Frames(c)
  <1> DEFINE Closed(S) == c \in S /\ \A y \in Coroutines : owner[y] \in S => y \in S
  <1>1. \A S \in SUBSET Coroutines : Closed(S) => x \in S
    BY DEF Coro!Frames, Coro!Coros, Coroutines
  <1>2. ASSUME NEW S \in SUBSET Coroutines, Closed(S) PROVE owner[x] \in S
    <2>1. SUFFICES ASSUME owner[x] \notin S PROVE FALSE
      OBVIOUS
    <2>2. Closed(S \ {x}) /\ S \ {x} \in SUBSET Coroutines
      BY <1>2, <2>1
    <2>3. QED
      BY <1>1, <2>2
  <1>3. QED
    BY <1>2 DEF Coro!Frames, Coro!Coros, Coroutines

\* A promise that is made has no links yet.
LEMMA CreateKeeps ==
  ASSUME CoroInv, NEW d \in Tasks, NEW by \in Coroutines \cup {Nobody}, Coro!Create(d, by)
  PROVE  CoroInv'
  <1>1. /\ status[d] = "none" /\ status' = [status EXCEPT ![d] = "created"] /\ owner' = [owner EXCEPT ![d] = by]
        /\ UNCHANGED <<parent, child, handle, sched, toResume, proc, misused>>
        /\ proc = "running" /\ (by # Nobody => status[by] = "running")
    BY DEF Coro!Create, Coro!links, Coro!InMain, Coro!Run
  <1>2. CoroTypes /\ Linked /\ Held /\ Ends /\ Waits /\ d \in Coroutines
    BY <1>1 DEF CoroInv, Coroutines
  <1>3. CoroTypes'
    BY <1>1, <1>2 DEF CoroTypes
  <1>4. /\ status'[d] = "created" /\ owner'[d] = by
        /\ \A x \in Coroutines \ {d} : status'[x] = status[x] /\ owner'[x] = owner[x]
    BY <1>1, <1>2 DEF CoroTypes
  <1>5. Begun' = Begun /\ d \notin Begun
    BY <1>1, <1>4 DEF Begun, Coroutines
  <1>6. Linked'
    BY <1>1, <1>2, <1>4, <1>5 DEF Linked
  <1>7. Held'
    <2>1. by # Nobody => by \in Begun \/ (by \in Roots /\ status'[by] # "none")
      BY <1>1, <1>4 DEF Begun, Coroutines
    <2>2. d \notin Roots
      BY CoroAssumption
    <2>3. QED
      BY <1>1, <1>2, <1>4, <1>5, <2>1, <2>2, CoroAssumption DEF Held, Coroutines
  <1>8. Ends' /\ Waits'
    BY <1>1, <1>2, <1>4, <1>5 DEF Ends, Waits
  <1>9. ASSUME ~misused PROVE Serves'
    <2>1. Serves
      BY <1>9 DEF CoroInv
    <2>2. \A s \in Schedulers : toResume[s] # Nobody => toResume[s] # d /\ toResume[s] \in Coroutines
      BY <1>1, <1>2, <2>1 DEF Serves, CoroTypes
    <2>3. QED
      BY <1>1, <1>4, <1>5, <2>1, <2>2 DEF Serves
  <1>10. QED
    BY <1>1, <1>3, <1>6, <1>7, <1>8, <1>9 DEF CoroInv

\* A coroutine that awaits nothing awaits a task, which begins.
Awaits(c, d) ==
  /\ parent' = [parent EXCEPT ![d] = c] /\ child' = [child EXCEPT ![c] = d]
  /\ handle' = [handle EXCEPT ![d] = c] /\ owner' = [owner EXCEPT ![d] = c]
  /\ status' = [status EXCEPT ![c] = "awaiting", ![d] = "running"]

Awaited(c, d) ==
  /\ Begun' = Begun \cup {d} /\ d \notin Begun /\ child[c] = Nobody
  /\ parent'[d] = c /\ child'[d] = Nobody /\ child'[c] = d
  /\ \A x \in Begun : parent'[x] = parent[x] /\ parent[x] # c
  /\ status'[c] = "awaiting" /\ status'[d] = "running" /\ c # d
  /\ \A x \in Coroutines \ {c, d} : status'[x] = status[x] /\ child'[x] = child[x] /\ parent'[x] = parent[x]

\* Then the stack has grown by one at its end.
LEMMA AwaitLinks ==
  ASSUME CoroTypes, Linked, Held, Ends, NEW c \in Coroutines, NEW d \in Tasks, Awaits(c, d),
         status[c] = "running" \/ (status[c] = "none" /\ c \in Roots), status[d] \in {"created", "done"}
  PROVE  Awaited(c, d) /\ Linked' /\ Ends'
  <1>1. /\ c # d /\ d \in Coroutines
        /\ status'[c] = "awaiting" /\ status'[d] = "running" /\ parent'[d] = c /\ child'[c] = d /\ handle'[d] = c /\ owner'[d] = c
        /\ \A x \in Coroutines \ {c, d} : status'[x] = status[x]
        /\ \A x \in Coroutines \ {d} : parent'[x] = parent[x] /\ handle'[x] = handle[x] /\ owner'[x] = owner[x]
        /\ \A x \in Coroutines \ {c} : child'[x] = child[x]
    BY DEF CoroTypes, Coroutines, Awaits
  <1>2. Begun' = Begun \cup {d} /\ d \notin Begun
    <2>1. \A x \in Tasks : x \in Coroutines /\ (x \in Begun' <=> x \in Begun \/ x = d)
      <3>1. SUFFICES ASSUME NEW x \in Tasks PROVE x \in Coroutines /\ (x \in Begun' <=> x \in Begun \/ x = d)
        OBVIOUS
      <3>2. x \in Coroutines /\ x \notin Roots
        BY CoroAssumption DEF Coroutines
      <3>3. CASE x = c
        BY <1>1, <3>2, <3>3 DEF Begun
      <3>4. CASE x = d
        BY <1>1, <3>4 DEF Begun, Coroutines
      <3>5. CASE x \notin {c, d}
        BY <1>1, <3>2, <3>5 DEF Begun
      <3>6. QED
        BY <3>3, <3>4, <3>5
    <2>2. Begun' \subseteq Tasks /\ Begun \subseteq Tasks /\ d \notin Begun
      BY DEF Begun
    <2>3. QED
      BY <2>1, <2>2
  <1>3. child[c] = Nobody /\ child[d] = Nobody /\ \A x \in Begun : parent[x] # c /\ parent[x] # d /\ x \in Coroutines
    BY <1>1, CoroAssumption DEF Linked, Begun, Coroutines
  <1>4. Linked'
    <2>1. ASSUME NEW x \in Coroutines PROVE status'[x] = "awaiting" <=> child'[x] # Nobody
      <3>1. d # Nobody
        BY CoroAssumption
      <3>2. CASE x = c
        BY <1>1, <3>1, <3>2
      <3>3. CASE x = d
        <4>1. child'[d] = child[d] /\ child[d] = Nobody
          BY <1>1, <1>3
        <4>2. QED
          BY <1>1, <3>3, <4>1
      <3>4. CASE x \notin {c, d}
        <4>1. status'[x] = status[x] /\ child'[x] = child[x]
          BY <1>1, <3>4
        <4>2. status[x] = "awaiting" <=> child[x] # Nobody
          BY DEF Linked
        <4>3. QED
          BY <4>1, <4>2
      <3>5. QED
        BY <3>2, <3>3, <3>4
    <2>2. ASSUME NEW x \in Coroutines, child'[x] # Nobody PROVE child'[x] \in Begun' /\ parent'[child'[x]] = x
      <3>1. CASE x = c
        BY <1>1, <1>2, <3>1
      <3>2. CASE x # c
        <4>1. child'[x] = child[x] /\ child[x] \in Begun /\ parent[child[x]] = x
          BY <1>1, <2>2, <3>2 DEF Linked
        <4>2. QED
          BY <1>1, <1>2, <1>3, <4>1
      <3>3. QED
        BY <3>1, <3>2
    <2>3. ASSUME NEW x \in Begun'
          PROVE  parent'[x] \in Coroutines /\ child'[parent'[x]] = x /\ owner'[x] = parent'[x] /\ handle'[x] = parent'[x]
      <3>1. CASE x = d
        BY <1>1, <3>1
      <3>2. CASE x # d
        <4>1. x \in Begun /\ x \in Coroutines /\ parent[x] # c
          BY <1>2, <1>3, <2>3, <3>2
        <4>2. parent'[x] = parent[x] /\ handle'[x] = handle[x] /\ owner'[x] = owner[x]
          BY <1>1, <3>2, <4>1
        <4>3. parent[x] \in Coroutines /\ child[parent[x]] = x /\ owner[x] = parent[x] /\ handle[x] = parent[x]
          BY <4>1 DEF Linked
        <4>4. QED
          BY <1>1, <4>1, <4>2, <4>3
      <3>3. QED
        BY <3>1, <3>2
    <2>4. QED
      BY <2>1, <2>2, <2>3 DEF Linked
  <1>5. Ends'
    <2>1. SUFFICES ASSUME NEW S \in SUBSET Begun', S # {} PROVE \E x \in S : parent'[x] \notin S
      BY DEF Ends
    <2>2. CASE S \ {d} = {}
      BY <1>1, <2>1, <2>2
    <2>3. CASE S \ {d} # {}
      <3>1. PICK x \in S \ {d} : parent[x] \notin S \ {d}
        BY <1>2, <2>3 DEF Ends
      <3>2. x \in Begun
        BY <1>2, <3>1
      <3>3. QED
        BY <1>1, <1>3, <3>1, <3>2
    <2>4. QED
      BY <2>2, <2>3
  <1>6. QED
    BY <1>1, <1>2, <1>3, <1>4, <1>5 DEF Awaited, Begun

\* The new end of a stack takes over its scheduler.
LEMMA AwaitServes ==
  ASSUME CoroTypes, Linked, Held, Serves, NEW c \in Tasks, NEW d \in Tasks, status[c] = "running",
         status[d] = "created", Awaited(c, d), UNCHANGED <<sched, toResume>>
  PROVE  Serves'
  <1>1. /\ Begun' = Begun \cup {d} /\ d \notin Begun /\ child[c] = Nobody /\ c # d
        /\ parent'[d] = c /\ child'[c] = d /\ child'[d] = Nobody /\ \A x \in Begun : parent'[x] = parent[x]
        /\ \A x \in Coroutines \ {c, d} : status'[x] = status[x] /\ child'[x] = child[x]
    BY DEF Awaited
  <1>2. PICK due \in [Coroutines -> Schedulers \cup {Nobody}] :
          /\ \A x \in Begun : /\ parent[x] \in Tasks => due[x] = due[parent[x]]
                              /\ sched[x] # Nobody => sched[x] = due[x]
          /\ \A x, y \in Begun : due[x] = due[y] /\ child[x] = Nobody /\ child[y] = Nobody => x = y
    BY DEF Serves
  <1>3. c \in Coroutines /\ d \in Coroutines /\ c \in Begun /\ sched[d] = Nobody /\ Begun \subseteq Coroutines
    BY DEF Coroutines, Begun, Held
  <1>4. PICK du2 \in [Coroutines -> Schedulers \cup {Nobody}] : du2 = [due EXCEPT ![d] = due[c]]
    BY <1>1, <1>3
  <1>5. du2[d] = due[c] /\ du2[c] = due[c] /\ \A x \in Begun : du2[x] = due[x] /\ x \in Coroutines /\ x # d
    BY <1>1, <1>3, <1>4
  <1>6. ASSUME NEW x \in Begun'
        PROVE  (parent'[x] \in Tasks => du2[x] = du2[parent'[x]]) /\ (sched'[x] # Nobody => sched'[x] = du2[x])
    <2>1. CASE x = d
      BY <1>1, <1>3, <1>5, <2>1
    <2>2. CASE x # d
      <3>1. x \in Begun /\ parent'[x] = parent[x] /\ sched'[x] = sched[x] /\ du2[x] = due[x]
        BY <1>1, <1>5, <1>6, <2>2
      <3>2. parent[x] \in Tasks => parent[x] \in Coroutines /\ parent[x] # d
        <4>1. x \in Coroutines /\ x # Nobody
          BY <3>1, CoroAssumption DEF Begun, Coroutines
        <4>2. parent[x] \in Coroutines /\ child[parent[x]] = x
          BY <3>1, <4>1 DEF Linked
        <4>3. status[parent[x]] = "awaiting"
          BY <4>1, <4>2 DEF Linked
        <4>4. QED
          BY <4>2, <4>3
      <3>3. parent[x] \in Tasks => du2[parent[x]] = due[parent[x]]
        BY <1>4, <3>2
      <3>4. QED
        BY <1>2, <3>1, <3>3
    <2>3. QED
      BY <2>1, <2>2
  <1>7. ASSUME NEW x \in Begun', NEW y \in Begun', du2[x] = du2[y], child'[x] = Nobody, child'[y] = Nobody
        PROVE  x = y
    <2>1. d # Nobody
      BY CoroAssumption
    <2>2. \A z \in Begun' : child'[z] = Nobody => z # c /\ (z # d => z \in Begun /\ child[z] = Nobody /\ du2[z] = due[z])
      BY <1>1, <1>3, <1>5, <2>1
    <2>3. CASE x = d /\ y # d
      BY <1>1, <1>2, <1>3, <1>5, <1>7, <2>2, <2>3
    <2>4. CASE x # d /\ y = d
      BY <1>1, <1>2, <1>3, <1>5, <1>7, <2>2, <2>4
    <2>5. CASE x # d /\ y # d
      BY <1>2, <1>7, <2>2, <2>5
    <2>6. QED
      BY <2>3, <2>4, <2>5
  <1>8. \A s \in Schedulers : toResume'[s] # Nobody => status'[toResume'[s]] = "waiting" /\ sched'[toResume'[s]] = s
    <2>1. \A s \in Schedulers : toResume[s] # Nobody => /\ toResume[s] \in Coroutines \ {c, d}
                                                      /\ status[toResume[s]] = "waiting" /\ sched[toResume[s]] = s
      BY DEF Serves, CoroTypes
    <2>2. QED
      BY <1>1, <2>1
  <1>9. QED
    BY <1>6, <1>7, <1>8 DEF Serves

\* A task that is awaited for the first time becomes the end of the stack; the second
\* time, which is misuse, the link it still has may fail an assertion.
LEMMA CoAwaitKeeps ==
  ASSUME CoroInv, NEW c \in Coroutines, NEW d \in Tasks, Coro!CoAwait(c, d)
  PROVE  CoroInv'
  <1>1. /\ proc = "running" /\ status[c] = "running" /\ owner[d] = c /\ status[d] \in {"created", "done"} /\ c \notin Roots
        /\ Coro!Await(c, d, status) /\ misused' = (misused \/ status[d] = "done")
        /\ UNCHANGED <<owner, sched, toResume>>
    BY DEF Coro!CoAwait, Coro!Run
  <1>2. CoroTypes /\ Linked /\ Held /\ Ends /\ Waits /\ d \in Coroutines /\ c \in Tasks
    BY <1>1 DEF CoroInv, Coroutines
  <1>3. child[c] = Nobody /\ (status[d] = "created" => parent[d] = Nobody)
    BY <1>1, <1>2 DEF Linked, Held
  <1>4. CASE parent[d] # Nobody
    <2>1. proc' = "asserted" /\ UNCHANGED <<status, parent, child, handle>> /\ misused' = TRUE
      BY <1>1, <1>3, <1>4 DEF Coro!Await, Coro!links, CoroInv, CoroTypes
    <2>2. QED
      BY <1>1, <1>2, <2>1 DEF CoroInv, CoroTypes
  <1>5. CASE parent[d] = Nobody
    <2>1. Awaits(c, d) /\ proc' = proc
      <3>1. [owner EXCEPT ![d] = c] = owner
        BY <1>1, <1>2 DEF CoroTypes
      <3>2. QED
        BY <1>1, <1>3, <1>5, <3>1 DEF Coro!Await, Coro!Link, Awaits
    <2>2. CoroTypes'
      BY <1>1, <1>2, <2>1 DEF CoroTypes, Awaits
    <2>3. Awaited(c, d) /\ Linked' /\ Ends'
      BY <1>1, <1>2, <2>1, AwaitLinks
    <2>4. /\ Begun' = Begun \cup {d} /\ d \notin Begun /\ child[c] = Nobody
          /\ parent'[d] = c /\ child'[d] = Nobody /\ child'[c] = d /\ \A x \in Begun : parent'[x] = parent[x] /\ parent[x] # c
          /\ status'[c] = "awaiting" /\ status'[d] = "running" /\ c # d
          /\ \A x \in Coroutines \ {c, d} : status'[x] = status[x] /\ child'[x] = child[x] /\ parent'[x] = parent[x]
      BY <2>3 DEF Awaited
    <2>5. Held'
      <3>1. d \notin Roots
        BY CoroAssumption
      <3>2. ASSUME NEW x \in Coroutines, owner[x] # Nobody
            PROVE  owner[x] \in Begun' \/ (owner[x] \in Roots /\ status'[owner[x]] # "none")
        <4>1. owner[x] \in Begun \/ (owner[x] \in Roots /\ status[owner[x]] # "none" /\ owner[x] \in Coroutines \ {c, d})
          BY <1>1, <1>2, <3>1, <3>2 DEF Held, Coroutines
        <4>2. QED
          BY <2>3, <2>4, <4>1
      <3>3. ASSUME NEW x \in Coroutines
            PROVE  /\ status'[x] = "none" => owner'[x] = Nobody
                   /\ status'[x] \in {"none", "created"} => parent'[x] = Nobody /\ sched'[x] = Nobody
                   /\ x \in Roots => status'[x] # "waiting" /\ owner'[x] = Nobody
        <4>1. CASE x \in {c, d}
          BY <1>1, <2>3, <2>4, <3>1, <4>1
        <4>2. CASE x \notin {c, d}
          BY <1>1, <1>2, <2>3, <2>4, <4>2 DEF Held
        <4>3. QED
          BY <4>1, <4>2
      <3>4. QED
        BY <1>1, <3>2, <3>3 DEF Held
    <2>6. Waits'
      <3>1. \A x \in Coroutines : status'[x] = "waiting" => status[x] = "waiting"
        BY <2>3, <2>4
      <3>2. c \notin Roots
        BY <1>1
      <3>3. QED
        BY <1>1, <1>2, <2>3, <2>4, <3>1, <3>2 DEF Waits
    <2>7. ASSUME ~misused' PROVE Serves'
      <3>1. status[d] = "created" /\ Serves
        BY <1>1, <2>7 DEF CoroInv
      <3>2. QED
        BY <1>1, <1>2, <2>3, <2>4, <3>1, AwaitServes
    <2>8. ~misused' => proc' = "running"
      BY <1>1, <2>1
    <2>9. QED
      BY <2>2, <2>3, <2>4, <2>5, <2>6, <2>7, <2>8 DEF CoroInv
  <1>6. QED
    BY <1>4, <1>5

\* spawn_task() begins a stack, with a scheduler of its own unless it is shared.
LEMMA SpawnKeeps ==
  ASSUME CoroInv, NEW r \in Roots, NEW d \in Tasks, NEW s \in Schedulers, Coro!Spawn(r, d, s)
  PROVE  CoroInv'
  <1>1. /\ proc = "running" /\ status[r] = "none" /\ status[d] = "created" /\ owner[d] = Nobody
        /\ Coro!Await(r, d, status) /\ misused' = (misused \/ \E c \in Coroutines : sched[c] = s)
        /\ owner' = [owner EXCEPT ![d] = r] /\ sched' = [sched EXCEPT ![d] = s]
        /\ UNCHANGED toResume
    BY DEF Coro!Spawn, Coro!InMain, Coro!Coros, Coroutines
  <1>2. CoroTypes /\ Linked /\ Held /\ Ends /\ Waits /\ d \in Coroutines /\ r \in Coroutines /\ s # Nobody
    BY <1>1, CoroAssumption DEF CoroInv, Coroutines
  <1>3. child[r] = Nobody /\ parent[d] = Nobody
    BY <1>1, <1>2 DEF Linked, Held
  <1>4. Awaits(r, d) /\ proc' = proc
    BY <1>1, <1>3 DEF Coro!Await, Coro!Link, Awaits
  <1>5. CoroTypes'
    BY <1>1, <1>2, <1>4 DEF CoroTypes, Awaits
  <1>6. Awaited(r, d) /\ Linked' /\ Ends'
    BY <1>1, <1>2, <1>4, AwaitLinks
  <1>7. /\ Begun' = Begun \cup {d} /\ d \notin Begun
        /\ parent'[d] = r /\ child'[d] = Nobody /\ child'[r] = d /\ \A x \in Begun : parent'[x] = parent[x] /\ parent[x] # r
        /\ status'[r] = "awaiting" /\ status'[d] = "running" /\ r # d
        /\ \A x \in Coroutines \ {r, d} : status'[x] = status[x] /\ child'[x] = child[x] /\ parent'[x] = parent[x]
    BY <1>6 DEF Awaited
  <1>8. /\ owner'[d] = r /\ sched'[d] = s /\ d \notin Roots
        /\ \A x \in Coroutines \ {d} : owner'[x] = owner[x] /\ sched'[x] = sched[x]
    BY <1>1, <1>2, CoroAssumption DEF CoroTypes
  <1>9. Held'
    <2>1. ASSUME NEW x \in Coroutines, owner'[x] # Nobody
          PROVE  owner'[x] \in Begun' \/ (owner'[x] \in Roots /\ status'[owner'[x]] # "none")
      <3>1. CASE x = d
        BY <1>7, <1>8, <3>1
      <3>2. CASE x # d
        <4>1. owner'[x] = owner[x] /\ (owner[x] \in Begun \/ (owner[x] \in Roots /\ status[owner[x]] # "none"))
          BY <1>2, <1>8, <2>1, <3>2 DEF Held
        <4>2. CASE owner[x] \in Begun
          BY <1>7, <4>1, <4>2
        <4>3. CASE owner[x] \in Roots /\ status[owner[x]] # "none"
          <5>1. owner[x] \in Coroutines \ {r, d}
            BY <1>1, <1>8, <4>3 DEF Coroutines
          <5>2. QED
            BY <1>7, <4>1, <4>3, <5>1
        <4>4. QED
          BY <4>1, <4>2, <4>3
      <3>3. QED
        BY <3>1, <3>2
    <2>2. ASSUME NEW x \in Coroutines
          PROVE  /\ status'[x] = "none" => owner'[x] = Nobody
                 /\ status'[x] \in {"none", "created"} => parent'[x] = Nobody /\ sched'[x] = Nobody
                 /\ x \in Roots => status'[x] # "waiting" /\ owner'[x] = Nobody
      <3>1. CASE x = r
        BY <1>1, <1>2, <1>7, <1>8, <3>1 DEF Held
      <3>2. CASE x = d
        BY <1>7, <1>8, <3>2
      <3>3. CASE x \notin {r, d}
        BY <1>2, <1>7, <1>8, <3>3 DEF Held
      <3>4. QED
        BY <3>1, <3>2, <3>3
    <2>3. QED
      BY <2>1, <2>2 DEF Held
  <1>10. Waits'
    <2>1. \A x \in Coroutines : status'[x] = "waiting" => status[x] = "waiting" /\ x # d
      BY <1>7
    <2>2. \A x \in Begun : x \in Coroutines \ {d}
      BY <1>7 DEF Begun, Coroutines
    <2>3. QED
      BY <1>1, <1>2, <1>7, <1>8, <2>1, <2>2 DEF Waits
  <1>11. ASSUME ~misused' PROVE Serves'
    <2>1. Serves /\ \A c \in Coroutines : sched[c] # s
      BY <1>1, <1>11 DEF CoroInv
    <2>2. PICK due \in [Coroutines -> Schedulers \cup {Nobody}] :
            /\ \A x \in Begun : /\ parent[x] \in Tasks => due[x] = due[parent[x]]
                                /\ sched[x] # Nobody => sched[x] = due[x]
            /\ \A x, y \in Begun : due[x] = due[y] /\ child[x] = Nobody /\ child[y] = Nobody => x = y
      BY <2>1 DEF Serves
    <2>3. \A x \in Begun : due[x] # s
      <3>1. SUFFICES ASSUME NEW S, S = {x \in Begun : due[x] = s}, S # {} PROVE FALSE
        OBVIOUS
      <3>2. PICK x \in S : parent[x] \notin S
        BY <1>2, <3>1 DEF Ends
      <3>3. x \in Begun /\ x \in Coroutines /\ due[x] = s /\ sched[x] = Nobody
        BY <2>1, <2>2, <3>1, <3>2 DEF Begun, Coroutines
      <3>4. parent[x] \notin Roots /\ parent[x] \in Coroutines /\ child[parent[x]] = x
        BY <1>2, <3>3 DEF Waits, Linked
      <3>5. parent[x] \in Tasks /\ status[parent[x]] = "awaiting"
        <4>1. x # Nobody
          BY <3>3, CoroAssumption DEF Coroutines
        <4>2. QED
          BY <1>2, <3>4, <4>1 DEF Linked, Coroutines
      <3>6. parent[x] \in Begun /\ due[parent[x]] = s
        BY <2>2, <3>3, <3>5 DEF Begun
      <3>7. QED
        BY <3>1, <3>2, <3>6
    <2>4. PICK du2 \in [Coroutines -> Schedulers \cup {Nobody}] : du2 = [due EXCEPT ![d] = s]
      OBVIOUS
    <2>5. du2[d] = s /\ \A x \in Begun : du2[x] = due[x] /\ x \in Coroutines \ {r, d}
      <3>1. \A x \in Begun : x \in Coroutines \ {r, d}
        BY <1>7, CoroAssumption DEF Begun, Coroutines
      <3>2. QED
        BY <1>2, <2>4, <3>1
    <2>6. ASSUME NEW x \in Begun'
          PROVE  (parent'[x] \in Tasks => du2[x] = du2[parent'[x]]) /\ (sched'[x] # Nobody => sched'[x] = du2[x])
      <3>1. CASE x = d
        BY <1>7, <1>8, <2>5, <3>1, CoroAssumption
      <3>2. CASE x # d
        <4>1. x \in Begun /\ parent'[x] = parent[x] /\ sched'[x] = sched[x] /\ du2[x] = due[x]
          BY <1>7, <1>8, <2>5, <2>6, <3>2
        <4>2. parent[x] \in Coroutines /\ child[parent[x]] = x /\ x # Nobody
          <5>1. x \in Coroutines /\ x # Nobody
            BY <4>1, CoroAssumption DEF Begun, Coroutines
          <5>2. QED
            BY <1>2, <4>1, <5>1 DEF Linked
        <4>3. status[parent[x]] = "awaiting"
          BY <1>2, <4>2 DEF Linked
        <4>4. parent[x] # d
          BY <1>1, <4>3
        <4>5. du2[parent[x]] = due[parent[x]]
          BY <2>4, <4>2, <4>4
        <4>6. QED
          BY <2>2, <4>1, <4>5
      <3>3. QED
        BY <3>1, <3>2
    <2>7. ASSUME NEW x \in Begun', NEW y \in Begun', du2[x] = du2[y], child'[x] = Nobody, child'[y] = Nobody
          PROVE  x = y
      <3>1. \A z \in Begun' : child'[z] = Nobody /\ z # d => z \in Begun /\ child[z] = Nobody /\ du2[z] = due[z] /\ due[z] # s
        BY <1>7, <2>3, <2>5
      <3>2. QED
        BY <2>2, <2>5, <2>7, <3>1
    <2>8. \A t \in Schedulers : toResume'[t] # Nobody => status'[toResume'[t]] = "waiting" /\ sched'[toResume'[t]] = t
      <3>1. \A t \in Schedulers : toResume[t] # Nobody => /\ toResume[t] \in Coroutines \ {r, d}
                                                        /\ status[toResume[t]] = "waiting" /\ sched[toResume[t]] = t
        BY <1>1, <1>2, <2>1 DEF Serves, CoroTypes
      <3>2. QED
        BY <1>1, <1>7, <1>8, <3>1
    <2>9. QED
      BY <2>6, <2>7, <2>8 DEF Serves
  <1>12. proc' = "running"
    BY <1>1, <1>4
  <1>13. QED
    BY <1>5, <1>9, <1>10, <1>11, <1>12, <1>6 DEF CoroInv

\* A scheduler wakes who waits for it.
LEMMA ResumeKeeps ==
  ASSUME CoroInv, NEW s \in Schedulers, Coro!ResumeWithData(s)
  PROVE  CoroInv'
  <1>1. PICK c : c = toResume[s]
    OBVIOUS
  <1>2. /\ proc = "running" /\ c # Nobody /\ toResume' = [toResume EXCEPT ![s] = Nobody]
        /\ IF status[c] = "waiting" /\ sched[c] # Nobody
           THEN status' = [status EXCEPT ![c] = "running"] /\ UNCHANGED proc
           ELSE proc' = "crashed" /\ UNCHANGED status
        /\ UNCHANGED <<owner, parent, child, handle, sched, misused>>
    BY <1>1 DEF Coro!ResumeWithData, Coro!InMain, Coro!links
  <1>3. CoroTypes /\ Linked /\ Held /\ Ends /\ Waits /\ (~misused => Serves)
    BY <1>2 DEF CoroInv
  <1>4. c \in Coroutines /\ toResume'[s] = Nobody /\ \A t \in Schedulers \ {s} : toResume'[t] = toResume[t]
    BY <1>1, <1>2, <1>3 DEF CoroTypes
  <1>5. CASE ~(status[c] = "waiting" /\ sched[c] # Nobody)
    <2>1. misused
      BY <1>1, <1>2, <1>3, <1>5, CoroAssumption DEF Serves
    <2>2. CoroTypes' /\ proc' = "crashed" /\ misused'
      BY <1>2, <1>3, <1>5, <2>1 DEF CoroTypes
    <2>3. QED
      BY <2>2 DEF CoroInv
  <1>6. CASE status[c] = "waiting" /\ sched[c] # Nobody
    <2>1. status' = [status EXCEPT ![c] = "running"] /\ proc' = "running"
      BY <1>2, <1>6
    <2>2. CoroTypes'
      BY <1>2, <1>3, <1>4, <2>1 DEF CoroTypes
    <2>3. status'[c] = "running" /\ \A x \in Coroutines \ {c} : status'[x] = status[x]
      BY <1>3, <1>4, <2>1 DEF CoroTypes
    <2>4. Begun' = Begun
      BY <1>6, <2>3 DEF Begun, Coroutines
    <2>5. Linked'
      BY <1>2, <1>3, <1>6, <2>3, <2>4 DEF Linked
    <2>6. Held' /\ Ends'
      <3>1. \A x \in Coroutines : /\ status'[x] \in {"none", "created", "waiting"} => status'[x] = status[x]
                                  /\ status'[x] = "none" => status[x] = "none"
                                  /\ x \in Roots /\ status[x] # "none" => status'[x] # "none"
        BY <2>3
      <3>2. Roots \subseteq Coroutines
        BY DEF Coroutines
      <3>3. Held'
        BY <1>2, <1>3, <2>4, <3>1, <3>2 DEF Held
      <3>4. Ends'
        BY <1>2, <1>3, <2>4 DEF Ends
      <3>5. QED
        BY <3>3, <3>4
    <2>7. Waits'
      <3>1. ASSUME NEW x \in Coroutines, status'[x] = "waiting"
            PROVE  sched'[x] \in Schedulers /\ toResume'[sched'[x]] = x
        <4>1. x # c /\ sched[x] \in Schedulers /\ toResume[sched[x]] = x
          BY <1>3, <2>3, <3>1 DEF Waits
        <4>2. sched[x] # s
          BY <1>1, <4>1
        <4>3. QED
          BY <1>2, <1>4, <4>1, <4>2
      <3>2. QED
        BY <1>2, <1>3, <2>4, <3>1 DEF Waits
    <2>8. ASSUME ~misused PROVE Serves'
      <3>1. Serves
        BY <1>3, <2>8
      <3>2. ASSUME NEW t \in Schedulers, toResume'[t] # Nobody
            PROVE  status'[toResume'[t]] = "waiting" /\ sched'[toResume'[t]] = t
        <4>1. t # s /\ toResume'[t] = toResume[t]
          BY <1>4, <3>2
        <4>2. status[toResume[t]] = "waiting" /\ sched[toResume[t]] = t /\ toResume[t] \in Coroutines
          BY <1>3, <3>1, <3>2, <4>1 DEF Serves, CoroTypes
        <4>3. toResume[t] # c
          BY <1>1, <1>2, <3>1, <4>1, <4>2 DEF Serves
        <4>4. QED
          BY <1>2, <2>3, <4>1, <4>2, <4>3
      <3>3. QED
        BY <1>2, <2>4, <3>1, <3>2 DEF Serves
    <2>9. QED
      BY <1>2, <2>1, <2>2, <2>5, <2>6, <2>7, <2>8 DEF CoroInv
  <1>7. QED
    BY <1>5, <1>6

\* A coroutine of spawn_task() ends with no links left.
LEMMA DeliverKeeps ==
  ASSUME CoroInv, NEW r \in Coroutines, Coro!Deliver(r)
  PROVE  CoroInv'
  <1>1. /\ proc = "running" /\ status[r] = "running" /\ r \in Roots /\ status' = [status EXCEPT ![r] = "done"]
        /\ UNCHANGED <<owner, parent, child, handle, sched, toResume, proc, misused>>
    BY DEF Coro!Deliver, Coro!Run, Coro!links
  <1>2. CoroTypes /\ Linked /\ Held /\ Ends /\ Waits
    BY <1>1 DEF CoroInv
  <1>3. status'[r] = "done" /\ \A x \in Coroutines \ {r} : status'[x] = status[x]
    BY <1>1, <1>2 DEF CoroTypes
  <1>4. Begun' = Begun
    BY <1>1, <1>3, CoroAssumption DEF Begun, Coroutines
  <1>5. CoroTypes' /\ Linked'
    BY <1>1, <1>2, <1>3, <1>4 DEF Linked, CoroTypes
  <1>6. Held'
    BY <1>1, <1>2, <1>3, <1>4 DEF Held, Coroutines
  <1>7. Ends' /\ Waits'
    BY <1>1, <1>2, <1>3, <1>4 DEF Ends, Waits
  <1>8. ASSUME ~misused PROVE Serves'
    <2>1. Serves
      BY <1>8 DEF CoroInv
    <2>2. \A s \in Schedulers : toResume[s] # Nobody => toResume[s] \in Coroutines \ {r}
      BY <1>1, <1>2, <2>1 DEF Serves, CoroTypes
    <2>3. QED
      BY <1>1, <1>3, <1>4, <2>1, <2>2 DEF Serves
  <1>9. QED
    BY <1>1, <1>5, <1>6, <1>7, <1>8 DEF CoroInv

\* Only a coroutine whose body runs holds tasks: a frame that goes away takes
\* with it none that has begun.
LEMMA DropKeeps ==
  ASSUME CoroInv, NEW c \in Coroutines, NEW d \in Tasks, Coro!Drop(c, d)
  PROVE  CoroInv'
  <1>1. PICK gone : gone = Coro!Frames(d)
    OBVIOUS
  <1>2. /\ proc = "running" /\ owner[d] = c /\ status[d] \in {"created", "done"}
        /\ UNCHANGED <<child, toResume, proc, misused>>
        /\ status' = [x \in Coroutines |-> IF x \in gone THEN "none" ELSE status[x]]
        /\ owner' = [x \in Coroutines |-> IF x \in gone THEN Nobody ELSE owner[x]]
        /\ parent' = [x \in Coroutines |-> IF x \in gone THEN Nobody ELSE parent[x]]
        /\ handle' = [x \in Coroutines |-> IF x \in gone THEN Nobody ELSE handle[x]]
        /\ sched' = [x \in Coroutines |-> IF x \in gone THEN Nobody ELSE sched[x]]
    BY <1>1 DEF Coro!Drop, Coro!Run, Coro!Destroy, Coro!Coros, Coroutines
  <1>3. CoroTypes /\ Linked /\ Held /\ Ends /\ Waits /\ d \in Coroutines /\ d \notin Begun /\ d \notin Roots
    BY <1>2, CoroAssumption DEF CoroInv, Coroutines, Begun
  <1>4. gone = {d}
    <2>1. \A x \in Coroutines : owner[x] # d
      <3>1. d # Nobody
        BY CoroAssumption
      <3>2. QED
        BY <1>3, <3>1 DEF Held
    <2>2. gone \subseteq {d}
      <3>1. {d} \in SUBSET Coroutines /\ d \in {d} /\ \A x \in Coroutines : owner[x] \in {d} => x \in {d}
        BY <1>3, <2>1
      <3>2. Coro!Frames(d) \subseteq {d}
        BY <3>1, FramesWithin
      <3>3. QED
        BY <1>1, <3>2
    <2>3. d \in gone
      BY <1>1, <1>2, <1>3, FramesClosed
    <2>4. QED
      BY <2>2, <2>3
  <1>5. CoroTypes'
    BY <1>2, <1>3 DEF CoroTypes
  <1>6. /\ status'[d] = "none" /\ owner'[d] = Nobody /\ parent'[d] = Nobody /\ sched'[d] = Nobody
        /\ \A x \in Coroutines \ {d} : /\ status'[x] = status[x] /\ owner'[x] = owner[x] /\ parent'[x] = parent[x]
                                       /\ handle'[x] = handle[x] /\ sched'[x] = sched[x]
    BY <1>2, <1>3, <1>4
  <1>7. Begun' = Begun /\ Begun \subseteq Coroutines \ {d}
    BY <1>3, <1>6 DEF Begun, Coroutines
  <1>8. Linked'
    <2>1. child[d] = Nobody
      BY <1>2, <1>3 DEF Linked
    <2>2. QED
      BY <1>2, <1>3, <1>6, <1>7, <2>1 DEF Linked
  <1>9. Held'
    <2>1. \A x \in Coroutines : owner[x] # d
      BY <1>3, CoroAssumption DEF Held
    <2>2. ASSUME NEW x \in Coroutines, owner'[x] # Nobody
          PROVE  owner'[x] \in Begun' \/ (owner'[x] \in Roots /\ status'[owner'[x]] # "none")
      <3>1. owner'[x] = owner[x] /\ owner[x] # d
        BY <1>6, <2>1, <2>2
      <3>2. QED
        BY <1>3, <1>6, <1>7, <2>2, <3>1 DEF Held, Coroutines
    <2>3. ASSUME NEW x \in Coroutines
          PROVE  /\ status'[x] = "none" => owner'[x] = Nobody
                 /\ status'[x] \in {"none", "created"} => parent'[x] = Nobody /\ sched'[x] = Nobody
                 /\ x \in Roots => status'[x] # "waiting" /\ owner'[x] = Nobody
      BY <1>3, <1>6 DEF Held
    <2>4. QED
      BY <2>2, <2>3 DEF Held
  <1>10. Ends'
    BY <1>3, <1>6, <1>7 DEF Ends
  <1>11. Waits'
    BY <1>2, <1>3, <1>6, <1>7 DEF Waits
  <1>12. ASSUME ~misused PROVE Serves'
    <2>1. Serves
      BY <1>12 DEF CoroInv
    <2>2. \A s \in Schedulers : toResume[s] # Nobody => toResume[s] \in Coroutines \ {d}
      BY <1>2, <1>3, <2>1 DEF Serves, CoroTypes
    <2>3. \A s \in Schedulers : toResume'[s] # Nobody => status'[toResume'[s]] = "waiting" /\ sched'[toResume'[s]] = s
      BY <1>2, <1>6, <2>1, <2>2 DEF Serves
    <2>4. QED
      BY <1>2, <1>6, <1>7, <2>1, <2>3 DEF Serves
  <1>13. QED
    BY <1>2, <1>5, <1>8, <1>9, <1>10, <1>11, <1>12 DEF CoroInv

\* A task that returns leaves the end of the stack to its parent, and what its body
\* still holds has not begun or has ended.
LEMMA ReturnKeeps ==
  ASSUME CoroInv, NEW c \in Coroutines, Coro!Return(c)
  PROVE  CoroInv'
  <1>1. PICK gone, p : gone = Coro!Frames(c) \ {c} /\ p = handle[c]
    OBVIOUS
  <1>2. /\ proc = "running" /\ status[c] = "running" /\ c \notin Roots
        /\ UNCHANGED <<toResume, proc, misused>>
        /\ status' = [x \in Coroutines |-> IF x \in gone THEN "none" ELSE
                                           IF x = c THEN "done" ELSE IF x = p THEN "running" ELSE status[x]]
        /\ owner' = [x \in Coroutines |-> IF x \in gone THEN Nobody ELSE owner[x]]
        /\ parent' = [x \in Coroutines |-> IF x \in gone THEN Nobody ELSE parent[x]]
        /\ handle' = [x \in Coroutines |-> IF x \in gone THEN Nobody ELSE handle[x]]
        /\ sched' = [x \in Coroutines |-> IF x \in gone THEN Nobody ELSE sched[x]]
        /\ IF p = Nobody THEN UNCHANGED child ELSE child' = [child EXCEPT ![p] = Nobody]
    BY <1>1 DEF Coro!Return, Coro!Run, Coro!Destroy, Coro!Coros, Coroutines, Coro!ResumeCaller, Coro!Unlink
  <1>3. CoroTypes /\ Linked /\ Held /\ Ends /\ Waits /\ c \in Begun /\ c # Nobody
    BY <1>2, CoroAssumption DEF CoroInv, Coroutines, Begun
  <1>4. /\ p \in Coroutines /\ p # Nobody /\ p # c /\ child[p] = c /\ parent[c] = p /\ owner[c] = p
        /\ status[p] = "awaiting" /\ child[c] = Nobody
    <2>1. p = parent[c] /\ p \in Coroutines /\ child[p] = c /\ owner[c] = p
      BY <1>1, <1>3 DEF Linked
    <2>2. status[p] = "awaiting" /\ child[c] = Nobody
      BY <1>2, <1>3, <2>1 DEF Linked
    <2>3. p # Nobody
      BY <2>1, CoroAssumption DEF Coroutines
    <2>4. QED
      BY <1>2, <2>1, <2>2, <2>3
  <1>5. \A x \in Coroutines : owner[x] = c => x \notin Begun /\ x \notin Roots /\ x # c /\ x # p
    <2>1. SUFFICES ASSUME NEW x \in Coroutines, owner[x] = c PROVE x \notin Begun /\ x \notin Roots /\ x # c /\ x # p
      OBVIOUS
    <2>2. x # Nobody
      BY CoroAssumption DEF Coroutines
    <2>3. x \notin Begun
      BY <1>3, <1>4, <2>1, <2>2 DEF Linked
    <2>4. x \notin Roots
      BY <1>3, <2>1 DEF Held
    <2>5. p \in Begun \cup Roots
      BY <1>4 DEF Begun, Coroutines
    <2>6. QED
      BY <1>3, <2>3, <2>4, <2>5
  <1>6. \A x \in Coroutines : x \in gone <=> owner[x] = c
    <2>1. PICK S : S = {c} \cup {x \in Coroutines : owner[x] = c}
      OBVIOUS
    <2>2. \A x \in Coroutines : owner[x] \in S => x \in S
      <3>1. SUFFICES ASSUME NEW x \in Coroutines, owner[x] \in Coroutines, owner[owner[x]] = c PROVE FALSE
        BY <2>1
      <3>2. owner[x] # Nobody
        BY <3>1, CoroAssumption DEF Coroutines
      <3>3. owner[x] \in Begun \/ owner[x] \in Roots
        BY <1>3, <3>2 DEF Held
      <3>4. QED
        BY <1>5, <3>1, <3>3
    <2>3. S \in SUBSET Coroutines /\ c \in S
      BY <2>1
    <2>4. Coro!Frames(c) \subseteq S
      BY <2>2, <2>3, FramesWithin
    <2>5. c \in Coro!Frames(c) /\ \A x \in Coroutines : status[x] # "none" /\ owner[x] = c => x \in Coro!Frames(c)
      BY <1>2, <1>3, FramesClosed
    <2>6. \A x \in Coroutines : owner[x] = c => status[x] # "none"
      BY <1>3 DEF Held
    <2>7. \A x \in Coroutines : owner[x] = c => x # c
      BY <1>5
    <2>8. QED
      BY <1>1, <2>1, <2>4, <2>5, <2>6, <2>7
  <1>7. /\ c \notin gone /\ p \notin gone
        /\ \A x \in Coroutines : x \in gone => /\ status'[x] = "none" /\ owner'[x] = Nobody /\ parent'[x] = Nobody
                                               /\ sched'[x] = Nobody /\ x \notin Begun /\ x \notin Roots
        /\ \A x \in Coroutines : x \notin gone => /\ owner'[x] = owner[x] /\ parent'[x] = parent[x]
                                                  /\ handle'[x] = handle[x] /\ sched'[x] = sched[x]
        /\ \A x \in Coroutines : x \notin gone /\ x \notin {c, p} => status'[x] = status[x]
        /\ status'[c] = "done" /\ status'[p] = "running" /\ child'[p] = Nobody
        /\ \A x \in Coroutines \ {p} : child'[x] = child[x]
    <2>1. c \notin gone /\ p \notin gone /\ \A x \in Coroutines : x \in gone => x \notin Begun /\ x \notin Roots
      BY <1>4, <1>5, <1>6
    <2>2. child'[p] = Nobody /\ \A x \in Coroutines \ {p} : child'[x] = child[x]
      BY <1>2, <1>3, <1>4 DEF CoroTypes
    <2>3. QED
      BY <1>2, <1>4, <2>1, <2>2
  <1>8. CoroTypes'
    <2>1. child' = [child EXCEPT ![p] = Nobody]
      BY <1>2, <1>4
    <2>2. QED
      BY <1>2, <1>3, <1>4, <2>1 DEF CoroTypes
  <1>9. \A x \in Tasks : x \in Coroutines /\ (x \in Begun' <=> x \in Begun /\ x # c)
    <2>1. SUFFICES ASSUME NEW x \in Tasks PROVE x \in Coroutines /\ (x \in Begun' <=> x \in Begun /\ x # c)
      OBVIOUS
    <2>2. x \in Coroutines
      BY DEF Coroutines
    <2>3. CASE x = p
      BY <1>4, <1>7, <2>2, <2>3 DEF Begun
    <2>4. CASE x = c
      BY <1>4, <1>7, <2>2, <2>4 DEF Begun
    <2>5. CASE x \in gone
      BY <1>7, <2>2, <2>5 DEF Begun
    <2>6. CASE x \notin gone /\ x \notin {c, p}
      BY <1>7, <2>2, <2>6 DEF Begun
    <2>7. QED
      BY <2>2, <2>3, <2>4, <2>5, <2>6
  <1>10. Begun' = Begun \ {c} /\ \A x \in Begun' : x \in Begun /\ x # c /\ x \in Coroutines /\ x \notin gone
    <2>1. Begun' \subseteq Tasks /\ Begun \subseteq Tasks
      BY DEF Begun
    <2>2. QED
      BY <1>7, <1>9, <2>1
  <1>11. Linked'
    <2>1. ASSUME NEW x \in Coroutines PROVE status'[x] = "awaiting" <=> child'[x] # Nobody
      <3>1. status[x] = "awaiting" <=> child[x] # Nobody
        BY <1>3 DEF Linked
      <3>2. CASE x = p
        BY <1>7, <3>2
      <3>3. CASE x = c
        BY <1>4, <1>7, <3>3
      <3>4. CASE x \in gone
        <4>1. status[x] # "awaiting"
          BY <1>7, <3>4 DEF Begun, Coroutines
        <4>2. QED
          BY <1>7, <3>1, <3>4, <4>1
      <3>5. CASE x \notin gone /\ x \notin {c, p}
        BY <1>7, <3>1, <3>5
      <3>6. QED
        BY <3>2, <3>3, <3>4, <3>5
    <2>2. ASSUME NEW x \in Coroutines, child'[x] # Nobody PROVE child'[x] \in Begun' /\ parent'[child'[x]] = x
      <3>1. x # p /\ child'[x] = child[x]
        BY <1>7, <2>2
      <3>2. child[x] \in Begun /\ parent[child[x]] = x
        BY <1>3, <2>2, <3>1 DEF Linked
      <3>3. child[x] # c
        BY <1>4, <3>1, <3>2
      <3>4. child[x] \in Begun' /\ child[x] \in Coroutines /\ child[x] \notin gone
        BY <1>10, <3>2, <3>3
      <3>5. QED
        BY <1>7, <3>1, <3>2, <3>4
    <2>3. ASSUME NEW x \in Begun'
          PROVE  parent'[x] \in Coroutines /\ child'[parent'[x]] = x /\ owner'[x] = parent'[x] /\ handle'[x] = parent'[x]
      <3>1. x \in Begun /\ x # c /\ x \in Coroutines /\ x \notin gone
        BY <1>10
      <3>2. parent[x] \in Coroutines /\ child[parent[x]] = x /\ owner[x] = parent[x] /\ handle[x] = parent[x]
        BY <1>3, <3>1 DEF Linked
      <3>3. parent[x] # p
        BY <1>4, <3>1, <3>2
      <3>4. QED
        BY <1>7, <3>1, <3>2, <3>3
    <2>4. QED
      BY <2>1, <2>2, <2>3 DEF Linked
  <1>12. Held'
    <2>1. ASSUME NEW x \in Coroutines, owner'[x] # Nobody
          PROVE  owner'[x] \in Begun' \/ (owner'[x] \in Roots /\ status'[owner'[x]] # "none")
      <3>1. x \notin gone /\ owner'[x] = owner[x] /\ owner[x] # c
        BY <1>6, <1>7, <2>1
      <3>2. CASE owner[x] \in Begun
        BY <1>10, <3>1, <3>2
      <3>3. CASE owner[x] \in Roots /\ status[owner[x]] # "none"
        <4>1. owner[x] \in Coroutines /\ owner[x] \notin gone /\ owner[x] # c
          BY <1>2, <1>7, <3>3 DEF Coroutines
        <4>2. status'[owner[x]] \in {status[owner[x]], "running"}
          BY <1>7, <4>1
        <4>3. QED
          BY <3>1, <3>3, <4>2
      <3>4. QED
        BY <1>3, <2>1, <3>1, <3>2, <3>3 DEF Held
    <2>2. ASSUME NEW x \in Coroutines
          PROVE  /\ status'[x] = "none" => owner'[x] = Nobody
                 /\ status'[x] \in {"none", "created"} => parent'[x] = Nobody /\ sched'[x] = Nobody
                 /\ x \in Roots => status'[x] # "waiting" /\ owner'[x] = Nobody
      <3>1. CASE x \in gone
        BY <1>7, <3>1
      <3>2. CASE x = c
        BY <1>2, <1>7, <3>2
      <3>3. CASE x = p
        BY <1>3, <1>7, <3>3 DEF Held
      <3>4. CASE x \notin gone /\ x \notin {c, p}
        BY <1>3, <1>7, <3>4 DEF Held
      <3>5. QED
        BY <3>1, <3>2, <3>3, <3>4
    <2>3. QED
      BY <2>1, <2>2 DEF Held
  <1>13. Ends'
    <2>1. SUFFICES ASSUME NEW S \in SUBSET Begun', S # {} PROVE \E x \in S : parent'[x] \notin S
      BY DEF Ends
    <2>2. S \in SUBSET Begun /\ \A x \in S : x \in Begun'
      BY <1>10, <2>1
    <2>3. PICK x \in S : parent[x] \notin S
      BY <1>3, <2>1, <2>2 DEF Ends
    <2>4. QED
      BY <1>7, <1>10, <2>2, <2>3
  <1>14. Waits'
    <2>1. ASSUME NEW x \in Coroutines, status'[x] = "waiting"
          PROVE  sched'[x] \in Schedulers /\ toResume'[sched'[x]] = x
      <3>1. x \notin gone /\ status[x] = "waiting"
        BY <1>7, <2>1
      <3>2. QED
        BY <1>2, <1>3, <1>7, <3>1 DEF Waits
    <2>2. ASSUME NEW x \in Begun', parent'[x] \in Roots PROVE sched'[x] # Nobody
      BY <1>3, <1>7, <1>10, <2>2 DEF Waits
    <2>3. QED
      BY <2>1, <2>2 DEF Waits
  <1>15. ASSUME ~misused PROVE Serves'
    <2>1. Serves
      BY <1>15 DEF CoroInv
    <2>2. PICK due \in [Coroutines -> Schedulers \cup {Nobody}] :
            /\ \A x \in Begun : /\ parent[x] \in Tasks => due[x] = due[parent[x]]
                                /\ sched[x] # Nobody => sched[x] = due[x]
            /\ \A x, y \in Begun : due[x] = due[y] /\ child[x] = Nobody /\ child[y] = Nobody => x = y
      BY <2>1 DEF Serves
    <2>3. ASSUME NEW x \in Begun'
          PROVE  (parent'[x] \in Tasks => due[x] = due[parent'[x]]) /\ (sched'[x] # Nobody => sched'[x] = due[x])
      <3>1. x \in Begun /\ parent'[x] = parent[x] /\ sched'[x] = sched[x]
        BY <1>7, <1>10
      <3>2. QED
        BY <2>2, <3>1
    <2>4. ASSUME NEW x \in Begun', child'[x] = Nobody, x # p PROVE x \in Begun /\ child[x] = Nobody /\ x # c
      BY <1>7, <1>10, <2>4
    <2>5. p \in Tasks => due[p] = due[c]
      BY <1>3, <1>4, <2>2
    <2>6. ASSUME NEW x \in Begun', NEW y \in Begun', due[x] = due[y], child'[x] = Nobody, child'[y] = Nobody
          PROVE  x = y
      <3>1. p \in Begun' => p \in Tasks
        BY DEF Begun
      <3>2. QED
        BY <1>3, <1>4, <2>2, <2>4, <2>5, <2>6, <3>1
    <2>7. ASSUME NEW s \in Schedulers, toResume'[s] # Nobody
          PROVE  status'[toResume'[s]] = "waiting" /\ sched'[toResume'[s]] = s
      <3>1. status[toResume[s]] = "waiting" /\ sched[toResume[s]] = s /\ toResume[s] \in Coroutines
        BY <1>2, <1>3, <2>1, <2>7 DEF Serves, CoroTypes
      <3>2. toResume[s] \notin gone /\ toResume[s] \notin {c, p}
        BY <1>2, <1>4, <1>7, <3>1 DEF Begun, Coroutines
      <3>3. QED
        BY <1>2, <1>7, <3>1, <3>2
    <2>8. QED
      BY <2>3, <2>6, <2>7 DEF Serves
  <1>16. QED
    BY <1>2, <1>8, <1>11, <1>12, <1>13, <1>14, <1>15 DEF CoroInv

\* Upwards is closed under the walk, and the smallest such.
LEMMA UpwardsWithin ==
  ASSUME NEW c \in Coroutines, NEW S \in SUBSET Coroutines, c \in S,
         \A x \in S : sched[x] = Nobody /\ parent[x] # Nobody => parent[x] \in S
  PROVE  Coro!Upwards(c) \subseteq S
  BY DEF Coro!Upwards, Coro!Coros, Coroutines

\* The walk goes on from every member without a scheduler.
LEMMA UpwardsClosed ==
  ASSUME CoroTypes, NEW c \in Coroutines
  PROVE  /\ Coro!Upwards(c) \subseteq Coroutines /\ c \in Coro!Upwards(c)
         /\ \A x \in Coro!Upwards(c) : sched[x] = Nobody /\ parent[x] # Nobody => parent[x] \in Coro!Upwards(c)
  <1>1. /\ Coro!Upwards(c) \subseteq Coroutines /\ c \in Coro!Upwards(c)
    BY DEF Coro!Upwards, Coro!Coros, Coroutines
  <1>2. ASSUME NEW x \in Coro!Upwards(c), sched[x] = Nobody, parent[x] # Nobody
        PROVE  parent[x] \in Coro!Upwards(c)
    <2>1. x \in Coroutines /\ parent[x] \in Coroutines
      BY <1>1, <1>2 DEF CoroTypes
    <2>2. ASSUME NEW S \in SUBSET Coroutines, c \in S,
                 \A y \in S : sched[y] = Nobody /\ parent[y] # Nobody => parent[y] \in S
          PROVE  parent[x] \in S
      <3>1. x \in S
        BY <2>2 DEF Coro!Upwards, Coro!Coros, Coroutines
      <3>2. QED
        BY <1>2, <2>2, <3>1
    <2>3. QED
      BY <2>1, <2>2 DEF Coro!Upwards, Coro!Coros, Coroutines
  <1>3. QED
    BY <1>1, <1>2

\* Up the stack from a running task there are only tasks that have begun, each
\* awaiting the one below, and one of them has a scheduler.
LEMMA UpwardsBegun ==
  ASSUME CoroTypes, Linked, Held, Ends, Waits, NEW c \in Tasks, status[c] = "running"
  PROVE  /\ Coro!Upwards(c) \subseteq Begun
         /\ \A x \in Coro!Upwards(c) : x = c \/ status[x] = "awaiting"
         /\ Coro!HasScheduler(c) # {}
  <1>1. PICK S : S = {x \in Begun : x = c \/ status[x] = "awaiting"}
    OBVIOUS
  <1>2. c \in S /\ c \in Coroutines /\ S \in SUBSET Coroutines
    BY <1>1 DEF Begun, Coroutines
  <1>3. ASSUME NEW x \in S, sched[x] = Nobody PROVE parent[x] \in S /\ parent[x] # Nobody
    <2>1. x \in Begun /\ x \in Coroutines /\ x # Nobody
      BY <1>1, <1>2, <1>3, CoroAssumption DEF Coroutines
    <2>2. parent[x] \in Coroutines /\ child[parent[x]] = x
      BY <2>1 DEF Linked
    <2>3. status[parent[x]] = "awaiting"
      BY <2>1, <2>2 DEF Linked
    <2>4. parent[x] \in Tasks
      BY <1>3, <2>1, <2>2 DEF Waits, Coroutines
    <2>5. QED
      BY <1>1, <2>3, <2>4, CoroAssumption DEF Begun
  <1>4. Coro!Upwards(c) \subseteq S
    BY <1>2, <1>3, UpwardsWithin
  <1>5. Coro!HasScheduler(c) # {}
    <2>1. SUFFICES ASSUME \A x \in Coro!Upwards(c) : sched[x] = Nobody PROVE FALSE
      BY DEF Coro!HasScheduler
    <2>2. c \in Coro!Upwards(c) /\ \A x \in Coro!Upwards(c) : parent[x] \in Coro!Upwards(c)
      BY <1>2, <1>3, <1>4, <2>1, UpwardsClosed
    <2>3. Coro!Upwards(c) \in SUBSET Begun
      BY <1>1, <1>4
    <2>4. QED
      BY <2>2, <2>3 DEF Ends
  <1>6. QED
    BY <1>1, <1>4, <1>5

\* Who waits for data finds the scheduler its stack is due to, which no one else
\* waits for.
LEMMA GetDataKeeps ==
  ASSUME CoroInv, NEW c \in Coroutines, Coro!GetData(c)
  PROVE  CoroInv'
  <1>1. PICK up : up = Coro!Upwards(c)
    OBVIOUS
  <1>2. /\ proc = "running" /\ status[c] = "running" /\ c \notin Roots
        /\ UNCHANGED <<owner, parent, child, handle, misused>>
    BY DEF Coro!GetData, Coro!Run, Coro!links
  <1>3. CoroTypes /\ Linked /\ Held /\ Ends /\ Waits /\ c \in Tasks /\ c \in Begun
    BY <1>2 DEF CoroInv, Coroutines, Begun
  <1>4. up \subseteq Begun /\ c \in up /\ (\A x \in up : x = c \/ status[x] = "awaiting") /\ Coro!HasScheduler(c) # {}
    BY <1>1, <1>2, <1>3, UpwardsBegun, UpwardsClosed
  <1>5. PICK x \in up : sched[x] # Nobody /\
          \E s \in {sched[x]} :
            /\ sched' = [y \in Coroutines |-> IF y \in up THEN s ELSE sched[y]]
            /\ IF toResume[s] # Nobody
               THEN proc' = "asserted" /\ UNCHANGED <<status, toResume>>
               ELSE toResume' = [toResume EXCEPT ![s] = c] /\ status' = [status EXCEPT ![c] = "waiting"] /\ UNCHANGED proc
    BY <1>1, <1>4 DEF Coro!GetData, Coro!HasScheduler, Coro!Propagate, Coro!Coros, Coroutines
  <1>6. PICK s : s = sched[x]
    OBVIOUS
  <1>7. /\ s \in Schedulers /\ s # Nobody
        /\ sched' = [y \in Coroutines |-> IF y \in up THEN s ELSE sched[y]]
        /\ IF toResume[s] # Nobody
           THEN proc' = "asserted" /\ UNCHANGED <<status, toResume>>
           ELSE toResume' = [toResume EXCEPT ![s] = c] /\ status' = [status EXCEPT ![c] = "waiting"] /\ UNCHANGED proc
    <2>1. x \in Coroutines
      BY <1>4 DEF Begun, Coroutines
    <2>2. s \in Schedulers /\ s # Nobody
      BY <1>3, <1>5, <1>6, <2>1 DEF CoroTypes
    <2>3. QED
      BY <1>5, <1>6, <2>2
  <1>8. \A y \in Coroutines : sched'[y] = IF y \in up THEN s ELSE sched[y]
    BY <1>7
  <1>9. ASSUME NEW due, \A y \in Begun : /\ parent[y] \in Tasks => due[y] = due[parent[y]]
                                         /\ sched[y] # Nobody => sched[y] = due[y]
        PROVE  s = due[c] /\ \A y \in up : due[y] = s
    <2>1. PICK S : S = {y \in Begun : due[y] = due[c]}
      OBVIOUS
    <2>2. c \in S /\ S \in SUBSET Coroutines
      BY <1>3, <2>1 DEF Begun, Coroutines
    <2>3. ASSUME NEW y \in S, sched[y] = Nobody, parent[y] # Nobody PROVE parent[y] \in S
      <3>1. y \in Begun /\ y \in Coroutines /\ y # Nobody
        BY <2>1, <2>2, CoroAssumption DEF Coroutines
      <3>2. parent[y] \in Coroutines /\ child[parent[y]] = y
        BY <1>3, <3>1 DEF Linked
      <3>3. status[parent[y]] = "awaiting" /\ parent[y] \in Tasks
        BY <1>3, <2>3, <3>1, <3>2 DEF Linked, Waits, Coroutines
      <3>4. due[y] = due[parent[y]]
        BY <1>9, <3>1, <3>3
      <3>5. QED
        BY <2>1, <3>3, <3>4 DEF Begun
    <2>4. up \subseteq S
      BY <1>1, <2>2, <2>3, UpwardsWithin
    <2>5. s = due[x] /\ x \in S
      BY <1>4, <1>5, <1>6, <1>9, <2>4
    <2>6. QED
      BY <2>1, <2>4, <2>5
  <1>10. CASE toResume[s] # Nobody
    <2>1. CoroTypes'
      BY <1>2, <1>3, <1>7, <1>10 DEF CoroTypes
    <2>2. misused
      <3>1. SUFFICES ASSUME ~misused PROVE FALSE
        OBVIOUS
      <3>2. Serves
        BY <3>1 DEF CoroInv
      <3>3. PICK w : w = toResume[s]
        OBVIOUS
      <3>4. status[w] = "waiting" /\ sched[w] = s /\ w \in Coroutines
        BY <1>3, <1>7, <1>10, <3>2, <3>3 DEF Serves, CoroTypes
      <3>5. w \in Begun /\ child[w] = Nobody /\ child[c] = Nobody
        BY <1>2, <1>3, <3>4 DEF Held, Linked, Begun, Coroutines
      <3>6. PICK due \in [Coroutines -> Schedulers \cup {Nobody}] :
              /\ \A y \in Begun : /\ parent[y] \in Tasks => due[y] = due[parent[y]]
                                  /\ sched[y] # Nobody => sched[y] = due[y]
              /\ \A y, z \in Begun : due[y] = due[z] /\ child[y] = Nobody /\ child[z] = Nobody => y = z
        BY <3>2 DEF Serves
      <3>7. due[w] = s /\ due[c] = s
        BY <1>7, <1>9, <3>4, <3>5, <3>6
      <3>8. QED
        BY <1>2, <1>3, <3>4, <3>5, <3>6, <3>7
    <2>3. QED
      BY <1>2, <1>7, <1>10, <2>1, <2>2 DEF CoroInv
  <1>11. CASE toResume[s] = Nobody
    <2>1. toResume' = [toResume EXCEPT ![s] = c] /\ status' = [status EXCEPT ![c] = "waiting"] /\ proc' = "running"
      BY <1>2, <1>7, <1>11
    <2>2. CoroTypes'
      BY <1>2, <1>3, <1>7, <2>1 DEF CoroTypes
    <2>3. status'[c] = "waiting" /\ \A y \in Coroutines \ {c} : status'[y] = status[y]
      BY <1>3, <2>1 DEF CoroTypes
    <2>4. toResume'[s] = c /\ \A t \in Schedulers \ {s} : toResume'[t] = toResume[t]
      BY <1>3, <1>7, <2>1 DEF CoroTypes
    <2>5. Begun' = Begun
      BY <1>3, <2>3 DEF Begun, Coroutines
    <2>6. Linked'
      BY <1>2, <1>3, <2>3, <2>5 DEF Linked
    <2>7. Held'
      <3>1. \A y \in Coroutines : status'[y] \in {"none", "created"} => status[y] = status'[y] /\ sched'[y] = sched[y]
        BY <1>4, <1>8, <2>3, <2>5 DEF Begun
      <3>2. \A y \in Coroutines : y \in Roots => status'[y] = status[y]
        BY <1>2, <2>3
      <3>3. Roots \subseteq Coroutines
        BY DEF Coroutines
      <3>4. QED
        BY <1>2, <1>3, <2>5, <3>1, <3>2, <3>3 DEF Held
    <2>8. Ends'
      BY <1>2, <1>3, <2>5 DEF Ends
    <2>9. Waits'
      <3>1. ASSUME NEW y \in Coroutines, status'[y] = "waiting"
            PROVE  sched'[y] \in Schedulers /\ toResume'[sched'[y]] = y
        <4>1. CASE y = c
          BY <1>4, <1>7, <1>8, <2>4, <4>1
        <4>2. CASE y # c
          <5>1. status[y] = "waiting" /\ sched[y] \in Schedulers /\ toResume[sched[y]] = y
            BY <1>3, <2>3, <3>1, <4>2 DEF Waits
          <5>2. y \notin up
            BY <1>4, <4>2, <5>1
          <5>3. sched[y] # s
            BY <1>11, <5>1, CoroAssumption DEF Coroutines
          <5>4. QED
            BY <1>8, <2>4, <5>1, <5>2, <5>3
        <4>3. QED
          BY <4>1, <4>2
      <3>2. ASSUME NEW y \in Begun', parent'[y] \in Roots PROVE sched'[y] # Nobody
        <4>1. y \in Begun /\ y \in Coroutines /\ parent[y] \in Roots
          BY <1>2, <2>5, <3>2 DEF Begun, Coroutines
        <4>2. QED
          BY <1>3, <1>7, <1>8, <4>1 DEF Waits
      <3>3. QED
        BY <3>1, <3>2 DEF Waits
    <2>10. ASSUME ~misused PROVE Serves'
      <3>1. Serves
        BY <2>10 DEF CoroInv
      <3>2. PICK due \in [Coroutines -> Schedulers \cup {Nobody}] :
              /\ \A y \in Begun : /\ parent[y] \in Tasks => due[y] = due[parent[y]]
                                  /\ sched[y] # Nobody => sched[y] = due[y]
              /\ \A y, z \in Begun : due[y] = due[z] /\ child[y] = Nobody /\ child[z] = Nobody => y = z
        BY <3>1 DEF Serves
      <3>3. \A y \in up : due[y] = s
        BY <1>9, <3>2
      <3>4. ASSUME NEW y \in Begun', sched'[y] # Nobody PROVE sched'[y] = due[y]
        <4>1. y \in Begun /\ y \in Coroutines
          BY <2>5 DEF Begun, Coroutines
        <4>2. QED
          BY <1>8, <3>2, <3>3, <3>4, <4>1
      <3>5. ASSUME NEW t \in Schedulers, toResume'[t] # Nobody
            PROVE  status'[toResume'[t]] = "waiting" /\ sched'[toResume'[t]] = t
        <4>1. CASE t = s
          BY <1>4, <1>8, <2>3, <2>4, <4>1, <1>3
        <4>2. CASE t # s
          <5>1. PICK w : w = toResume[t]
            OBVIOUS
          <5>2. toResume'[t] = w /\ status[w] = "waiting" /\ sched[w] = t /\ w \in Coroutines
            BY <1>3, <2>4, <3>1, <3>5, <4>2, <5>1 DEF Serves, CoroTypes
          <5>3. w # c /\ w \notin up
            BY <1>2, <1>4, <5>2
          <5>4. QED
            BY <1>8, <2>3, <5>2, <5>3
        <4>3. QED
          BY <4>1, <4>2
      <3>6. QED
        BY <1>2, <2>5, <3>2, <3>4, <3>5 DEF Serves
    <2>11. QED
      BY <1>2, <2>1, <2>2, <2>6, <2>7, <2>8, <2>9, <2>10 DEF CoroInv
  <1>12. QED
    BY <1>10, <1>11

\* With a result that main() gives up goes its whole stack, and nothing of another.
LEMMA DropResultKeeps ==
  ASSUME CoroInv, NEW r \in Roots, Coro!DropResult(r)
  PROVE  CoroInv'
  <1>1. PICK gone : gone = Coro!Frames(r)
    OBVIOUS
  <1>2. /\ proc = "running" /\ status[r] # "none" /\ r \in Coroutines
        /\ UNCHANGED <<toResume, proc>>
        /\ misused' = (misused \/ \E s \in Schedulers : toResume[s] \in gone)
        /\ status' = [x \in Coroutines |-> IF x \in gone THEN "none" ELSE status[x]]
        /\ owner' = [x \in Coroutines |-> IF x \in gone THEN Nobody ELSE owner[x]]
        /\ parent' = [x \in Coroutines |-> IF x \in gone THEN Nobody ELSE parent[x]]
        /\ handle' = [x \in Coroutines |-> IF x \in gone THEN Nobody ELSE handle[x]]
        /\ sched' = [x \in Coroutines |-> IF x \in gone THEN Nobody ELSE sched[x]]
        /\ child' = [x \in Coroutines |-> IF x \in gone THEN Nobody ELSE child[x]]
    BY <1>1 DEF Coro!DropResult, Coro!InMain, Coro!Destroy, Coro!Coros, Coroutines
  <1>3. CoroTypes /\ Linked /\ Held /\ Ends /\ Waits
    BY <1>2 DEF CoroInv
  <1>4. CoroTypes'
    BY <1>2, <1>3 DEF CoroTypes
  <1>5. /\ \A x \in Coroutines : x \in gone => /\ status'[x] = "none" /\ owner'[x] = Nobody /\ parent'[x] = Nobody
                                               /\ sched'[x] = Nobody /\ child'[x] = Nobody
        /\ \A x \in Coroutines : x \notin gone => /\ status'[x] = status[x] /\ owner'[x] = owner[x]
                                                  /\ parent'[x] = parent[x] /\ handle'[x] = handle[x]
                                                  /\ sched'[x] = sched[x] /\ child'[x] = child[x]
    BY <1>2
  <1>6. \A x \in Coroutines : owner[x] \in gone => x \in gone
    <2>1. \A x \in Coroutines : status[x] # "none" /\ owner[x] \in gone => x \in gone
      BY <1>1, <1>2, <1>3, FramesClosed
    <2>2. gone \subseteq Coroutines
      BY <1>1, <1>2, <1>3, FramesClosed
    <2>3. \A x \in Coroutines : owner[x] \in gone => status[x] # "none"
      BY <1>3, <2>2, CoroAssumption DEF Held, Coroutines
    <2>4. QED
      BY <2>1, <2>3
  <1>7. \A x \in Begun : x \in Coroutines /\ (x \in gone <=> parent[x] \in gone)
    <2>1. SUFFICES ASSUME NEW x \in Begun PROVE x \in Coroutines /\ (x \in gone <=> parent[x] \in gone)
      OBVIOUS
    <2>2. x \in Coroutines /\ x # r /\ x # Nobody
      BY CoroAssumption DEF Begun, Coroutines
    <2>3. parent[x] \in Coroutines /\ child[parent[x]] = x /\ owner[x] = parent[x]
      BY <1>3, <2>2 DEF Linked
    <2>4. status[parent[x]] = "awaiting"
      BY <1>3, <2>2, <2>3 DEF Linked
    <2>5. x \in gone => parent[x] \in gone
      BY <1>1, <1>2, <1>3, <2>2, <2>3, <2>4, FramesOwned
    <2>6. QED
      BY <1>6, <2>2, <2>3, <2>5
  <1>8. Begun' = Begun \ gone /\ \A x \in Begun' : x \in Begun /\ x \in Coroutines /\ x \notin gone
    <2>1. ASSUME NEW x \in Tasks PROVE x \in Coroutines /\ (x \in Begun' <=> x \in Begun /\ x \notin gone)
      <3>1. x \in Coroutines
        BY DEF Coroutines
      <3>2. CASE x \in gone
        BY <1>5, <3>1, <3>2 DEF Begun
      <3>3. CASE x \notin gone
        BY <1>5, <3>1, <3>3 DEF Begun
      <3>4. QED
        BY <3>1, <3>2, <3>3
    <2>2. Begun' \subseteq Tasks /\ Begun \subseteq Tasks
      BY DEF Begun
    <2>3. QED
      BY <2>1, <2>2
  <1>9. Linked'
    <2>1. ASSUME NEW x \in Coroutines PROVE status'[x] = "awaiting" <=> child'[x] # Nobody
      BY <1>3, <1>5 DEF Linked
    <2>2. ASSUME NEW x \in Coroutines, child'[x] # Nobody PROVE child'[x] \in Begun' /\ parent'[child'[x]] = x
      <3>1. x \notin gone /\ child'[x] = child[x]
        BY <1>5, <2>2
      <3>2. child[x] \in Begun /\ parent[child[x]] = x
        BY <1>3, <2>2, <3>1 DEF Linked
      <3>3. child[x] \in Coroutines /\ child[x] \notin gone
        BY <1>7, <3>1, <3>2
      <3>4. QED
        BY <1>5, <1>8, <3>1, <3>2, <3>3
    <2>3. ASSUME NEW x \in Begun'
          PROVE  parent'[x] \in Coroutines /\ child'[parent'[x]] = x /\ owner'[x] = parent'[x] /\ handle'[x] = parent'[x]
      <3>1. x \in Begun /\ x \in Coroutines /\ x \notin gone /\ parent[x] \notin gone
        BY <1>7, <1>8
      <3>2. parent[x] \in Coroutines /\ child[parent[x]] = x /\ owner[x] = parent[x] /\ handle[x] = parent[x]
        BY <1>3, <3>1 DEF Linked
      <3>3. QED
        BY <1>5, <3>1, <3>2
    <2>4. QED
      BY <2>1, <2>2, <2>3 DEF Linked
  <1>10. Held'
    <2>1. ASSUME NEW x \in Coroutines, owner'[x] # Nobody
          PROVE  owner'[x] \in Begun' \/ (owner'[x] \in Roots /\ status'[owner'[x]] # "none")
      <3>1. x \notin gone /\ owner'[x] = owner[x] /\ owner[x] \notin gone
        BY <1>5, <1>6, <2>1
      <3>2. owner[x] \in Begun \/ (owner[x] \in Roots /\ status[owner[x]] # "none")
        BY <1>3, <2>1, <3>1 DEF Held
      <3>3. QED
        BY <1>5, <1>8, <3>1, <3>2 DEF Coroutines
    <2>2. ASSUME NEW x \in Coroutines
          PROVE  /\ status'[x] = "none" => owner'[x] = Nobody
                 /\ status'[x] \in {"none", "created"} => parent'[x] = Nobody /\ sched'[x] = Nobody
                 /\ x \in Roots => status'[x] # "waiting" /\ owner'[x] = Nobody
      <3>1. CASE x \in gone
        BY <1>5, <3>1
      <3>2. CASE x \notin gone
        BY <1>3, <1>5, <3>2 DEF Held
      <3>3. QED
        BY <3>1, <3>2
    <2>3. QED
      BY <2>1, <2>2 DEF Held
  <1>11. Ends'
    <2>1. SUFFICES ASSUME NEW S \in SUBSET Begun', S # {} PROVE \E x \in S : parent'[x] \notin S
      BY DEF Ends
    <2>2. S \in SUBSET Begun /\ \A x \in S : x \in Begun'
      BY <1>8, <2>1
    <2>3. PICK x \in S : parent[x] \notin S
      BY <1>3, <2>1, <2>2 DEF Ends
    <2>4. QED
      BY <1>5, <1>8, <2>2, <2>3
  <1>12. Waits'
    <2>1. ASSUME NEW x \in Coroutines, status'[x] = "waiting"
          PROVE  sched'[x] \in Schedulers /\ toResume'[sched'[x]] = x
      BY <1>2, <1>3, <1>5, <2>1 DEF Waits
    <2>2. ASSUME NEW x \in Begun', parent'[x] \in Roots PROVE sched'[x] # Nobody
      BY <1>3, <1>5, <1>8, <2>2 DEF Waits
    <2>3. QED
      BY <2>1, <2>2 DEF Waits
  <1>13. ASSUME ~misused' PROVE Serves'
    <2>1. Serves /\ \A s \in Schedulers : toResume[s] \notin gone
      BY <1>2, <1>13 DEF CoroInv
    <2>2. ASSUME NEW s \in Schedulers, toResume'[s] # Nobody
          PROVE  status'[toResume'[s]] = "waiting" /\ sched'[toResume'[s]] = s
      <3>1. toResume'[s] = toResume[s] /\ toResume[s] \in Coroutines /\ toResume[s] \notin gone
        BY <1>2, <1>3, <2>1, <2>2 DEF CoroTypes
      <3>2. status[toResume[s]] = "waiting" /\ sched[toResume[s]] = s
        BY <2>1, <2>2, <3>1 DEF Serves
      <3>3. QED
        BY <1>5, <3>1, <3>2
    <2>3. \A x \in Begun' : /\ x \in Begun /\ parent'[x] = parent[x] /\ sched'[x] = sched[x] /\ child'[x] = child[x]
      BY <1>5, <1>8
    <2>4. QED
      BY <2>1, <2>2, <2>3 DEF Serves
  <1>14. QED
    BY <1>2, <1>4, <1>9, <1>10, <1>11, <1>12, <1>13 DEF CoroInv, CoroTypes

\* The links between the coroutines are the stack of awaits, whoever waits has the
\* scheduler that wakes it, and no assertion fails unless the program misuses them.
THEOREM StackLinked == ToolsSpec => []LinksMatch
  <1>1. ToolsInit => CoroInv
    BY CoroInit DEF ToolsInit
  <1>2. CoroInv /\ [ToolsNext]_toolsVars => CoroInv'
    <2> SUFFICES ASSUME CoroInv, Coro!Next \/ UNCHANGED coroVars PROVE CoroInv'
      BY DEF ToolsNext, toolsVars
    <2>1. CASE Coro!Body
      <3>1. PICK c \in Coroutines :
              \/ \E d \in Tasks : Coro!Create(d, c) \/ Coro!CoAwait(c, d) \/ Coro!Drop(c, d)
              \/ Coro!GetData(c) \/ Coro!Return(c) \/ Coro!Deliver(c)
        BY <2>1 DEF Coro!Body, Coro!Coros, Coroutines
      <3>2. ASSUME NEW d \in Tasks, Coro!Create(d, c) PROVE CoroInv'
        BY <3>2, CreateKeeps
      <3>3. ASSUME NEW d \in Tasks, Coro!CoAwait(c, d) PROVE CoroInv'
        BY <3>3, CoAwaitKeeps
      <3>4. ASSUME NEW d \in Tasks, Coro!Drop(c, d) PROVE CoroInv'
        BY <3>4, DropKeeps
      <3>5. QED
        BY <3>1, <3>2, <3>3, <3>4, GetDataKeeps, ReturnKeeps, DeliverKeeps
    <2>2. ASSUME NEW s \in Schedulers, Coro!ResumeWithData(s) PROVE CoroInv'
      BY <2>2, ResumeKeeps
    <2>3. ASSUME NEW d \in Tasks, Coro!Create(d, Nobody) PROVE CoroInv'
      BY <2>3, CreateKeeps
    <2>4. ASSUME NEW d \in Tasks, NEW r \in Roots, NEW s \in Schedulers, Coro!Spawn(r, d, s) PROVE CoroInv'
      BY <2>4, SpawnKeeps
    <2>5. ASSUME NEW r \in Roots, Coro!DropResult(r) PROVE CoroInv'
      BY <2>5, DropResultKeeps
    <2>6. CASE UNCHANGED coroVars
      BY <2>6 DEF coroVars, CoroInv, CoroTypes, Linked, Held, Ends, Waits, Serves, Begun
    <2>7. QED
      BY <2>1, <2>2, <2>3, <2>4, <2>5, <2>6 DEF Coro!Next, Coro!Finished, Coro!Stopped, Coro!vars, Coro!links, coroVars
  <1>3. CoroInv => LinksMatch
    <2> SUFFICES ASSUME CoroInv PROVE LinksMatch
      OBVIOUS
    <2>1. proc # "running" => misused
      BY DEF CoroInv
    <2>2. ASSUME proc = "running", NEW c \in Coroutines
          PROVE  /\ status[c] = "awaiting" <=> child[c] # Nobody
                 /\ child[c] # Nobody => parent[child[c]] = c /\ handle[child[c]] = c
                 /\ status[c] \in {"running", "awaiting", "waiting"} /\ c \in Tasks => child[parent[c]] = c
                 /\ status[c] = "waiting" => sched[c] # Nobody /\ toResume[sched[c]] = c
      <3>1. Linked /\ Waits
        BY <2>2 DEF CoroInv
      <3>2. status[c] = "awaiting" <=> child[c] # Nobody
        BY <3>1 DEF Linked
      <3>3. child[c] # Nobody => parent[child[c]] = c /\ handle[child[c]] = c
        BY <3>1 DEF Linked, Begun, Coroutines
      <3>4. status[c] \in {"running", "awaiting", "waiting"} /\ c \in Tasks => child[parent[c]] = c
        BY <3>1 DEF Linked, Begun
      <3>5. status[c] = "waiting" => sched[c] # Nobody /\ toResume[sched[c]] = c
        BY <3>1, CoroAssumption DEF Waits
      <3>6. QED
        BY <3>2, <3>3, <3>4, <3>5
    <2>3. QED
      BY <2>1, <2>2 DEF LinksMatch, Coro!LinksMatch, Coro!Coros, Coroutines
  <1>4. QED
    BY <1>1, <1>2, <1>3, PTL DEF ToolsSpec
================================================================================
