--------------------------------- MODULE Papi ---------------------------------
(***************************************************************************)
(* The PAPI wrapper (papi/papi.hpp).  The first object of the process      *)
(* initialises the library, the first of each thread registers the thread; *)
(* a counters object has a running event set and sums the measurements     *)
(* made with it, which nest.  libpapi is external; its calls may fail.     *)
(***************************************************************************)
EXTENDS Integers, FiniteSets, Functions

CONSTANTS
  Threads,
  NoThread,
  Measures,    \* measurement objects
  Events,      \* NUM_COUNTERS
  MaxActs       \* bound: how many objects are made and how often work is done

VARIABLES
  pc,          \* each thread: "app", "init", "threadinit", "register" or "start"
  making,      \* what it makes: "hardware" or "counters"
  initBy,      \* who is in library::init()'s initialiser
  once,        \* its static is initialised
  threadInits, \* how often PAPI_thread_init() has succeeded
  registered,  \* the threads whose thread_local tid is initialised
  ctr,         \* each thread's counters: made, added, hw (what PAPI_read() gives), acc
  open,        \* the measurements there are: <<thread, measure>>
  first,       \* measurement::_values: what each read when it was made
  worked,      \* history: of each event, what happened, once for each measurement there was
  spoiled,     \* history: a measurement was copied, or its last read failed
  acts

initVars == <<pc, making, initBy, once, threadInits, registered>>
vars == <<initVars, ctr, open, first, worked, spoiled, acts>>

Values == 1 .. Events
Zero == [e \in Values |-> 0]
NoCounters == [made |-> FALSE, added |-> << >>, hw |-> Zero, acc |-> Zero]

\* The events that could be added, in their order.
EventSets ==
  {list \in UNION {[1 .. n -> Values] : n \in 0 .. Events} :
     \A i, j \in DOMAIN list : i < j => list[i] < list[j]}

Init ==
  /\ pc = [t \in Threads |-> "app"] /\ making = [t \in Threads |-> "hardware"]
  /\ initBy = NoThread /\ once = FALSE /\ threadInits = 0 /\ registered = {}
  /\ ctr = [t \in Threads |-> NoCounters]
  /\ open = {} /\ first = [m \in Threads \X Measures |-> Zero]
  /\ worked = [t \in Threads |-> Zero] /\ spoiled = [t \in Threads |-> FALSE]
  /\ acts = 0

Goto(t, where) == pc' = [pc EXCEPT ![t] = where]
Count == acts < MaxActs /\ acts' = acts + 1
Mine(t) == {m \in open : m[1] = t}

-----------------------------------------------------------------------------
(***************************************************************************)
(* Initialisation: a call that fails throws, and the next object tries     *)
(* again.                                                                  *)
(***************************************************************************)

Make(t, what) ==
  /\ pc[t] = "app" /\ Count
  /\ Goto(t, "init")
  /\ making' = [making EXCEPT ![t] = what]
  /\ UNCHANGED <<initBy, once, threadInits, registered, ctr, open, first, worked, spoiled>>

\* Mutant: a static without a guard.
Unguarded == TRUE

\* static bool once = ...: one thread initialises it, others wait.
Guarded == initBy = NoThread

\* library::init(), up to PAPI_library_init().
LibraryInit(t) ==
  /\ pc[t] = "init" /\ ~once /\ Guarded
  /\ \/ initBy' = t /\ Goto(t, "threadinit")
     \/ Goto(t, "app") /\ UNCHANGED initBy
  /\ UNCHANGED <<making, once, threadInits, registered, ctr, open, first, worked, spoiled, acts>>

\* PAPI_thread_init()
ThreadInit(t) ==
  /\ pc[t] = "threadinit"
  /\ initBy' = NoThread
  /\ \/ once' = TRUE /\ threadInits' = threadInits + 1 /\ Goto(t, "register")
     \/ Goto(t, "app") /\ UNCHANGED <<once, threadInits>>
  /\ UNCHANGED <<making, registered, ctr, open, first, worked, spoiled, acts>>

\* thread::init(), from PAPI_register_thread() on.
Register(t) ==
  /\ pc[t] = "register" \/ (pc[t] = "init" /\ once)
  /\ \/ registered' = registered \cup {t}
        /\ Goto(t, IF making[t] = "counters" THEN "start" ELSE "app")
     \/ t \notin registered /\ Goto(t, "app") /\ UNCHANGED registered
  /\ UNCHANGED <<making, initBy, once, threadInits, ctr, open, first, worked, spoiled, acts>>

\* The rest of counters(): "events that can be added are added even if it returns
\* an error", and a thread runs one event set at a time.
StartCounters(t) ==
  /\ pc[t] = "start" /\ Goto(t, "app")
  /\ \/ UNCHANGED <<ctr, worked, spoiled>>
     \/ /\ ~ctr[t].made
        /\ \E list \in EventSets :
             ctr' = [ctr EXCEPT ![t] = [NoCounters EXCEPT !.made = TRUE, !.added = list]]
        /\ worked' = [worked EXCEPT ![t] = Zero] /\ spoiled' = [spoiled EXCEPT ![t] = FALSE]
  /\ UNCHANGED <<making, initBy, once, threadInits, registered, open, first, acts>>

\* ~counters(): the objects end in the order of their scopes.
StopCounters(t) ==
  /\ pc[t] = "app" /\ ctr[t].made /\ Mine(t) = {}
  /\ ctr' = [ctr EXCEPT ![t] = NoCounters]
  /\ worked' = [worked EXCEPT ![t] = Zero] /\ spoiled' = [spoiled EXCEPT ![t] = FALSE]
  /\ UNCHANGED <<initVars, open, first, acts>>

-----------------------------------------------------------------------------
(***************************************************************************)
(* Measuring.                                                              *)
(***************************************************************************)

\* What PAPI_read() gives for a counters object c once event e has happened: its
\* values are those of the added events, one after the other.
Counted(c, e) ==
  [k \in Values |-> c.hw[k] + IF k \in DOMAIN c.added /\ c.added[k] = e THEN 1 ELSE 0]

\* Event e happens in the thread.
Work(t, e) ==
  /\ pc[t] = "app" /\ ctr[t].made /\ Count
  /\ ctr' = [ctr EXCEPT ![t].hw = Counted(ctr[t], e)]
  /\ worked' = [worked EXCEPT ![t][e] = @ + Cardinality(Mine(t))]
  /\ UNCHANGED <<initVars, open, first, spoiled>>

\* measurement(): without its PAPI_read() there is no object.
Begin(t, m) ==
  /\ pc[t] = "app" /\ ctr[t].made /\ <<t, m>> \notin open /\ Count
  /\ open' = open \cup {<<t, m>>}
  /\ first' = [first EXCEPT ![<<t, m>>] = ctr[t].hw]
  /\ UNCHANGED <<initVars, ctr, worked, spoiled>>

\* The copy has the first read, and accumulates what comes after it once more.
CopyMeasure(t, m, n) ==
  /\ pc[t] = "app" /\ <<t, m>> \in open /\ <<t, n>> \notin open /\ Count
  /\ open' = open \cup {<<t, n>>}
  /\ first' = [first EXCEPT ![<<t, n>>] = first[<<t, m>>]]
  /\ spoiled' = [spoiled EXCEPT ![t] = TRUE]
  /\ UNCHANGED <<initVars, ctr, worked>>

\* Mutant: what is read at the end is accumulated as it is.
SecondRead(t, m) == ctr[t].hw

Difference(t, m) == [e \in Values |-> ctr[t].hw[e] - first[<<t, m>>][e]]

\* ~measurement(): a read that fails is not told to anyone.
Measured(t, m) ==
  /\ pc[t] = "app" /\ <<t, m>> \in open
  /\ open' = open \ {<<t, m>>}
  /\ first' = [first EXCEPT ![<<t, m>>] = Zero]
  /\ \/ /\ ctr' = [ctr EXCEPT ![t].acc = [e \in Values |-> @[e] + Difference(t, m)[e]]]
        /\ UNCHANGED spoiled
     \/ spoiled' = [spoiled EXCEPT ![t] = TRUE] /\ UNCHANGED ctr
  /\ UNCHANGED <<initVars, worked, acts>>

Finished == acts = MaxActs /\ (\A t \in Threads : pc[t] = "app") /\ UNCHANGED vars

Next ==
  \/ \E t \in Threads :
       \/ Make(t, "hardware") \/ Make(t, "counters")
       \/ LibraryInit(t) \/ ThreadInit(t) \/ Register(t) \/ StartCounters(t) \/ StopCounters(t)
       \/ \E e \in Values : Work(t, e)
       \/ \E m \in Measures : Begin(t, m) \/ Measured(t, m) \/ \E n \in Measures : CopyMeasure(t, m, n)
  \/ Finished

Spec == Init /\ [][Next]_vars
-----------------------------------------------------------------------------

\* "Must be called only once": PAPI_thread_init() succeeds once, whichever
\* threads make the first objects and whatever fails, and no thread is
\* registered before or counts without being registered.
InitOnce ==
  /\ threadInits <= 1
  /\ registered # {} => threadInits = 1 /\ once
  /\ \A t \in Threads : ctr[t].made => t \in registered

\* A sum and what the open measurements have counted so far.
Total(t, k) == ctr[t].acc[k] + SumFunction([m \in Mine(t) |-> ctr[t].hw[k] - first[m][k]])

\* The sums of a counters object and what its measurements have counted so far
\* are what happened inside of them, an inner measurement's counted in the outer
\* one too: each sum is that of the event PAPI reads at its place, and the places
\* left over stay empty.  A copied measurement counts twice, and one whose last
\* read failed not at all.
CountsConserved ==
  \A t \in Threads : ~spoiled[t] =>
    \A k \in Values :
      Total(t, k) = IF k \in DOMAIN ctr[t].added THEN worked[t][ctr[t].added[k]] ELSE 0
==============================================================================
