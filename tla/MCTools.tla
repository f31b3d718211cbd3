-------------------------------- MODULE MCTools --------------------------------
(***************************************************************************)
(* One TLC instance for the small tools, which have nothing to do with     *)
(* each other: a behaviour chooses one of them and runs it, the others     *)
(* stay in their initial states.                                           *)
(***************************************************************************)
EXTENDS Integers, FiniteSets

CONSTANTS
  Tools,                                                  \* those to choose from
  Threads, NoThread, Null,
  Objs, Addrs, Garbage, MaxSteps,                         \* SymbolInfo
  Allocators, InitialItems, MaxItems,                     \* PoolAllocator
  MaxLines, Deltas,                                       \* AutoIndent
  Accs, Measures, Memory, MaxTime,                        \* Chrono
  Workers, Loops, Programs, Bodies, Rounds,               \* Workers
  Sender, Receiver,                                       \* MessagePassing
  Events, MaxActs,                                        \* Papi
  Limits,                                                 \* EnumScan
  Roots, Tasks, Schedulers, Nobody, Shared, MaxOps        \* CoroStack

\* No thread is nobody, and race_test's two threads are different ones; counters have some events and
\* allocators some items; no object of the program is an operator's parameter;
\* intervals, levels and times are whole numbers.  A measured function has some
\* workers, each a thread, and is one of the examples', which add in one of their
\* ways.
ASSUME ToolsAssumption ==
  /\ NoThread \notin Threads /\ Sender \in Threads /\ Receiver \in Threads /\ Sender # Receiver
  /\ Events \in Nat /\ InitialItems \in Nat
  /\ "temp" \notin Objs
  /\ Limits \subseteq Int /\ Deltas \subseteq Int /\ Memory \subseteq Nat
  /\ IsFiniteSet(Workers) /\ Workers # {} /\ NoThread \notin Workers /\ Loops \in Nat
  /\ Programs \subseteq {"sum", "emplace", "churn", "timed"}
  /\ Bodies \subseteq {"plain", "static", "atomic", "local", "cas", "fetch", "mutex"}

\* nullptr is no coroutine and no scheduler, and spawn_task() makes a coroutine
\* of its own.
ASSUME CoroAssumption ==
  Nobody \notin Roots \cup Tasks \cup Schedulers /\ Roots \cap Tasks = {}

VARIABLES
  tool,
  platform, kind, alive, addr, names, buffer, given, emptied, exchanged, steps,
  heap, used, leaked, items, assigned,
  level, guards, column, text, crossed, off, printed,
  now, elapsed, start, to, found, extra, inside, made,
  program, body, phase, round, main, failed, at, left, loaded, local, mtx, stopFlag, sum,
  order, flag, sync, known, step, racing,
  pc, making, initBy, once, threadInits, registered, ctr, open, first, worked, spoiled, acts,
  vmin, vmax, enumerators, index, counted,
  status, owner, parent, child, handle, sched, toResume, proc, misused, ops

symVars == <<platform, kind, alive, addr, names, buffer, given, emptied, exchanged, steps>>
poolVars == <<heap, used, leaked, items, assigned>>
indentVars == <<level, guards, column, text, crossed, off, printed>>
chronoVars == <<now, elapsed, start, to, found, extra, inside, made>>
workersVars == <<program, body, phase, round, main, failed, at, left, loaded, local, mtx, stopFlag, sum>>
messageVars == <<order, flag, sync, known, step, racing>>
papiVars == <<pc, making, initBy, once, threadInits, registered, ctr, open, first, worked, spoiled, acts>>
scanVars == <<vmin, vmax, enumerators, index, counted>>
coroVars == <<status, owner, parent, child, handle, sched, toResume, proc, misused, ops>>

Sym == INSTANCE SymbolInfo
Pool == INSTANCE PoolAllocator
Indent == INSTANCE AutoIndent
Time == INSTANCE Chrono
Work == INSTANCE Workers
Message == INSTANCE MessagePassing
Perf == INSTANCE Papi
Scan == INSTANCE EnumScan
Coro == INSTANCE CoroStack

\* What the run gives the constants that hold negative numbers.
EnumLimits == -2 .. 3
GuardDeltas == {-1, 1, 2}

\* A tool that is not chosen has one initial state.
ToolsInit ==
  /\ tool \in Tools
  /\ Pool!Init /\ Indent!Init /\ Time!Init /\ Perf!Init /\ Coro!Init
  /\ Sym!Init /\ (tool # "symbol" => platform = "glibc" /\ kind = "frame")
  /\ Message!Init /\ (tool # "message" => order = "release")
  /\ Work!Init /\ (tool # "workers" => program = "sum" /\ body = "atomic")
  /\ IF tool = "enum" THEN Scan!Init
     ELSE vmin = 0 /\ vmax = 0 /\ enumerators = {} /\ index = 0 /\ counted = 0

ToolsNext ==
  /\ UNCHANGED tool
  /\ IF tool = "symbol" THEN Sym!Next ELSE UNCHANGED symVars
  /\ IF tool = "pool" THEN Pool!Next ELSE UNCHANGED poolVars
  /\ IF tool = "indent" THEN Indent!Next ELSE UNCHANGED indentVars
  /\ IF tool = "chrono" THEN Time!Next ELSE UNCHANGED chronoVars
  /\ IF tool = "workers" THEN Work!Next ELSE UNCHANGED workersVars
  /\ IF tool = "message" THEN Message!Next ELSE UNCHANGED messageVars
  /\ IF tool = "papi" THEN Perf!Next ELSE UNCHANGED papiVars
  /\ IF tool = "enum" THEN Scan!Next ELSE UNCHANGED scanVars
  /\ IF tool = "coro" THEN Coro!Next ELSE UNCHANGED coroVars

toolsVars == <<tool, symVars, poolVars, indentVars, chronoVars, workersVars,
          messageVars, papiVars, scanVars, coroVars>>

\* Coroutines are the only tool whose progress is checked.
ToolsSpec == ToolsInit /\ [][ToolsNext]_toolsVars /\ Coro!Fairness
-----------------------------------------------------------------------------
(***************************************************************************)
(* Each tool's properties, stated and explained in its module.             *)
(***************************************************************************)

\* SymbolInfo: copies, moves, swaps and assignments keep addresses and names.
NamesMatch == Sym!NamesMatch

\* PoolAllocator: an item is in one place.
OneOwner == Pool!OneOwner

\* AutoIndent: levels and indents follow the guards.
IndentFollows == Indent!IndentFollows

\* Chrono: an accumulator adds up what its measurements have run.
ElapsedExact == Time!ElapsedExact

\* Chrono: it starts from nothing.
ElapsedIsMeasured == Time!ElapsedIsMeasured

\* Workers: a measured function returns with everything added.
SumExact == Work!SumExact

\* Workers: nobody passes a barrier before everyone has come to it.
BarrierOpens == Work!BarrierOpens

\* MessagePassing: the release store orders the two writes.
MessageOrdered == Message!MessageOrdered

\* Papi: the library and the threads are initialised once, before their use.
InitOnce == Perf!InitOnce

\* Papi: nested measurements add up, place by place.
CountsConserved == Perf!CountsConserved

\* EnumScan: an interval with 0 in it or at an end is scanned.
ScansAroundZero == Scan!ScansAroundZero

\* CoroStack: the links are the stack of awaits.
LinksMatch == Coro!LinksMatch

\* CoroStack: a spawned task delivers its result.
Finishes == Coro!Finishes
==============================================================================
