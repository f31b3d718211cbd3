------------------------------- MODULE MCTracing -------------------------------
(***************************************************************************)
(* One TLC instance for the two tracers by malloc hooks, for the call      *)
(* stacks they print and for lru_array, each on its own: a behaviour       *)
(* chooses one part and runs it, the others stay in their initial states.  *)
(* MTrace's names are taken as they are; the other parts are instances,    *)
(* and so are their properties.                                            *)
(***************************************************************************)
EXTENDS MTrace, TLC

CONSTANTS
  Parts,                                                  \* those to choose from
  MapBlocks,                                              \* MallocHooks
  Modules, Exe, Pie, Bases, Start, MaxDepth, None,        \* CallStack
  DepthWord, Fails, MaxMoves, MaxFlushes, MaxWalks,
  Keys, Values, N, MaxTime, MaxPushes                     \* LruArray

\* libmemleak's hooks: nullptr is no block, and no thread has the free lock.
ASSUME HooksAssumption == Null \notin Addrs \cup MapBlocks /\ NoThread \notin Threads

\* The executable is mapped from the start; what is not an address or a file is
\* told from one, and a stack has room for some frames.
ASSUME StackAssumption ==
  /\ Exe \in Modules /\ Bases \subseteq Nat \ {0}
  /\ Start \in [Modules -> Bases \cup {0}] /\ Start[Exe] # 0
  /\ {None, DepthWord} \cap (Modules \cup [file : Modules, base : Bases]) = {}
  /\ None # DepthWord /\ NoThread \notin Threads
  /\ Pie \in BOOLEAN /\ Fails \subseteq Modules
  /\ MaxDepth \in Nat \ {0}
  /\ MaxMoves \in Nat /\ MaxFlushes \in Nat /\ MaxWalks \in Nat

\* The array has room for an item.
ASSUME ArrayAssumption == N \in Nat \ {0} /\ MaxTime \in Nat /\ MaxPushes \in Nat

VARIABLES
  part,
  mlHook, mlOld, mlLock, mlLive, mlHeld, mlCalls, capture, tracked, call, relocated, late, raced,
  mapped, moved, syms, vmas, opened, mutex, walk, alive, moves, flushes, walks,
  data, numUsed, idxLru, idxData, now, setBack, pushes

hooksVars ==
  <<mlHook, mlOld, mlLock, mlLive, mlHeld, mlCalls, capture, tracked, call, relocated, late, raced>>
stackVars == <<mapped, moved, syms, vmas, opened, mutex, walk, alive, moves, flushes, walks>>
arrayVars == <<data, numUsed, idxLru, idxData, now, setBack, pushes>>

Track == INSTANCE MallocHooks
  WITH HeapBlocks <- Addrs, hook <- mlHook, old <- mlOld, lock <- mlLock, live <- mlLive,
       held <- mlHeld, calls <- mlCalls
Walks == INSTANCE CallStack WITH proc <- alive
Array == INSTANCE LruArray

TracingInit ==
  /\ part \in Parts
  /\ Init /\ Track!Init /\ Walks!Init
  /\ Array!Init /\ (part # "array" => data = CHOOSE d \in [Array!Indices -> Values] : TRUE)

TracingNext ==
  /\ UNCHANGED part
  /\ IF part = "mtrace" THEN Next ELSE UNCHANGED vars
  /\ IF part = "hooks" THEN Track!Next ELSE UNCHANGED hooksVars
  /\ IF part = "stack" THEN Walks!Next ELSE UNCHANGED stackVars
  /\ IF part = "array" THEN Array!Next ELSE UNCHANGED arrayVars

TracingSpec ==
  TracingInit /\ [][TracingNext]_<<part, vars, hooksVars, stackVars, arrayVars>>
-----------------------------------------------------------------------------
(***************************************************************************)
(* The properties of the parts, stated and explained in their modules.     *)
(***************************************************************************)

\* MallocHooks: nobody waits for the lock he has.
NeverRelocks == Track!NeverRelocks

\* MallocHooks: what the program holds is on record.
HeldIsNoted == Track!HeldIsNoted

\* MallocHooks: what realloc() has moved is on record.
MovedIsNoted == Track!MovedIsNoted

\* CallStack: a base kept by library is the present one.
BaseFresh == Walks!BaseFresh

\* CallStack: a frame's names are in a bfd that is open.
NamesOpen == Walks!NamesOpen

\* CallStack: a walk prints every frame of its stack.
WalkComplete == Walks!WalkComplete

\* LruArray: the two indexes agree.
Consistent == Array!Consistent

\* LruArray: it is the map of the keys pushed last.
ImplementsLRUMap == Array!ImplementsLRUMap

-----------------------------------------------------------------------------
\* What the run gives Start, and the names that can be exchanged.
MCStart == [f \in Modules |-> IF f = Exe THEN 1 ELSE 3]
Symmetry == Permutations(Threads) \cup Permutations(Addrs)
================================================================================
