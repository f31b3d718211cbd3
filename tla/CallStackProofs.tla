--------------------------- MODULE CallStackProofs ---------------------------
(***************************************************************************)
(* Proofs about CallStack for any set of threads, modules and bases, and   *)
(* any number of loads, flushes and walks: MCTracing's instance Walks.     *)
(***************************************************************************)
EXTENDS MCTracing, TLAPS

StackPositions == {"app", "frame", "lock", "maps", "open", "line", "resolved"}
Cells == Walks!Address \cup {None, DepthWord}
SymbolType == [addr : Cells, file : Modules \cup {None}, bfd : Nat, flushed : BOOLEAN]
WalkType == [pc : StackPositions, way : {"stream", "iterate"}, stack : Seq(Walks!Address), pos : Nat \ {0},
             sym : SymbolType, base : Nat, printed : Seq(Cells)]

\* The types of the library's caches and of the walks.
StackTypeOK ==
  /\ mapped \in [Modules -> Bases \cup {0}] /\ moved \subseteq Modules
  /\ DOMAIN syms \subseteq Modules /\ \A f \in DOMAIN syms : syms[f] \in [base : Nat, bfd : Nat]
  /\ DOMAIN vmas \subseteq Modules /\ \A f \in DOMAIN vmas : vmas[f] \in Nat
  /\ opened \in Nat
  /\ walk \in [Threads -> WalkType]

\* Inside resolve() a thread has _lib_mutex and a file to look up.
Resolving == {"maps", "open", "line"}
HoldsMutex == \A t \in Threads : walk[t].pc \in Resolving => mutex = t /\ Walks!File(t) # None

\* A file is opened when it is not in the cache, and looked up when it is; the
\* base at hand is then as fresh as the cached ones.
CacheKnown ==
  \A t \in Threads :
    /\ walk[t].pc \in {"maps", "open"} => Walks!File(t) \notin DOMAIN syms
    /\ walk[t].pc = "line" => Walks!File(t) \in DOMAIN syms
    /\ walk[t].pc = "open" => Walks!File(t) \in moved \/ walk[t].base = Walks!MapBase(Walks!File(t))

\* A frame that is not resolved yet has no names.
NoNamesYet == \A t \in Threads : walk[t].pc \in {"lock"} \cup Resolving => walk[t].sym.bfd = 0

\* The inductive invariant: whoever fills the caches does so alone, with a base
\* that a module's move or a flush would have made known to it.
IInv == StackTypeOK /\ HoldsMutex /\ CacheKnown /\ NoNamesYet /\ Walks!BaseFresh /\ Walks!NamesOpen

\* The caches and the mutex are empty and free at first, and nobody walks.
LEMMA InitInv == Walks!Init => IInv
  <1> SUFFICES ASSUME Walks!Init PROVE IInv
    OBVIOUS
  <1>1. DOMAIN syms = {} /\ DOMAIN vmas = {}
    BY DEF Walks!Init
  <1>2. Walks!Idle \in WalkType
    BY DEF Walks!Idle, Walks!Walk, Walks!Symbol, WalkType, SymbolType, StackPositions, Cells
  <1>3. StackTypeOK
    BY <1>1, <1>2, StackAssumption DEF Walks!Init, StackTypeOK
  <1>4. \A t \in Threads : walk[t].pc = "app"
    BY DEF Walks!Init, Walks!Idle, Walks!Walk
  <1>5. QED
    BY <1>1, <1>3, <1>4
    DEF IInv, HoldsMutex, CacheKnown, NoNamesYet, Walks!BaseFresh, Walks!NamesOpen, Resolving

\* A walk that goes on outside of resolve(), without names, disturbs nobody.
LEMMA OutsideStep ==
  ASSUME IInv, NEW t \in Threads, NEW w \in WalkType,
         walk' = [walk EXCEPT ![t] = w],
         walk[t].pc \notin Resolving, w.pc \notin Resolving,
         w.pc \in {"lock", "resolved"} => w.sym.bfd = 0,
         UNCHANGED <<mapped, moved, syms, vmas, opened, mutex>>
  PROVE  IInv'
  <1>1. walk'[t] = w /\ \A u \in Threads \ {t} : walk'[u] = walk[u]
    BY DEF IInv, StackTypeOK
  <1>2. StackTypeOK'
    BY DEF IInv, StackTypeOK
  <1>3. HoldsMutex' /\ NoNamesYet'
    BY <1>1 DEF IInv, HoldsMutex, NoNamesYet, Walks!File, Resolving
  <1>4. CacheKnown'
    BY <1>1 DEF IInv, CacheKnown, Walks!File, Walks!MapBase, Resolving
  <1>5. Walks!BaseFresh'
    BY DEF IInv, Walks!BaseFresh, Walks!MapBase
  <1>6. Walks!NamesOpen'
    BY <1>1 DEF IInv, Walks!NamesOpen
  <1>7. QED
    BY <1>2, <1>3, <1>4, <1>5, <1>6 DEF IInv

LEMMA CaptureStep ==
  ASSUME IInv, NEW t \in Threads, Walks!Capture(t)
  PROVE  IInv'
  <1> DEFINE Live == {a \in Walks!Address : a.base = mapped[a.file]}
  <1>1. PICK stack \in Walks!SeqOf(Live, MaxDepth), way \in {"stream", "iterate"} :
          walk' = [walk EXCEPT ![t] = Walks!Walk("frame", way, stack)]
    BY DEF Walks!Capture
  <1>2. stack \in Seq(Walks!Address)
    BY DEF Walks!SeqOf
  <1>3. Walks!Walk("frame", way, stack) \in WalkType
    BY <1>2 DEF Walks!Walk, Walks!Symbol, WalkType, SymbolType, StackPositions, Cells
  <1>4. Walks!Walk("frame", way, stack).pc = "frame" /\ walk[t].pc = "app"
    BY DEF Walks!Walk, Walks!Capture, Walks!At
  <1>5. QED
    BY <1>1, <1>3, <1>4, OutsideStep DEF Walks!Capture, Resolving

LEMMA DladdrStep ==
  ASSUME IInv, NEW t \in Threads, Walks!Dladdr(t)
  PROVE  IInv'
  <1> DEFINE addr == Walks!Cell(walk[t].stack, walk[t].pos)
             file == IF addr \in Walks!Address /\ mapped[addr.file] = addr.base THEN addr.file ELSE None
             w == [walk[t] EXCEPT !.sym = Walks!Symbol(addr, file), !.pc = "lock"]
  <1>1. walk[t] \in WalkType /\ walk[t].pc = "frame"
    BY DEF IInv, StackTypeOK, Walks!Dladdr, Walks!At
  <1>2. addr \in Cells
    BY <1>1 DEF Walks!Cell, Cells, WalkType
  <1>3. file \in Modules \cup {None}
    BY DEF Walks!Address
  <1>4. w \in WalkType /\ w.pc = "lock" /\ w.sym.bfd = 0
    BY <1>1, <1>2, <1>3 DEF WalkType, SymbolType, Walks!Symbol, StackPositions
  <1>5. walk' = [walk EXCEPT ![t] = w]
    BY <1>1 DEF Walks!Dladdr, WalkType, IInv, StackTypeOK
  <1>6. QED
    BY <1>1, <1>4, <1>5, OutsideStep DEF Walks!Dladdr, Resolving

\* Printing a frame and going on, and the end of a walk.
LEMMA PrintStep ==
  ASSUME IInv, NEW t \in Threads, Walks!PrintFrame(t) \/ Walks!End(t)
  PROVE  IInv'
  <1>1. walk[t] \in WalkType
    BY DEF IInv, StackTypeOK
  <1>2. CASE Walks!PrintFrame(t)
    <2> DEFINE w == [walk[t] EXCEPT !.printed = Append(walk[t].printed, walk[t].sym.addr),
                                    !.pos = walk[t].pos + 1, !.pc = "frame"]
    <2>1. walk' = [walk EXCEPT ![t] = w] /\ walk[t].pc = "resolved"
      BY <1>1, <1>2 DEF Walks!PrintFrame, Walks!At, WalkType, IInv, StackTypeOK
    <2>2. Append(walk[t].printed, walk[t].sym.addr) \in Seq(Cells)
      <3>1. walk[t].printed \in Seq(Cells) /\ walk[t].sym.addr \in Cells
        BY <1>1 DEF WalkType, SymbolType
      <3>2. QED
        BY <3>1
    <2>3. walk[t].pos + 1 \in Nat \ {0}
      BY <1>1 DEF WalkType
    <2>4. w \in WalkType /\ w.pc = "frame"
      BY <1>1, <2>2, <2>3, Zenon DEF WalkType, StackPositions
    <2>5. QED
      BY <1>2, <2>1, <2>4, OutsideStep DEF Walks!PrintFrame, Resolving
  <1>3. CASE Walks!End(t)
    <2>1. walk' = [walk EXCEPT ![t] = Walks!Idle] /\ walk[t].pc \in {"frame", "resolved"}
      BY <1>3 DEF Walks!End, Walks!AtLoopTest
    <2>2. Walks!Idle \in WalkType /\ Walks!Idle.pc = "app"
      BY DEF Walks!Idle, Walks!Walk, Walks!Symbol, WalkType, SymbolType, StackPositions, Cells
    <2>3. QED
      BY <1>3, <2>1, <2>2, OutsideStep DEF Walks!End, Resolving
  <1>4. QED
    BY <1>2, <1>3

\* A module's move puts it among those whose bases may be out of date.
LEMMA MoveStep ==
  ASSUME IInv, NEW f \in Modules, Walks!Move(f)
  PROVE  IInv'
  <1>1. /\ mapped' \in [Modules -> Bases \cup {0}]
        /\ \A g \in Modules \ {f} : mapped'[g] = mapped[g]
        /\ moved' = moved \cup {f}
        /\ UNCHANGED <<syms, vmas, opened, mutex, walk>>
    BY DEF IInv, StackTypeOK, Walks!Move
  <1>2. StackTypeOK'
    BY <1>1 DEF IInv, StackTypeOK
  <1>3. HoldsMutex' /\ NoNamesYet' /\ Walks!NamesOpen'
    BY <1>1 DEF IInv, HoldsMutex, NoNamesYet, Walks!NamesOpen, Walks!File
  <1>4. Walks!BaseFresh'
    BY <1>1 DEF IInv, StackTypeOK, Walks!BaseFresh, Walks!MapBase
  <1>5. ASSUME NEW u \in Threads, walk[u].pc = "open"
        PROVE  Walks!File(u)' \in moved' \/ walk'[u].base = Walks!MapBase(Walks!File(u))'
    <2>1. Walks!File(u)' = Walks!File(u) /\ Walks!File(u) \in Modules
      BY <1>1, <1>5 DEF IInv, StackTypeOK, WalkType, SymbolType, HoldsMutex, Resolving, Walks!File
    <2>2. CASE Walks!File(u) \in moved'
      BY <2>1, <2>2
    <2>3. CASE Walks!File(u) \notin moved'
      BY <1>1, <1>5, <2>1, <2>3 DEF IInv, CacheKnown, Walks!MapBase
    <2>4. QED
      BY <2>2, <2>3
  <1>6. CacheKnown'
    BY <1>1, <1>5 DEF IInv, CacheKnown, Walks!File
  <1>7. QED
    BY <1>2, <1>3, <1>4, <1>6 DEF IInv

\* A flush empties the caches while nobody is inside resolve().
LEMMA FlushStep ==
  ASSUME IInv, Walks!Flush
  PROVE  IInv'
  <1>1. /\ mutex = NoThread /\ UNCHANGED <<mapped, opened, mutex>>
        /\ moved' = {} /\ DOMAIN syms' = {} /\ DOMAIN vmas' = {}
        /\ walk' = [t \in Threads |-> Walks!Flushed(t)]
    BY DEF Walks!Flush
  <1>2. \A t \in Threads : walk[t].pc \notin Resolving
    BY <1>1, StackAssumption DEF IInv, HoldsMutex
  <1>3. ASSUME NEW t \in Threads
        PROVE  /\ walk'[t] \in WalkType
               /\ walk'[t].pc = walk[t].pc /\ walk'[t].sym.bfd = walk[t].sym.bfd
               /\ walk'[t].sym.flushed = TRUE
    <2>1. walk[t] \in WalkType
      BY DEF IInv, StackTypeOK
    <2>2. walk'[t] = [walk[t] EXCEPT !.sym = [walk[t].sym EXCEPT !.flushed = TRUE]]
      BY <1>1, <2>1 DEF Walks!Flushed, WalkType, SymbolType
    <2>3. [walk[t].sym EXCEPT !.flushed = TRUE] \in SymbolType
      BY <2>1 DEF WalkType, SymbolType
    <2>4. /\ [walk[t].sym EXCEPT !.flushed = TRUE].bfd = walk[t].sym.bfd
          /\ [walk[t].sym EXCEPT !.flushed = TRUE].flushed = TRUE
      BY <2>1 DEF WalkType, SymbolType
    <2>5. QED
      BY <2>1, <2>2, <2>3, <2>4 DEF WalkType
  <1>4. StackTypeOK'
    BY <1>1, <1>3 DEF IInv, StackTypeOK
  <1>5. HoldsMutex' /\ CacheKnown'
    BY <1>2, <1>3 DEF HoldsMutex, CacheKnown, Resolving
  <1>6. NoNamesYet'
    BY <1>3 DEF IInv, NoNamesYet
  <1>7. Walks!BaseFresh' /\ Walks!NamesOpen'
    BY <1>1, <1>3 DEF Walks!BaseFresh, Walks!NamesOpen
  <1>8. QED
    BY <1>4, <1>5, <1>6, <1>7 DEF IInv

\* resolve() takes the mutex: nobody else is inside.
LEMMA ResolveStep ==
  ASSUME IInv, NEW t \in Threads, Walks!Resolve(t)
  PROVE  IInv'
  <1>1. walk[t] \in WalkType /\ walk[t].pc = "lock" /\ mutex = NoThread
    BY DEF IInv, StackTypeOK, Walks!Resolve, Walks!At
  <1>2. UNCHANGED <<mapped, moved, syms, vmas, opened>>
    BY DEF Walks!Resolve
  <1>3. CASE Walks!File(t) = None
    <2> DEFINE w == [walk[t] EXCEPT !.pc = "resolved"]
    <2>1. walk' = [walk EXCEPT ![t] = w] /\ UNCHANGED mutex
      BY <1>3 DEF Walks!Resolve, Walks!Goto, IInv, StackTypeOK
    <2>2. w \in WalkType /\ w.pc = "resolved" /\ w.sym.bfd = 0
      BY <1>1 DEF IInv, NoNamesYet, WalkType, StackPositions
    <2>3. QED
      BY <1>1, <1>2, <2>1, <2>2, OutsideStep DEF Resolving
  <1>4. CASE Walks!File(t) # None
    <2> DEFINE w == [walk[t] EXCEPT !.pc = IF Walks!File(t) \in DOMAIN syms THEN "line" ELSE "maps"]
    <2>1. walk' = [walk EXCEPT ![t] = w] /\ mutex' = t
      BY <1>4 DEF Walks!Resolve, Walks!Goto, IInv, StackTypeOK
    <2>2. /\ w \in WalkType /\ w.pc = IF Walks!File(t) \in DOMAIN syms THEN "line" ELSE "maps"
          /\ w.sym = walk[t].sym
      BY <1>1 DEF WalkType, StackPositions
    <2>3. walk'[t] = w /\ \A u \in Threads \ {t} : walk'[u] = walk[u]
      BY <2>1 DEF IInv, StackTypeOK
    <2>4. \A u \in Threads : walk[u].pc \notin Resolving
      BY <1>1, StackAssumption DEF IInv, HoldsMutex
    <2> HIDE DEF w
    <2>5. StackTypeOK'
      BY <1>2, <2>1, <2>2 DEF IInv, StackTypeOK
    <2>6. HoldsMutex'
      BY <1>4, <2>1, <2>2, <2>3, <2>4 DEF HoldsMutex, Walks!File
    <2>7. CacheKnown'
      BY <1>2, <2>2, <2>3, <2>4 DEF CacheKnown, Walks!File, Resolving
    <2>8. NoNamesYet'
      BY <1>1, <2>2, <2>3 DEF IInv, NoNamesYet
    <2>9. Walks!BaseFresh'
      BY <1>2 DEF IInv, Walks!BaseFresh, Walks!MapBase
    <2>10. Walks!NamesOpen'
      BY <1>2, <2>2, <2>3 DEF IInv, Walks!NamesOpen
    <2>11. QED
      BY <2>5, <2>6, <2>7, <2>8, <2>9, <2>10 DEF IInv
  <1>5. QED
    BY <1>3, <1>4

\* What is kept when neither the caches nor the walks change.
LEMMA KeptStep ==
  ASSUME IInv, UNCHANGED <<mapped, moved, syms, vmas, opened, mutex, walk>>
  PROVE  IInv'
  BY DEF IInv, StackTypeOK, HoldsMutex, CacheKnown, NoNamesYet, Walks!BaseFresh, Walks!NamesOpen, Walks!File, Walks!MapBase

\* Who is inside resolve() is alone there, with a module's file.
LEMMA Alone ==
  ASSUME IInv, NEW t \in Threads, walk[t].pc \in Resolving
  PROVE  /\ walk[t] \in WalkType /\ Walks!File(t) \in Modules /\ mutex = t
         /\ \A u \in Threads \ {t} : walk[u].pc \notin Resolving
  BY DEF IInv, StackTypeOK, HoldsMutex, WalkType, SymbolType, Walks!File

\* The base is the remembered one or the one in the maps: fresh, either way,
\* unless the module has moved since the last flush.
LEMMA MapsStep ==
  ASSUME IInv, NEW t \in Threads, Walks!ComputeMapsBase(t)
  PROVE  IInv'
  <1> DEFINE f == Walks!File(t)
             base == IF f \in DOMAIN vmas THEN vmas[f] ELSE Walks!MapBase(f)
             w == [walk[t] EXCEPT !.base = base, !.pc = "open"]
  <1>1. CASE UNCHANGED <<vmas, walk>>
    BY <1>1, KeptStep DEF Walks!ComputeMapsBase
  <1>2. CASE ~UNCHANGED <<vmas, walk>>
    <2>1. walk[t].pc = "maps" /\ UNCHANGED <<mapped, moved, syms, opened, mutex>>
      BY DEF Walks!ComputeMapsBase, Walks!At
    <2>2. /\ walk[t] \in WalkType /\ f \in Modules /\ mutex = t
          /\ \A u \in Threads \ {t} : walk[u].pc \notin Resolving
      BY <2>1, Alone DEF Resolving
    <2>3. f \in moved \/ base = Walks!MapBase(f)
      BY DEF IInv, Walks!BaseFresh
    <2>4. base \in Nat
      BY <2>2, StackAssumption DEF IInv, StackTypeOK, Walks!MapBase
    <2>5. /\ vmas' = IF mapped[f] = 0 THEN vmas
                     ELSE [g \in DOMAIN vmas \cup {f} |-> IF g = f THEN base ELSE vmas[g]]
          /\ walk' = [walk EXCEPT ![t] = w]
      <3>1. walk' = [walk EXCEPT ![t].base = base, ![t].pc = "open"]
        BY <1>2 DEF Walks!ComputeMapsBase
      <3>2. [walk EXCEPT ![t].base = base, ![t].pc = "open"] = [walk EXCEPT ![t] = w]
        <4> HIDE DEF base
        <4>1. QED
          BY <2>2 DEF IInv, StackTypeOK, WalkType
      <3>3. QED
        BY <1>2, <3>1, <3>2 DEF Walks!ComputeMapsBase
    <2> HIDE DEF base
    <2>6. w \in WalkType /\ w.pc = "open" /\ w.sym = walk[t].sym /\ w.base = base
      BY <2>2, <2>4 DEF WalkType, StackPositions
    <2> HIDE DEF w
    <2>7. walk'[t] = w /\ \A u \in Threads \ {t} : walk'[u] = walk[u]
      BY <2>5 DEF IInv, StackTypeOK
    <2>8. /\ DOMAIN vmas' \subseteq DOMAIN vmas \cup {f}
          /\ \A g \in DOMAIN vmas' : (g = f /\ vmas'[g] = base) \/ (g \in DOMAIN vmas /\ vmas'[g] = vmas[g])
      <3>1. CASE mapped[f] = 0
        BY <2>5, <3>1
      <3>2. CASE mapped[f] # 0
        BY <2>5, <3>2
      <3>3. QED
        BY <3>1, <3>2
    <2>9. StackTypeOK'
      BY <2>1, <2>2, <2>4, <2>5, <2>6, <2>8 DEF IInv, StackTypeOK
    <2>10. HoldsMutex' /\ NoNamesYet'
      BY <2>1, <2>2, <2>6, <2>7 DEF IInv, HoldsMutex, NoNamesYet, Walks!File, Resolving
    <2>11. CacheKnown'
      BY <2>1, <2>2, <2>3, <2>6, <2>7 DEF IInv, CacheKnown, Walks!File, Walks!MapBase, Resolving
    <2>12. Walks!BaseFresh'
      BY <2>1, <2>3, <2>8 DEF IInv, Walks!BaseFresh, Walks!MapBase
    <2>13. Walks!NamesOpen'
      BY <2>1, <2>6, <2>7 DEF IInv, Walks!NamesOpen
    <2>14. QED
      BY <2>9, <2>10, <2>11, <2>12, <2>13 DEF IInv
  <1>3. QED
    BY <1>1, <1>2

\* A file that was not in the cache is now, with the base at hand; the names of
\* other frames belong to other files' bfds.
LEMMA OpenStep ==
  ASSUME IInv, NEW t \in Threads, Walks!OpenBfd(t)
  PROVE  IInv'
  <1>1. walk[t].pc = "open" /\ UNCHANGED <<mapped, moved, vmas>>
    BY DEF Walks!OpenBfd, Walks!At
  <1>2. /\ walk[t] \in WalkType /\ Walks!File(t) \in Modules /\ mutex = t
        /\ \A u \in Threads \ {t} : walk[u].pc \notin Resolving
    BY <1>1, Alone DEF Resolving
  <1>3. CASE UNCHANGED <<syms, opened, mutex, walk>>
    BY <1>1, <1>3, KeptStep
  <1>4. CASE mutex' = NoThread /\ Walks!Goto(t, "resolved") /\ UNCHANGED <<syms, opened>>
    <2> DEFINE w == [walk[t] EXCEPT !.pc = "resolved"]
    <2>1. walk' = [walk EXCEPT ![t] = w]
      BY <1>4 DEF Walks!Goto, IInv, StackTypeOK
    <2>2. w \in WalkType /\ w.pc = "resolved" /\ w.sym = walk[t].sym /\ w.sym.bfd = 0
      BY <1>1, <1>2 DEF IInv, NoNamesYet, WalkType, StackPositions, Resolving
    <2> HIDE DEF w
    <2>3. walk'[t] = w /\ \A u \in Threads \ {t} : walk'[u] = walk[u]
      BY <2>1 DEF IInv, StackTypeOK
    <2>4. StackTypeOK'
      BY <1>1, <1>4, <2>1, <2>2 DEF IInv, StackTypeOK
    <2>5. HoldsMutex' /\ CacheKnown'
      BY <1>1, <1>2, <1>4, <2>2, <2>3 DEF IInv, HoldsMutex, CacheKnown, Walks!File, Walks!MapBase, Resolving
    <2>6. NoNamesYet' /\ Walks!NamesOpen'
      BY <1>4, <2>2, <2>3 DEF IInv, NoNamesYet, Walks!NamesOpen, Resolving
    <2>7. Walks!BaseFresh'
      BY <1>1, <1>4 DEF IInv, Walks!BaseFresh, Walks!MapBase
    <2>8. QED
      BY <2>4, <2>5, <2>6, <2>7 DEF IInv
  <1>5. CASE /\ opened' = opened + 1
             /\ syms' = [g \in DOMAIN syms \cup {Walks!File(t)} |->
                           IF g = Walks!File(t) THEN [base |-> walk[t].base, bfd |-> opened'] ELSE syms[g]]
             /\ Walks!Goto(t, "line") /\ UNCHANGED mutex
    <2> DEFINE w == [walk[t] EXCEPT !.pc = "line"]
    <2>1. walk' = [walk EXCEPT ![t] = w]
      BY <1>5 DEF Walks!Goto, IInv, StackTypeOK
    <2>2. w \in WalkType /\ w.pc = "line" /\ w.sym = walk[t].sym
      BY <1>2 DEF WalkType, StackPositions
    <2> HIDE DEF w
    <2>3. walk'[t] = w /\ \A u \in Threads \ {t} : walk'[u] = walk[u]
      BY <2>1 DEF IInv, StackTypeOK
    <2>4. /\ Walks!File(t) \notin DOMAIN syms /\ DOMAIN syms' = DOMAIN syms \cup {Walks!File(t)}
          /\ syms'[Walks!File(t)] = [base |-> walk[t].base, bfd |-> opened + 1]
          /\ \A g \in DOMAIN syms : syms'[g] = syms[g]
          /\ Walks!File(t) \in moved \/ walk[t].base = Walks!MapBase(Walks!File(t))
      BY <1>1, <1>5 DEF IInv, CacheKnown
    <2>5. StackTypeOK'
      <3>1. [base |-> walk[t].base, bfd |-> opened + 1] \in [base : Nat, bfd : Nat]
        BY <1>2 DEF IInv, StackTypeOK, WalkType
      <3>2. \A f \in DOMAIN syms' : syms'[f] \in [base : Nat, bfd : Nat]
        BY <2>4, <3>1 DEF IInv, StackTypeOK
      <3>3. QED
        BY <1>1, <1>2, <1>5, <2>1, <2>2, <2>4, <3>2 DEF IInv, StackTypeOK
    <2>6. HoldsMutex' /\ NoNamesYet'
      BY <1>1, <1>2, <1>5, <2>2, <2>3 DEF IInv, HoldsMutex, NoNamesYet, Walks!File, Resolving
    <2>7. CacheKnown'
      BY <1>2, <2>2, <2>3, <2>4 DEF CacheKnown, Walks!File, Resolving
    <2>8. Walks!BaseFresh'
      <3>1. \A g \in DOMAIN syms' \ moved' : syms'[g].base = Walks!MapBase(g)
        BY <1>1, <2>4 DEF IInv, Walks!BaseFresh
      <3>2. QED
        BY <1>1, <3>1 DEF IInv, Walks!BaseFresh, Walks!MapBase
    <2>9. Walks!NamesOpen'
      BY <2>2, <2>3, <2>4 DEF IInv, Walks!NamesOpen
    <2>10. QED
      BY <2>5, <2>6, <2>7, <2>8, <2>9 DEF IInv
  <1>6. QED
    BY <1>3, <1>4, <1>5 DEF Walks!OpenBfd

\* The names a frame gets are those of the bfd that is in the cache now.
LEMMA LineStep ==
  ASSUME IInv, NEW t \in Threads, Walks!FindLine(t)
  PROVE  IInv'
  <1>1. walk[t].pc = "line" /\ mutex' = NoThread /\ UNCHANGED <<mapped, moved, syms, vmas, opened>>
    BY DEF Walks!FindLine, Walks!At
  <1>2. /\ walk[t] \in WalkType /\ Walks!File(t) \in Modules /\ mutex = t
        /\ \A u \in Threads \ {t} : walk[u].pc \notin Resolving
    BY <1>1, Alone DEF Resolving
  <1>3. Walks!File(t) \in DOMAIN syms /\ syms[Walks!File(t)].bfd \in Nat
    BY <1>1 DEF IInv, StackTypeOK, CacheKnown
  <1>4. PICK w \in WalkType :
          /\ walk' = [walk EXCEPT ![t] = w] /\ w.pc = "resolved"
          /\ w.sym.bfd \in {0, syms[Walks!File(t)].bfd}
    <2> DEFINE sym == [walk[t].sym EXCEPT !.bfd = syms[Walks!File(t)].bfd, !.flushed = FALSE]
    <2>1. CASE walk' = [walk EXCEPT ![t].sym = sym, ![t].pc = "resolved"]
      <3>1. sym \in SymbolType /\ sym.bfd = syms[Walks!File(t)].bfd
        BY <1>2, <1>3 DEF WalkType, SymbolType
      <3> HIDE DEF sym
      <3> DEFINE w == [walk[t] EXCEPT !.sym = sym, !.pc = "resolved"]
      <3>2. w \in WalkType /\ w.pc = "resolved" /\ w.sym = sym
        BY <1>2, <3>1 DEF WalkType, StackPositions
      <3>3. walk' = [walk EXCEPT ![t] = w]
        BY <1>2, <2>1 DEF IInv, StackTypeOK, WalkType
      <3>4. QED
        BY <3>1, <3>2, <3>3
    <2>2. CASE Walks!Goto(t, "resolved")
      <3> DEFINE w == [walk[t] EXCEPT !.pc = "resolved"]
      <3>1. w \in WalkType /\ w.pc = "resolved" /\ w.sym.bfd = 0
        BY <1>1, <1>2 DEF IInv, NoNamesYet, WalkType, StackPositions, Resolving
      <3>2. walk' = [walk EXCEPT ![t] = w]
        BY <2>2 DEF Walks!Goto, IInv, StackTypeOK
      <3>3. QED
        BY <3>1, <3>2
    <2>3. QED
      BY <2>1, <2>2 DEF Walks!FindLine
  <1>5. walk'[t] = w /\ \A u \in Threads \ {t} : walk'[u] = walk[u]
    BY <1>4 DEF IInv, StackTypeOK
  <1>6. StackTypeOK'
    BY <1>1, <1>4 DEF IInv, StackTypeOK
  <1>7. HoldsMutex' /\ CacheKnown' /\ NoNamesYet'
    BY <1>2, <1>4, <1>5 DEF IInv, HoldsMutex, CacheKnown, NoNamesYet, Walks!File, Resolving
  <1>8. Walks!BaseFresh'
    BY <1>1 DEF IInv, Walks!BaseFresh, Walks!MapBase
  <1>9. Walks!NamesOpen'
    BY <1>1, <1>3, <1>4, <1>5 DEF IInv, Walks!NamesOpen
  <1>10. QED
    BY <1>6, <1>7, <1>8, <1>9 DEF IInv

\* Every step keeps the inductive invariant.
LEMMA StepInv == IInv /\ [Walks!Next]_(Walks!vars) => IInv'
  <1> SUFFICES ASSUME IInv, [Walks!Next]_(Walks!vars) PROVE IInv'
    OBVIOUS
  <1>1. CASE UNCHANGED Walks!vars
    BY <1>1, KeptStep DEF Walks!vars
  <1>2. CASE Walks!Finished
    BY <1>2, KeptStep DEF Walks!Finished, Walks!vars
  <1>3. CASE Walks!Flush
    BY <1>3, FlushStep
  <1>4. CASE \E f \in Modules : Walks!Move(f)
    BY <1>4, MoveStep
  <1>5. ASSUME NEW t \in Threads,
               \/ Walks!Capture(t) \/ Walks!Dladdr(t) \/ Walks!Resolve(t) \/ Walks!ComputeMapsBase(t)
               \/ Walks!OpenBfd(t) \/ Walks!FindLine(t) \/ Walks!PrintFrame(t) \/ Walks!End(t)
        PROVE  IInv'
    BY <1>5, CaptureStep, DladdrStep, ResolveStep, MapsStep, OpenStep, LineStep, PrintStep
  <1>6. QED
    BY <1>1, <1>2, <1>3, <1>4, <1>5 DEF Walks!Next

THEOREM Invariance == Walks!Spec => []IInv
  BY InitInv, StepInv, PTL DEF Walks!Spec

\* Whatever threads resolve and flush, and whenever modules come and go, a
\* cached base is the module's present one unless it moved after the last
\* flush: "This resolver could return stale data" says no more than that.
THEOREM CachedBaseFresh == Walks!Spec => []BaseFresh
  <1>1. IInv => Walks!BaseFresh
    BY DEF IInv
  <1>2. QED
    BY <1>1, Invariance, PTL DEF BaseFresh

\* A printed frame's names belong to a bfd that is still open, unless the
\* program has flushed the cache since it was resolved.
THEOREM NamesStayOpen == Walks!Spec => []NamesOpen
  <1>1. IInv => Walks!NamesOpen
    BY DEF IInv
  <1>2. QED
    BY <1>1, Invariance, PTL DEF NamesOpen

-----------------------------------------------------------------------------
(***************************************************************************)
(* Walking.                                                                *)
(***************************************************************************)

Looking == {"lock", "maps", "open", "line", "resolved"}

\* A walk has printed the frames before its position, and looks at the cell
\* there; with operator<< only at cells that are frames.
Along(w) ==
  /\ Len(w.printed) = w.pos - 1 /\ w.pos <= Len(w.stack) + 1
  /\ \A i \in 1 .. Len(w.printed) : w.printed[i] = w.stack[i]
  /\ w.pc \in Looking => /\ w.sym.addr = Walks!Cell(w.stack, w.pos)
                         /\ w.way = "stream" => w.pos <= Len(w.stack)

WalkInv == \A t \in Threads : Along(walk[t])

\* The cell behind the last frame is told from every frame by what it holds.
LEMMA EndCell ==
  ASSUME NEW w \in WalkType, Along(w), w.pc \in Looking
  PROVE  w.sym.addr = Walks!Cell(w.stack, Len(w.stack) + 1) <=> w.pos = Len(w.stack) + 1
  <1>1. w.stack \in Seq(Walks!Address) /\ Len(w.stack) \in Nat /\ w.pos \in Nat \ {0}
    BY DEF WalkType
  <1>2. w.pos <= Len(w.stack) + 1 /\ w.sym.addr = Walks!Cell(w.stack, w.pos)
    BY DEF Along
  <1>3. Walks!Cell(w.stack, Len(w.stack) + 1) \in {None, DepthWord}
    BY <1>1 DEF Walks!Cell
  <1>4. CASE w.pos <= Len(w.stack)
    <2>1. Walks!Cell(w.stack, w.pos) \in Walks!Address
      BY <1>1, <1>4 DEF Walks!Cell
    <2>2. {None, DepthWord} \cap Walks!Address = {}
      BY StackAssumption DEF Walks!Address
    <2>3. QED
      BY <1>1, <1>2, <1>3, <1>4, <2>1, <2>2
  <1>5. CASE w.pos = Len(w.stack) + 1
    BY <1>2, <1>5
  <1>6. QED
    BY <1>1, <1>2, <1>4, <1>5

\* A new walk, or the end of one.
LEMMA NewWalk ==
  ASSUME NEW pc, NEW way, NEW stack \in Seq(Walks!Address), pc \notin Looking
  PROVE  Along(Walks!Walk(pc, way, stack))
  BY DEF Along, Walks!Walk

\* A step that leaves a walk's stack, position and output alone, and does not
\* start to look at a cell.
LEMMA SameWalk ==
  ASSUME NEW v, NEW w, Along(v),
         w.stack = v.stack, w.pos = v.pos, w.printed = v.printed, w.way = v.way,
         w.pc \in Looking => v.pc \in Looking /\ w.sym.addr = v.sym.addr
  PROVE  Along(w)
  BY DEF Along

\* One step of a walk.
LEMMA AlongStep ==
  ASSUME StackTypeOK, WalkInv, Walks!Next, NEW t \in Threads
  PROVE  Along(walk'[t])
  <1> DEFINE v == walk[t]
  <1>1. v \in WalkType /\ Along(v)
    BY DEF StackTypeOK, WalkInv
  <1>2. CASE walk'[t] = v
    BY <1>1, <1>2
  <1>3. CASE Walks!Flush
    <2>1. walk'[t] = [v EXCEPT !.sym = [v.sym EXCEPT !.flushed = TRUE]]
      BY <1>1, <1>3 DEF Walks!Flush, Walks!Flushed, WalkType, SymbolType
    <2>2. [v.sym EXCEPT !.flushed = TRUE].addr = v.sym.addr
      BY <1>1 DEF WalkType, SymbolType
    <2>3. QED
      BY <1>1, <2>1, <2>2, SameWalk DEF WalkType
  <1>4. CASE Walks!Capture(t)
    <2> DEFINE Live == {a \in Walks!Address : a.base = mapped[a.file]}
    <2>1. PICK stack \in Walks!SeqOf(Live, MaxDepth), way \in {"stream", "iterate"} :
            walk' = [walk EXCEPT ![t] = Walks!Walk("frame", way, stack)]
      BY <1>4 DEF Walks!Capture
    <2>2. stack \in Seq(Walks!Address) /\ walk'[t] = Walks!Walk("frame", way, stack)
      BY <2>1 DEF Walks!SeqOf, StackTypeOK
    <2>3. QED
      BY <2>2, NewWalk DEF Looking
  <1>5. CASE Walks!End(t)
    <2>1. walk'[t] = Walks!Walk("app", "stream", << >>)
      BY <1>5 DEF Walks!End, Walks!Idle, StackTypeOK
    <2>2. << >> \in Seq(Walks!Address)
      OBVIOUS
    <2>3. QED
      BY <2>1, <2>2, NewWalk DEF Looking
  <1>6. CASE Walks!Dladdr(t)
    <2> DEFINE addr == Walks!Cell(v.stack, v.pos)
    <2>1. PICK file : walk'[t] = [v EXCEPT !.sym = Walks!Symbol(addr, file), !.pc = "lock"]
      BY <1>1, <1>6 DEF Walks!Dladdr, StackTypeOK, WalkType
    <2>2. v.way = "stream" => v.pos <= Len(v.stack)
      BY <1>1, <1>6 DEF Walks!Dladdr, Walks!AtEnd, WalkType
    <2>3. /\ walk'[t].stack = v.stack /\ walk'[t].pos = v.pos
          /\ walk'[t].printed = v.printed /\ walk'[t].way = v.way
          /\ walk'[t].sym = Walks!Symbol(addr, file)
      BY <1>1, <2>1 DEF WalkType
    <2>4. walk'[t].sym.addr = Walks!Cell(v.stack, v.pos)
      BY <2>3 DEF Walks!Symbol
    <2>5. QED
      BY <1>1, <2>2, <2>3, <2>4 DEF Along
  <1>7. CASE Walks!PrintFrame(t)
    <2>1. /\ walk'[t].printed = Append(v.printed, v.sym.addr) /\ walk'[t].pos = v.pos + 1
          /\ walk'[t].pc = "frame" /\ walk'[t].stack = v.stack
      BY <1>1, <1>7 DEF Walks!PrintFrame, StackTypeOK, WalkType
    <2>2. v.pc \in Looking /\ ~Walks!AtEnd(t)
      BY <1>7 DEF Walks!PrintFrame, Walks!At, Looking
    <2>3. /\ v.stack \in Seq(Walks!Address) /\ Len(v.stack) \in Nat /\ v.pos \in Nat \ {0}
          /\ v.printed \in Seq(Cells) /\ v.sym.addr \in Cells /\ v.way \in {"stream", "iterate"}
      BY <1>1 DEF WalkType, SymbolType
    <2>4. v.pos <= Len(v.stack)
      <3>1. CASE v.way = "stream"
        BY <1>1, <2>2, <3>1 DEF Along
      <3>2. CASE v.way = "iterate"
        <4>1. v.sym.addr # Walks!Cell(v.stack, Len(v.stack) + 1)
          BY <2>2, <3>2 DEF Walks!AtEnd
        <4>2. v.pos # Len(v.stack) + 1
          BY <1>1, <2>2, <4>1, EndCell
        <4>3. QED
          BY <1>1, <2>3, <4>2 DEF Along
      <3>3. QED
        BY <2>3, <3>1, <3>2
    <2>5. v.sym.addr = v.stack[v.pos]
      BY <1>1, <2>2, <2>4 DEF Along, Walks!Cell
    <2>6. /\ Len(v.printed) = v.pos - 1
          /\ \A i \in 1 .. Len(v.printed) : v.printed[i] = v.stack[i]
      BY <1>1 DEF Along
    <2>7. /\ Len(walk'[t].printed) = v.pos
          /\ \A i \in 1 .. v.pos : walk'[t].printed[i] = v.stack[i]
      <3>1. \A seq \in Seq(Cells), c \in Cells :
              /\ Len(Append(seq, c)) = Len(seq) + 1
              /\ Append(seq, c)[Len(seq) + 1] = c
              /\ \A i \in 1 .. Len(seq) : Append(seq, c)[i] = seq[i]
        OBVIOUS
      <3>2. /\ Len(walk'[t].printed) = v.pos /\ walk'[t].printed[v.pos] = v.sym.addr
            /\ \A i \in 1 .. v.pos - 1 : walk'[t].printed[i] = v.printed[i]
        <4>1. Len(v.printed) + 1 = v.pos
          BY <2>3, <2>6
        <4>2. QED
          BY <2>1, <2>3, <2>6, <3>1, <4>1
      <3>3. \A i \in 1 .. v.pos : i = v.pos \/ i \in 1 .. v.pos - 1
        BY <2>3
      <3>4. QED
        BY <2>5, <2>6, <3>2, <3>3
    <2>8. QED
      BY <2>1, <2>3, <2>4, <2>7 DEF Along, Looking
  <1>8. CASE Walks!Resolve(t) \/ Walks!ComputeMapsBase(t) \/ Walks!OpenBfd(t)
    <2>1. /\ v.pc \in Looking
          /\ walk'[t].stack = v.stack /\ walk'[t].pos = v.pos /\ walk'[t].way = v.way
          /\ walk'[t].printed = v.printed /\ walk'[t].sym = v.sym
      BY <1>1, <1>8 DEF Walks!Resolve, Walks!ComputeMapsBase, Walks!OpenBfd, Walks!Goto, Walks!At, StackTypeOK, WalkType, Looking
    <2>2. QED
      BY <1>1, <2>1, SameWalk
  <1>9. CASE Walks!FindLine(t)
    <2>1. /\ v.pc \in Looking
          /\ walk'[t].stack = v.stack /\ walk'[t].pos = v.pos /\ walk'[t].way = v.way
          /\ walk'[t].printed = v.printed
          /\ \/ walk'[t].sym = v.sym
             \/ walk'[t].sym = [v.sym EXCEPT !.bfd = syms[Walks!File(t)].bfd, !.flushed = FALSE]
      BY <1>1, <1>9 DEF Walks!FindLine, Walks!Goto, Walks!At, StackTypeOK, WalkType, Looking
    <2>2. walk'[t].sym.addr = v.sym.addr
      BY <1>1, <2>1 DEF WalkType, SymbolType
    <2>3. QED
      BY <1>1, <2>1, <2>2, SameWalk
  <1>10. ASSUME NEW u \in Threads \ {t},
                \/ Walks!Capture(u) \/ Walks!Dladdr(u) \/ Walks!Resolve(u) \/ Walks!ComputeMapsBase(u)
                \/ Walks!OpenBfd(u) \/ Walks!FindLine(u) \/ Walks!PrintFrame(u) \/ Walks!End(u)
         PROVE  walk'[t] = v
    BY <1>10 DEF Walks!Capture, Walks!Dladdr, Walks!Resolve, Walks!ComputeMapsBase, Walks!OpenBfd, Walks!FindLine, Walks!PrintFrame, Walks!End,
                 Walks!Goto, StackTypeOK
  <1>11. CASE Walks!Finished \/ \E f \in Modules : Walks!Move(f)
    BY <1>1, <1>11 DEF Walks!Finished, Walks!vars, Walks!Move
  <1>12. QED
    BY <1>2, <1>3, <1>4, <1>5, <1>6, <1>7, <1>8, <1>9, <1>10, <1>11 DEF Walks!Next

\* A walk at its end has printed the whole stack.
LEMMA AlongWalks == StackTypeOK /\ WalkInv => Walks!WalkComplete
  <1> SUFFICES ASSUME StackTypeOK, WalkInv, NEW t \in Threads
      PROVE  /\ Walks!IsPrefix(walk[t].printed, walk[t].stack)
             /\ Walks!AtLoopTest(t) /\ Walks!AtEnd(t) => walk[t].printed = walk[t].stack
             /\ walk[t].pos <= Len(walk[t].stack) + 1
    BY DEF Walks!WalkComplete
  <1> DEFINE w == walk[t]
  <1>1. w \in WalkType /\ Along(w)
    BY DEF StackTypeOK, WalkInv
  <1>2. /\ w.stack \in Seq(Walks!Address) /\ w.printed \in Seq(Cells)
        /\ Len(w.stack) \in Nat /\ w.pos \in Nat \ {0} /\ w.way \in {"stream", "iterate"}
    BY <1>1 DEF WalkType
  <1>3. /\ Len(w.printed) = w.pos - 1 /\ w.pos <= Len(w.stack) + 1
        /\ \A i \in 1 .. Len(w.printed) : w.printed[i] = w.stack[i]
    BY <1>1 DEF Along
  <1> HIDE DEF w
  <1>4. Walks!IsPrefix(w.printed, w.stack)
    <2>1. Len(w.printed) <= Len(w.stack)
      BY <1>2, <1>3
    <2>2. SubSeq(w.printed, 1, Len(w.printed)) = SubSeq(w.stack, 1, Len(w.printed))
      BY <1>2, <1>3, <2>1
    <2>3. QED
      BY <2>1, <2>2 DEF Walks!IsPrefix
  <1>5. ASSUME Walks!AtLoopTest(t), Walks!AtEnd(t)
        PROVE  w.pos = Len(w.stack) + 1
    <2>1. CASE w.way = "stream"
      BY <1>2, <1>3, <1>5, <2>1 DEF Walks!AtEnd, w
    <2>2. CASE w.way = "iterate"
      <3>1. w.pc = "resolved" /\ w.sym.addr = Walks!Cell(w.stack, Len(w.stack) + 1)
        BY <1>5, <2>2 DEF Walks!AtEnd, Walks!AtLoopTest, w
      <3>2. QED
        BY <1>1, <3>1, EndCell DEF Looking
    <2>3. QED
      BY <1>2, <2>1, <2>2
  <1>6. w.pos = Len(w.stack) + 1 => w.printed = w.stack
    BY <1>2, <1>3
  <1>7. QED
    BY <1>3, <1>4, <1>5, <1>6 DEF w

\* Both ways of walking print every frame of every stack once and in order,
\* however deep, with whatever recursion, and full or not.
THEOREM WalksAreComplete == Walks!Spec => []WalkComplete
  <1>1. Walks!Init => WalkInv
    <2>1. << >> \in Seq(Walks!Address)
      OBVIOUS
    <2>2. Along(Walks!Idle)
      BY <2>1, NewWalk DEF Walks!Idle, Looking
    <2>3. QED
      BY <2>2 DEF Walks!Init, WalkInv
  <1>2. StackTypeOK /\ WalkInv /\ [Walks!Next]_(Walks!vars) => WalkInv'
    <2> SUFFICES ASSUME StackTypeOK, WalkInv, [Walks!Next]_(Walks!vars) PROVE WalkInv'
      OBVIOUS
    <2>1. CASE Walks!Next
      BY <2>1, AlongStep DEF WalkInv
    <2>2. CASE UNCHANGED Walks!vars
      BY <2>2 DEF Walks!vars, WalkInv
    <2>3. QED
      BY <2>1, <2>2
  <1>3. IInv => StackTypeOK
    BY DEF IInv
  <1>4. QED
    BY <1>1, <1>2, <1>3, Invariance, AlongWalks, PTL DEF WalkComplete, Walks!Spec
==============================================================================
