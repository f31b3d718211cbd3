----------------------------- MODULE MTraceProofs -----------------------------
(***************************************************************************)
(* Proofs about libmtrace's hooks, for any number of threads, addresses    *)
(* and calls, nested ones included, as long as the program does not        *)
(* restart the trace while or after muntrace() runs.                       *)
(***************************************************************************)
EXTENDS MTrace, TLAPS

Hooks == {"free", "malloc", "realloc", "memalign"}

HookPositions == {"guard", "mark", "mark_new", "dump", "lock", "swap", "call", "restore", "unlock"}

\* Where a call is while its thread is in a later one.
Waiting == {"mark", "mark_new", "dump", "closing", "deleting"}

\* Where a call is with _hooks_lock.
Locked == {"swap", "call", "restore", "unlock", "mtrace", "open", "install"}

\* The types of the variables the hooks depend on.
HookTypes ==
  /\ hook \in [Hooks -> {"libc", "trace"}] /\ old \in [Hooks -> {"libc", "trace"}]
  /\ lock \in Threads \cup {NoThread}
  /\ ended \in BOOLEAN
  /\ held \subseteq Addrs
  /\ frames \in [Threads -> Seq(FrameType)]

\* A hook runs since the stream was opened, mtrace() until muntrace().
CallOK(f) ==
  /\ f.i \in 1 .. Len(Swapped(f.fn))
  /\ \/ f.fn \in Hooks /\ f.pc \in HookPositions /\ (stream = "open" \/ ended)
     \/ f.fn = "mtrace" /\ f.pc \in {"lock", "mtrace", "open", "install", "unlock"} /\ ~ended
     \/ f.fn = "muntrace" /\ f.pc \in {"closing", "deleting", "unhook"} /\ ended

CallsOK ==
  \A t \in Threads : \A n \in 1 .. Len(frames[t]) :
    CallOK(frames[t][n]) /\ (n < Len(frames[t]) => frames[t][n].pc \in Waiting)

\* The hooks are where a call f with the lock has left them.
HolderOK(f) ==
  /\ f.pc = "swap" => \A j \in 1 .. f.i - 1 : hook[Swapped(f.fn)[j]] = "libc"
  /\ f.pc = "call" => f.i = 1 /\ \A j \in 1 .. Len(Swapped(f.fn)) : hook[Swapped(f.fn)[j]] = "libc"
  /\ f.pc = "open" => stream # "open"
  /\ f.pc = "install" => stream = "open" /\ \A j \in f.i .. Len(AllHooks) : hook[AllHooks[j]] = "libc"
  /\ ~ended /\ stream = "open" =>
       /\ \A h \in Hooks : hook[h] = "libc" => \E j \in 1 .. Len(Swapped(f.fn)) : h = Swapped(f.fn)[j]
       /\ f.pc \in {"restore", "install"} => \A j \in 1 .. f.i - 1 : hook[Swapped(f.fn)[j]] = "trace"
       /\ f.pc \in {"unlock", "mtrace"} => \A h \in Hooks : hook[h] = "trace"

HasLock(t) ==
  /\ lock = t => frames[t] # << >> /\ Top(t).pc \in Locked /\ HolderOK(Top(t))
  /\ lock # t /\ frames[t] # << >> => Top(t).pc \notin Locked

LockOK == \A t \in Threads : HasLock(t)

\* Until muntrace() the hooks are out before the stream is open, and in whenever
\* it is and nobody has the lock; nobody saves one as its own old hook.
HooksOK ==
  /\ \A h \in Hooks : old[h] = "libc"
  /\ ~ended /\ stream # "open" => \A h \in Hooks : hook[h] = "libc"
  /\ ~ended /\ stream = "open" /\ lock = NoThread => \A h \in Hooks : hook[h] = "trace"

TraceInv == HookTypes /\ CallsOK /\ LockOK /\ HooksOK

core == <<hook, old, lock, stream, ended>>

\* muntrace()'s steps: the trace is over, and hooks are taken out.
Ending ==
  /\ UNCHANGED <<old, lock>> /\ ended' = TRUE
  /\ hook' \in [Hooks -> {"libc", "trace"}] /\ \A h \in Hooks : hook'[h] \in {hook[h], "libc"}
  /\ \A t \in Threads : \A n \in 1 .. Len(frames[t]) : frames[t][n].fn # "mtrace"

\* Steps that change nothing for the calls of others.
Steady == UNCHANGED core \/ Ending

\* t gives the lock back, with the hooks in place.
Leaves(t) == lock = t /\ lock' = NoThread /\ HooksOK' /\ UNCHANGED <<hook, old, stream, ended>>

-----------------------------------------------------------------------------
(***************************************************************************)
(* Frames.                                                                 *)
(***************************************************************************)

LEMMA HookNames ==
  /\ ToSet(AllHooks) = Hooks /\ Len(AllHooks) = 4 /\ AllHooks \in Seq(Hooks) /\ DOMAIN AllHooks = 1 .. 4
  /\ \A j \in 1 .. 4 : AllHooks[j] \in Hooks
  /\ \A h \in Hooks : \E j \in 1 .. 4 : h = AllHooks[j]
  /\ \A i, j \in 1 .. 4 : AllHooks[i] = AllHooks[j] => i = j
  <1>1. AllHooks \in Seq(Hooks) /\ Len(AllHooks) = 4
    BY DEF AllHooks, Hooks
  <1>2. ToSet(AllHooks) = {AllHooks[1], AllHooks[2], AllHooks[3], AllHooks[4]}
    BY <1>1 DEF ToSet
  <1>3. /\ AllHooks[1] = "free" /\ AllHooks[2] = "malloc"
        /\ AllHooks[3] = "realloc" /\ AllHooks[4] = "memalign"
    BY DEF AllHooks
  <1>4. \A i, j \in 1 .. 4 : AllHooks[i] = AllHooks[j] => i = j
    BY <1>3
  <1>5. QED
    BY <1>1, <1>2, <1>3, <1>4 DEF Hooks

\* What a function swaps: hooks, its own among them.
LEMMA SwappedHooks ==
  ASSUME NEW fn \in Hooks \cup {"mtrace", "muntrace"}
  PROVE  /\ Swapped(fn) \in Seq(Hooks) /\ Len(Swapped(fn)) \in 1 .. 4
         /\ fn \in Hooks => \E j \in 1 .. Len(Swapped(fn)) : Swapped(fn)[j] = fn
         /\ fn \notin Hooks => Swapped(fn) = AllHooks
  <1>1. CASE fn \in {"free", "malloc"}
    <2>1. Swapped(fn) = <<fn>>
      BY <1>1 DEF Swapped
    <2>2. QED
      BY <1>1, <2>1 DEF Hooks
  <1>2. CASE fn = "realloc"
    <2>1. Swapped(fn) = <<"free", "malloc", "realloc">>
      BY <1>2 DEF Swapped
    <2>2. "free" \in Hooks /\ "malloc" \in Hooks /\ "realloc" \in Hooks
      BY DEF Hooks
    <2>3. Swapped(fn) \in Seq(Hooks) /\ Len(Swapped(fn)) = 3
      BY <2>1, <2>2
    <2>4. Swapped(fn)[3] = fn
      BY <1>2, <2>1
    <2>5. QED
      BY <1>2, <2>2, <2>3, <2>4
  <1>3. CASE fn = "memalign"
    <2>1. Swapped(fn) = <<"memalign", "malloc">>
      BY <1>3 DEF Swapped
    <2>2. "memalign" \in Hooks /\ "malloc" \in Hooks
      BY DEF Hooks
    <2>3. Swapped(fn) \in Seq(Hooks) /\ Len(Swapped(fn)) = 2
      BY <2>1, <2>2
    <2>4. Swapped(fn)[1] = fn
      BY <1>3, <2>1
    <2>5. QED
      BY <1>3, <2>2, <2>3, <2>4
  <1>4. CASE fn \in {"mtrace", "muntrace"}
    <2>1. Swapped(fn) = AllHooks /\ fn \notin Hooks
      BY <1>4 DEF Swapped, Hooks
    <2>2. QED
      BY <2>1, HookNames
  <1>5. QED
    BY <1>1, <1>2, <1>3, <1>4 DEF Hooks

LEMMA SetFrames ==
  ASSUME HookTypes, NEW t \in Threads, NEW f \in FrameType, frames[t] # << >>, SetTop(t, f)
  PROVE  /\ frames' \in [Threads -> Seq(FrameType)] /\ \A u \in Threads \ {t} : frames'[u] = frames[u]
         /\ Len(frames'[t]) = Len(frames[t]) /\ frames'[t] # << >> /\ Top(t)' = f
         /\ frames'[t][Len(frames[t])] = f
         /\ \A n \in 1 .. Len(frames[t]) - 1 : frames'[t][n] = frames[t][n]
  <1> DEFINE s == frames[t]
             r == SubSeq(s, 1, Len(s) - 1)
  <1>1. s \in Seq(FrameType) /\ Len(s) \in Nat \ {0}
    BY DEF HookTypes
  <1>2. r \in Seq(FrameType) /\ Len(r) = Len(s) - 1 /\ \A n \in 1 .. Len(s) - 1 : r[n] = s[n]
    BY <1>1
  <1>3. frames' = [frames EXCEPT ![t] = Append(r, f)]
    BY DEF SetTop, Front
  <1> HIDE DEF r
  <1>4. frames'[t] = Append(r, f)
    BY <1>3 DEF HookTypes
  <1>5. /\ Append(r, f) \in Seq(FrameType) /\ Len(Append(r, f)) = Len(s)
        /\ Append(r, f)[Len(s)] = f /\ \A n \in 1 .. Len(s) - 1 : Append(r, f)[n] = s[n]
    BY <1>1, <1>2
  <1>6. Top(t)' = f
    BY <1>4, <1>5 DEF Top, Last
  <1>7. frames' \in [Threads -> Seq(FrameType)] /\ \A u \in Threads \ {t} : frames'[u] = frames[u]
    BY <1>3, <1>5 DEF HookTypes
  <1>8. QED
    BY <1>1, <1>4, <1>5, <1>6, <1>7

LEMMA PushFrames ==
  ASSUME HookTypes, NEW t \in Threads, NEW f \in FrameType, Push(t, f)
  PROVE  /\ frames' \in [Threads -> Seq(FrameType)] /\ \A u \in Threads \ {t} : frames'[u] = frames[u]
         /\ Len(frames'[t]) = Len(frames[t]) + 1 /\ frames'[t] # << >> /\ Top(t)' = f
         /\ frames'[t][Len(frames[t]) + 1] = f
         /\ \A n \in 1 .. Len(frames[t]) : frames'[t][n] = frames[t][n]
  <1> DEFINE s == frames[t]
  <1>1. s \in Seq(FrameType) /\ Len(s) \in Nat
    BY DEF HookTypes
  <1>2. frames' = [frames EXCEPT ![t] = Append(s, f)]
    BY DEF Push
  <1>3. frames'[t] = Append(s, f)
    BY <1>2 DEF HookTypes
  <1>4. /\ Append(s, f) \in Seq(FrameType) /\ Len(Append(s, f)) = Len(s) + 1
        /\ Append(s, f)[Len(s) + 1] = f /\ \A n \in 1 .. Len(s) : Append(s, f)[n] = s[n]
    BY <1>1
  <1>5. Top(t)' = f
    BY <1>3, <1>4 DEF Top, Last
  <1>6. frames' \in [Threads -> Seq(FrameType)] /\ \A u \in Threads \ {t} : frames'[u] = frames[u]
    BY <1>2, <1>4 DEF HookTypes
  <1>7. QED
    BY <1>1, <1>3, <1>4, <1>5, <1>6

LEMMA PopFrames ==
  ASSUME HookTypes, NEW t \in Threads, frames[t] # << >>, Pop(t)
  PROVE  /\ frames' \in [Threads -> Seq(FrameType)] /\ \A u \in Threads \ {t} : frames'[u] = frames[u]
         /\ Len(frames'[t]) = Len(frames[t]) - 1
         /\ \A n \in 1 .. Len(frames[t]) - 1 : frames'[t][n] = frames[t][n]
         /\ frames'[t] # << >> => Len(frames[t]) > 1 /\ Top(t)' = frames[t][Len(frames[t]) - 1]
  <1> DEFINE s == frames[t]
             r == SubSeq(s, 1, Len(s) - 1)
  <1>1. s \in Seq(FrameType) /\ Len(s) \in Nat \ {0}
    BY DEF HookTypes
  <1>2. r \in Seq(FrameType) /\ Len(r) = Len(s) - 1 /\ \A n \in 1 .. Len(s) - 1 : r[n] = s[n]
    BY <1>1
  <1>3. frames' = [frames EXCEPT ![t] = r]
    BY DEF Pop, Front
  <1> HIDE DEF r
  <1>4. frames'[t] = r
    BY <1>3 DEF HookTypes
  <1>5. r # << >> => Len(s) > 1 /\ r[Len(r)] = s[Len(s) - 1]
    BY <1>1, <1>2
  <1>6. frames' \in [Threads -> Seq(FrameType)] /\ \A u \in Threads \ {t} : frames'[u] = frames[u]
    BY <1>2, <1>3 DEF HookTypes
  <1>7. QED
    BY <1>1, <1>2, <1>4, <1>5, <1>6 DEF Top, Last

LEMMA TopCall ==
  ASSUME HookTypes, NEW t \in Threads, frames[t] # << >>
  PROVE  /\ Top(t) \in FrameType /\ Len(frames[t]) \in Nat \ {0} /\ Top(t) = frames[t][Len(frames[t])]
         /\ CallsOK => CallOK(Top(t))
  <1>1. frames[t] \in Seq(FrameType) /\ Len(frames[t]) \in Nat \ {0}
    BY DEF HookTypes
  <1>2. QED
    BY <1>1 DEF Top, Last, CallsOK
-----------------------------------------------------------------------------
(***************************************************************************)
(* Steps of a call.                                                        *)
(***************************************************************************)

\* The calls of the others, and those below a thread's last one, stay as they are.
LEMMA StillOK ==
  ASSUME TraceInv, Steady \/ (ended' = ended /\ (stream = "open" \/ ended => stream' = "open" \/ ended')),
         NEW u \in Threads, NEW n \in 1 .. Len(frames[u]), n \in 1 .. Len(frames'[u]),
         frames'[u][n] = frames[u][n],
         n < Len(frames'[u]) => frames[u][n].pc \in Waiting
  PROVE  (CallOK(frames[u][n]) /\ (n < Len(frames[u]) => frames[u][n].pc \in Waiting))'
  <1>1. CallOK(frames[u][n])
    BY DEF TraceInv, CallsOK
  <1>2. QED
    BY <1>1 DEF CallOK, Steady, Ending, core

\* A step that leaves the hooks alone, ends the trace, or is the lock's holder's,
\* leaves the others with or without the lock.
LEMMA OthersLock ==
  ASSUME TraceInv, NEW t \in Threads,
         \A u \in Threads \ {t} : frames'[u] = frames[u],
         Steady \/ (lock \in {t, NoThread} /\ lock' \in {t, NoThread})
  PROVE  \A u \in Threads \ {t} : HasLock(u)'
  <1> TAKE u \in Threads \ {t}
  <1>1. frames'[u] = frames[u] /\ Top(u)' = Top(u) /\ HasLock(u)
    BY DEF TraceInv, LockOK, Top, Last
  <1>2. CASE UNCHANGED core
    BY <1>1, <1>2 DEF core, HasLock, HolderOK
  <1>3. CASE lock \in {t, NoThread} /\ lock' \in {t, NoThread}
    <2>1. lock # u /\ lock' # u
      BY <1>3, ConstantsAssumption
    <2>2. QED
      BY <1>1, <2>1 DEF HasLock
  <1>4. CASE Ending /\ frames[u] # << >> /\ lock = u
    <2>1. Top(u).pc \in Locked /\ HolderOK(Top(u)) /\ CallOK(Top(u)) /\ Top(u).fn # "mtrace"
      BY <1>1, <1>4, TopCall DEF HasLock, TraceInv, Ending
    <2>2. Top(u).fn \in Hooks /\ Top(u).pc \notin {"open", "install"}
      BY <2>1 DEF CallOK, HookPositions, Locked
    <2>3. Swapped(Top(u).fn) \in Seq(Hooks) /\ Top(u).i \in 1 .. Len(Swapped(Top(u).fn))
      BY <2>1, <2>2, SwappedHooks DEF CallOK
    <2>4. \A j \in 1 .. Len(Swapped(Top(u).fn)) :
            hook[Swapped(Top(u).fn)[j]] = "libc" => hook'[Swapped(Top(u).fn)[j]] = "libc"
      BY <1>4, <2>3 DEF Ending
    <2>5. HolderOK(Top(u))'
      BY <1>1, <1>4, <2>1, <2>2, <2>3, <2>4 DEF HolderOK, Ending
    <2>6. QED
      BY <1>1, <1>4, <2>1, <2>5 DEF HasLock, Ending
  <1>5. CASE Ending /\ ~(frames[u] # << >> /\ lock = u)
    BY <1>1, <1>5 DEF HasLock, Ending
  <1>6. QED
    BY <1>2, <1>3, <1>4, <1>5 DEF Steady

\* The hooks stay where they have to be.
LEMMA SteadyHooks ==
  ASSUME TraceInv, Steady
  PROVE  HooksOK' /\ hook' \in [Hooks -> {"libc", "trace"}] /\ old' = old /\ lock' = lock /\ ended' \in BOOLEAN
  <1>1. CASE UNCHANGED core
    BY <1>1 DEF TraceInv, HookTypes, HooksOK, core
  <1>2. CASE Ending
    BY <1>2 DEF TraceInv, HookTypes, HooksOK, Ending
  <1>3. QED
    BY <1>1, <1>2 DEF Steady

\* A call that has not the lock is made ...
LEMMA PushStep ==
  ASSUME TraceInv, NEW t \in Threads, NEW f \in FrameType, Push(t, f),
         frames[t] = << >> \/ Top(t).pc \in Waiting,
         CallOK(f)', f.pc \notin Locked, Steady, held' \subseteq Addrs
  PROVE  TraceInv'
  <1>1. lock # t
    BY DEF TraceInv, LockOK, HasLock, Locked, Waiting
  <1>2. HookTypes'
    BY PushFrames, SteadyHooks DEF TraceInv, HookTypes
  <1>3. CallsOK'
    <2> SUFFICES ASSUME NEW u \in Threads, NEW n \in 1 .. Len(frames'[u])
                 PROVE  (CallOK(frames[u][n]) /\ (n < Len(frames[u]) => frames[u][n].pc \in Waiting))'
      BY DEF CallsOK
    <2>1. CASE u # t
      <3>1. frames'[u] = frames[u] /\ n \in 1 .. Len(frames[u])
        BY <2>1, PushFrames DEF TraceInv
      <3>2. n < Len(frames'[u]) => frames[u][n].pc \in Waiting
        BY <3>1 DEF TraceInv, CallsOK
      <3>3. QED
        BY <3>1, <3>2, StillOK
    <2>2. CASE u = t /\ n = Len(frames[t]) + 1
      BY <2>2, PushFrames DEF TraceInv, CallOK
    <2>3. CASE u = t /\ n \in 1 .. Len(frames[t])
      <3>1. frames'[t][n] = frames[t][n]
        BY <2>3, PushFrames DEF TraceInv
      <3>2. frames[t][n].pc \in Waiting
        BY <2>3, TopCall DEF TraceInv, CallsOK
      <3>3. QED
        BY <2>3, <3>1, <3>2, StillOK
    <2>4. Len(frames'[t]) = Len(frames[t]) + 1 /\ Len(frames[t]) \in Nat
      BY PushFrames DEF TraceInv, HookTypes
    <2>5. QED
      BY <2>1, <2>2, <2>3, <2>4
  <1>4. HasLock(t)'
    BY <1>1, PushFrames, SteadyHooks DEF TraceInv, HasLock
  <1>5. LockOK'
    BY <1>4, OthersLock, PushFrames DEF TraceInv, LockOK
  <1>6. QED
    BY <1>2, <1>3, <1>5, SteadyHooks DEF TraceInv

\* ... moves on ...
LEMMA SetCalls ==
  ASSUME TraceInv, NEW t \in Threads, NEW f \in FrameType, SetTop(t, f), frames[t] # << >>, CallOK(f)',
         Steady \/ (ended' = ended /\ (stream = "open" \/ ended => stream' = "open" \/ ended'))
  PROVE  CallsOK'
  <1> SUFFICES ASSUME NEW u \in Threads, NEW n \in 1 .. Len(frames'[u])
               PROVE  (CallOK(frames[u][n]) /\ (n < Len(frames[u]) => frames[u][n].pc \in Waiting))'
    BY DEF CallsOK
  <1>1. CASE u # t
    <2>1. frames'[u] = frames[u] /\ n \in 1 .. Len(frames[u])
      BY <1>1, SetFrames DEF TraceInv
    <2>2. n < Len(frames'[u]) => frames[u][n].pc \in Waiting
      BY <2>1 DEF TraceInv, CallsOK
    <2>3. QED
      BY <2>1, <2>2, StillOK
  <1>2. CASE u = t /\ n = Len(frames[t])
    BY <1>2, SetFrames DEF TraceInv, CallOK
  <1>3. CASE u = t /\ n \in 1 .. Len(frames[t]) - 1
    <2>1. frames'[t][n] = frames[t][n] /\ n \in 1 .. Len(frames[t]) /\ frames[t][n].pc \in Waiting
      BY <1>3, SetFrames DEF TraceInv, CallsOK
    <2>2. QED
      BY <1>3, <2>1, StillOK
  <1>4. Len(frames'[t]) = Len(frames[t]) /\ Len(frames[t]) \in Nat
    BY SetFrames DEF TraceInv, HookTypes
  <1>5. QED
    BY <1>1, <1>2, <1>3, <1>4

LEMMA MoveStep ==
  ASSUME TraceInv, NEW t \in Threads, NEW f \in FrameType, SetTop(t, f), frames[t] # << >>,
         CallOK(f)', f.pc \notin Locked, held' \subseteq Addrs,
         (Steady /\ Top(t).pc \notin Locked) \/ Leaves(t)
  PROVE  TraceInv'
  <1>1. HooksOK' /\ hook' \in [Hooks -> {"libc", "trace"}] /\ old' = old /\ ended' \in BOOLEAN
    BY SteadyHooks DEF Leaves, TraceInv, HookTypes
  <1>2. lock' # t /\ lock' \in Threads \cup {NoThread}
    BY SteadyHooks, ConstantsAssumption DEF Leaves, TraceInv, HookTypes, LockOK, HasLock
  <1>3. HookTypes'
    BY <1>1, <1>2, SetFrames DEF TraceInv, HookTypes
  <1>4. CallsOK'
    BY SetCalls DEF Leaves
  <1>5. HasLock(t)'
    BY <1>2, SetFrames DEF TraceInv, HasLock
  <1>6. LockOK'
    BY <1>5, OthersLock, SetFrames DEF TraceInv, LockOK, Leaves
  <1>7. QED
    BY <1>1, <1>3, <1>4, <1>6 DEF TraceInv

\* ... with the lock too ...
LEMMA HolderStep ==
  ASSUME TraceInv, NEW t \in Threads, NEW f \in FrameType, SetTop(t, f), frames[t] # << >>,
         lock \in {t, NoThread}, lock' = t, f.pc \in Locked, CallOK(f)', HolderOK(f)', HooksOK',
         hook' \in [Hooks -> {"libc", "trace"}], old' \in [Hooks -> {"libc", "trace"}], UNCHANGED held,
         ended' = ended, stream = "open" \/ ended => stream' = "open" \/ ended'
  PROVE  TraceInv'
  <1>1. HookTypes'
    BY SetFrames DEF TraceInv, HookTypes
  <1>2. CallsOK'
    BY SetCalls
  <1>3. HasLock(t)'
    <2>1. frames'[t] # << >> /\ Top(t)' = f
      BY SetFrames DEF TraceInv
    <2>2. QED
      BY <2>1 DEF HasLock, HolderOK
  <1>4. LockOK'
    BY <1>3, OthersLock, SetFrames DEF TraceInv, LockOK
  <1>5. QED
    BY <1>1, <1>2, <1>4 DEF TraceInv

\* ... and returns.
LEMMA PopStep ==
  ASSUME TraceInv, NEW t \in Threads, frames[t] # << >>, Pop(t), held' \subseteq Addrs,
         (Steady /\ Top(t).pc \notin Locked) \/ Leaves(t)
  PROVE  TraceInv'
  <1>1. HooksOK' /\ hook' \in [Hooks -> {"libc", "trace"}] /\ old' = old /\ ended' \in BOOLEAN
    BY SteadyHooks DEF Leaves, TraceInv, HookTypes
  <1>2. lock' # t /\ lock' \in Threads \cup {NoThread}
    BY SteadyHooks, ConstantsAssumption DEF Leaves, TraceInv, HookTypes, LockOK, HasLock
  <1>3. HookTypes'
    BY <1>1, <1>2, PopFrames DEF TraceInv, HookTypes
  <1>4. CallsOK'
    <2> SUFFICES ASSUME NEW u \in Threads, NEW n \in 1 .. Len(frames'[u])
                 PROVE  (CallOK(frames[u][n]) /\ (n < Len(frames[u]) => frames[u][n].pc \in Waiting))'
      BY DEF CallsOK
    <2>1. CASE u # t
      <3>1. frames'[u] = frames[u] /\ n \in 1 .. Len(frames[u])
        BY <2>1, PopFrames DEF TraceInv
      <3>2. n < Len(frames'[u]) => frames[u][n].pc \in Waiting
        BY <3>1 DEF TraceInv, CallsOK
      <3>3. QED
        BY <3>1, <3>2, StillOK DEF Leaves
    <2>2. CASE u = t
      <3>1. Len(frames[t]) \in Nat \ {0} /\ Len(frames'[t]) = Len(frames[t]) - 1
        BY PopFrames, TopCall DEF TraceInv
      <3>2. frames'[t][n] = frames[t][n] /\ n \in 1 .. Len(frames[t])
        BY <2>2, <3>1, PopFrames DEF TraceInv
      <3>3. frames[t][n].pc \in Waiting
        BY <2>2, <3>1, <3>2 DEF TraceInv, CallsOK
      <3>4. QED
        BY <2>2, <3>2, <3>3, StillOK DEF Leaves
    <2>3. QED
      BY <2>1, <2>2
  <1>5. HasLock(t)'
    <2>1. ASSUME frames'[t] # << >> PROVE Top(t)'.pc \in Waiting
      <3>1. Len(frames[t]) > 1 /\ Top(t)' = frames[t][Len(frames[t]) - 1]
        BY <2>1, PopFrames DEF TraceInv
      <3>2. Len(frames[t]) \in Nat
        BY TopCall DEF TraceInv
      <3>3. QED
        BY <3>1, <3>2 DEF TraceInv, CallsOK
    <2>2. QED
      BY <1>2, <2>1 DEF HasLock, Waiting, Locked
  <1>6. LockOK'
    BY <1>5, OthersLock, PopFrames DEF TraceInv, LockOK, Leaves
  <1>7. QED
    BY <1>1, <1>3, <1>4, <1>6 DEF TraceInv
-----------------------------------------------------------------------------
(***************************************************************************)
(* The program's calls and the hooks.                                      *)
(***************************************************************************)

\* Hooks run because they are in, which they are from the stream's opening on.
LEMMA HookStep ==
  ASSUME TraceInv, NEW t \in Threads, NEW fn \in Hooks, NEW ptr \in Ptrs, NEW zero \in BOOLEAN,
         hook[fn] = "trace", Push(t, Hook(fn, ptr, zero)), frames[t] = << >> \/ Top(t).pc \in Waiting,
         UNCHANGED core, held' \subseteq Addrs
  PROVE  TraceInv'
  <1>. PICK f : f = Hook(fn, ptr, zero)
    OBVIOUS
  <1>1. f.fn = fn /\ f.pc \in {"guard", "lock"} /\ f.i = 1
    BY DEF Hook, Frame
  <1>2. f \in FrameType
    BY HookNames DEF Hook, Frame, FrameType, Positions, Ptrs
  <1>3. stream = "open" \/ ended
    BY DEF TraceInv, HooksOK
  <1>4. 1 \in 1 .. Len(Swapped(fn))
    <2>1. Len(Swapped(fn)) \in 1 .. 4
      BY SwappedHooks
    <2>2. QED
      BY <2>1
  <1>5. f.i \in 1 .. Len(Swapped(f.fn))
    BY <1>1, <1>4, Zenon
  <1>6. CallOK(f)'
    BY <1>1, <1>3, <1>5 DEF CallOK, HookPositions, core
  <1>7. QED
    BY <1>1, <1>2, <1>6, PushStep DEF Steady, Locked

\* Calls that change nothing here.
LEMMA NoStep ==
  ASSUME TraceInv, UNCHANGED <<core, frames>>, held' \subseteq Addrs
  PROVE  TraceInv'
  <1>1. HookTypes' /\ HooksOK'
    BY DEF TraceInv, HookTypes, HooksOK, core
  <1>2. CallsOK'
    BY DEF TraceInv, CallsOK, CallOK, core
  <1>3. LockOK'
    BY DEF TraceInv, LockOK, HasLock, HolderOK, Top, Last, core
  <1>4. QED
    BY <1>1, <1>2, <1>3 DEF TraceInv

LEMMA EnterStep ==
  ASSUME TraceInv, NEW t \in Threads, NEW fn \in Hooks, NEW ptr \in Addrs \cup {Null}, NEW zero \in BOOLEAN,
         frames[t] = << >>, Enter(t, fn, ptr, zero), UNCHANGED core
  PROVE  TraceInv'
  <1>1. CASE hook[fn] = "trace"
    <2>1. Push(t, Hook(fn, ptr, zero)) /\ held' \subseteq Addrs /\ ptr \in Ptrs
      BY <1>1 DEF Enter, TraceInv, HookTypes, Ptrs
    <2>2. QED
      BY <1>1, <2>1, HookStep
  <1>2. CASE hook[fn] = "libc"
    <2>1. UNCHANGED frames /\ held' \subseteq Addrs
      BY <1>2 DEF Enter, TraceInv, HookTypes
    <2>2. QED
      BY <2>1, NoStep
  <1>3. QED
    BY <1>1, <1>2 DEF Enter

\* The program's calls of the four functions.
LEMMA AppStep ==
  ASSUME TraceInv, NEW t \in Threads, Malloc(t) \/ Memalign(t) \/ Free(t) \/ Realloc(t)
  PROVE  TraceInv'
  <1>1. frames[t] = << >> /\ UNCHANGED core
    BY DEF Malloc, Memalign, Free, Realloc, Calling, core, traceVars
  <1>2. PICK fn \in Hooks, ptr \in Addrs \cup {Null}, zero \in BOOLEAN : Enter(t, fn, ptr, zero)
    BY DEF Malloc, Memalign, Free, Realloc, Hooks, TraceInv, HookTypes
  <1>3. QED
    BY <1>1, <1>2, EnterStep

\* A call's next hook is one of its hooks.
LEMMA NextIndex ==
  ASSUME TraceInv, NEW t \in Threads, frames[t] # << >>
  PROVE  LET len == Len(Swapped(Top(t).fn)) IN
         /\ Top(t) \in FrameType /\ Top(t).i \in 1 .. len /\ 1 \in 1 .. len
         /\ Top(t).i < len => Top(t).i + 1 \in 1 .. len /\ Top(t).i + 1 \in DOMAIN AllHooks
         /\ ~(Top(t).i < len) => Top(t).i = len
         /\ 1 \in DOMAIN AllHooks
  <1>1. Top(t) \in FrameType /\ CallOK(Top(t))
    BY TopCall DEF TraceInv
  <1>2. Top(t).fn \in Hooks \cup {"mtrace", "muntrace"}
    BY <1>1, HookNames DEF FrameType
  <1>3. Len(Swapped(Top(t).fn)) \in 1 .. 4
    BY <1>2, SwappedHooks
  <1>4. Top(t).i \in 1 .. Len(Swapped(Top(t).fn))
    BY <1>1 DEF CallOK
  <1>5. ASSUME NEW len \in 1 .. 4, NEW i \in 1 .. len
        PROVE  1 \in 1 .. len /\ (i < len => i + 1 \in 1 .. len /\ i + 1 \in 1 .. 4) /\ (~(i < len) => i = len)
    OBVIOUS
  <1>6. DOMAIN AllHooks = 1 .. 4 /\ 1 \in 1 .. 4
    BY HookNames
  <1>7. QED
    BY <1>1, <1>3, <1>4, <1>5, <1>6, Zenon

\* Another place in the same call.
LEMMA WentTo ==
  ASSUME TraceInv, NEW t \in Threads, frames[t] # << >>, NEW pc \in Positions, Goto(t, pc)
  PROVE  \E f \in FrameType :
           SetTop(t, f) /\ f.fn = Top(t).fn /\ f.pc = pc /\ f.i = 1 /\ f.i \in 1 .. Len(Swapped(f.fn))
  <1>. PICK f : f = [Top(t) EXCEPT !.pc = pc, !.i = 1]
    OBVIOUS
  <1>1. Top(t) \in FrameType /\ 1 \in DOMAIN AllHooks /\ 1 \in 1 .. Len(Swapped(Top(t).fn))
    BY NextIndex
  <1>2. f \in FrameType /\ f.fn = Top(t).fn /\ f.pc = pc /\ f.i = 1
    BY <1>1 DEF FrameType
  <1>3. SetTop(t, f)
    BY DEF Goto
  <1>4. QED
    BY <1>1, <1>2, <1>3, Zenon

\* The next hook, or the place after the last one.
LEMMA WentOn ==
  ASSUME TraceInv, NEW t \in Threads, frames[t] # << >>, NEW pc \in Positions, NextHook(t, pc)
  PROVE  \E f \in FrameType :
           /\ SetTop(t, f) /\ f.fn = Top(t).fn /\ f.i \in 1 .. Len(Swapped(f.fn))
           /\ \/ Top(t).i < Len(Swapped(f.fn)) /\ f.pc = Top(t).pc /\ f.i = Top(t).i + 1
              \/ Top(t).i = Len(Swapped(f.fn)) /\ f.pc = pc /\ f.i = 1
  <1>1. CASE Top(t).i < Len(Swapped(Top(t).fn))
    <2>1. Top(t).i + 1 \in DOMAIN AllHooks /\ Top(t) \in FrameType /\ Top(t).i + 1 \in 1 .. Len(Swapped(Top(t).fn))
      BY <1>1, NextIndex
    <2>. PICK f : f = [Top(t) EXCEPT !.i = @ + 1]
      OBVIOUS
    <2>2. f \in FrameType /\ f.fn = Top(t).fn /\ f.pc = Top(t).pc /\ f.i = Top(t).i + 1
      BY <2>1 DEF FrameType
    <2>3. SetTop(t, f)
      BY <1>1 DEF NextHook
    <2>4. QED
      BY <1>1, <2>1, <2>2, <2>3, Zenon
  <1>2. CASE ~(Top(t).i < Len(Swapped(Top(t).fn)))
    <2>1. Top(t).i = Len(Swapped(Top(t).fn))
      BY <1>2, NextIndex
    <2>2. Goto(t, pc)
      BY <1>2 DEF NextHook
    <2>3. PICK f \in FrameType :
            SetTop(t, f) /\ f.fn = Top(t).fn /\ f.pc = pc /\ f.i = 1 /\ f.i \in 1 .. Len(Swapped(f.fn))
      BY <2>2, WentTo
    <2>4. QED
      BY <2>1, <2>3, Zenon
  <1>3. QED
    BY <1>1, <1>2

\* A hook goes somewhere else without the lock.
LEMMA HookMoves ==
  ASSUME TraceInv, NEW t \in Threads, frames[t] # << >>, Top(t).fn \in Hooks,
         NEW pc \in HookPositions \ Locked, Goto(t, pc), held' \subseteq Addrs,
         (Steady /\ Top(t).pc \notin Locked) \/ Leaves(t)
  PROVE  TraceInv'
  <1>1. pc \in Positions
    BY DEF HookPositions, Positions
  <1>2. PICK f \in FrameType :
          SetTop(t, f) /\ f.fn = Top(t).fn /\ f.pc = pc /\ f.i = 1 /\ f.i \in 1 .. Len(Swapped(f.fn))
    BY <1>1, WentTo
  <1>3. CallOK(Top(t))
    BY TopCall DEF TraceInv
  <1>4. (stream = "open" \/ ended)'
    BY <1>3 DEF CallOK, Steady, Ending, Leaves, core, Hooks
  <1>5. CallOK(f)'
    BY <1>2, <1>4 DEF CallOK
  <1>6. QED
    BY <1>2, <1>5, MoveStep

\* A hook is where only hooks are.
LEMMA InHook ==
  ASSUME TraceInv, NEW t \in Threads, frames[t] # << >>,
         Top(t).pc \in {"guard", "mark", "mark_new", "dump", "swap", "call", "restore"}
  PROVE  Top(t).fn \in Hooks /\ (stream = "open" \/ ended)
  BY TopCall DEF TraceInv, CallOK

LEMMA TracedStep ==
  ASSUME TraceInv, NEW t \in Threads, frames[t] # << >>, Top(t).fn \in Hooks, Top(t).pc \notin Locked,
         Traced(t), UNCHANGED core
  PROVE  TraceInv'
  <1>1. CASE Top(t).fn = "free"
    <2>1. Goto(t, "lock") /\ held' \subseteq Addrs
      BY <1>1 DEF Traced, TraceInv, HookTypes
    <2>2. "lock" \in HookPositions \ Locked
      BY DEF HookPositions, Locked
    <2>3. QED
      BY <2>1, <2>2, HookMoves DEF Steady
  <1>2. CASE Top(t).fn # "free"
    <2>1. Pop(t) /\ held' \subseteq Addrs
      BY <1>2 DEF Traced, Return, TraceInv, HookTypes
    <2>2. QED
      BY <2>1, PopStep DEF Steady
  <1>3. QED
    BY <1>1, <1>2

\* Writing a line takes no lock.
LEMMA TraceStep ==
  ASSUME TraceInv, NEW t \in Threads, Guard(t) \/ Mark(t) \/ MarkNew(t) \/ Dump(t)
  PROVE  TraceInv'
  <1>1. frames[t] # << >> /\ Top(t).pc \in {"guard", "mark", "mark_new", "dump"} /\ Top(t).pc \notin Locked
    BY DEF Guard, Mark, MarkNew, Dump, In, Locked
  <1>2. UNCHANGED core
    BY DEF Guard, Mark, MarkNew, Dump, core, traceVars
  <1>3. Traced(t) \/ \E pc \in {"mark", "mark_new", "dump"} : Goto(t, pc) /\ UNCHANGED held
    BY DEF Guard, Mark, MarkNew, Dump
  <1>4. held \subseteq Addrs /\ {"mark", "mark_new", "dump"} \subseteq HookPositions \ Locked
    BY DEF TraceInv, HookTypes, HookPositions, Locked
  <1>5. QED
    BY <1>1, <1>2, <1>3, <1>4, InHook, TracedStep, HookMoves DEF Steady

\* The tracer's own calls: mtrace() opens the stream before the hooks are in.
LEMMA NestedStep ==
  ASSUME TraceInv, NEW t \in Threads, Nested(t)
  PROVE  TraceInv'
  <1>1. frames[t] # << >> /\ Top(t).pc \in Nesting /\ UNCHANGED core /\ held' \subseteq Addrs
    BY DEF Nested, In, core, traceVars, heapVars, TraceInv, HookTypes
  <1>2. PICK fn \in Hooks : hook[fn] = "trace" /\ Push(t, Hook(fn, Own, FALSE))
    BY DEF Nested, Hooks
  <1>3. Top(t).pc # "open"
    <2> SUFFICES ASSUME Top(t).pc = "open" PROVE FALSE
      OBVIOUS
    <2>1. ~ended
      BY <1>1, TopCall DEF TraceInv, CallOK, HookPositions
    <2>2. stream # "open"
      BY <1>1 DEF TraceInv, LockOK, HasLock, HolderOK, Locked
    <2>3. QED
      BY <1>2, <2>1, <2>2 DEF TraceInv, HooksOK
  <1>4. Top(t).pc \in Waiting /\ Own \in Ptrs
    BY <1>1, <1>3 DEF Nesting, Waiting, Ptrs
  <1>5. QED
    BY <1>1, <1>2, <1>4, HookStep
-----------------------------------------------------------------------------
(***************************************************************************)
(* With the lock.                                                          *)
(***************************************************************************)

\* A call that has the lock is its holder.
LEMMA IsHolder ==
  ASSUME TraceInv, NEW t \in Threads, frames[t] # << >>, Top(t).pc \in Locked
  PROVE  lock = t /\ HolderOK(Top(t)) /\ CallOK(Top(t))
  BY TopCall DEF TraceInv, LockOK, HasLock

LEMMA LockStep ==
  ASSUME TraceInv, NEW t \in Threads, Lock(t)
  PROVE  TraceInv'
  <1>1. /\ frames[t] # << >> /\ Top(t).pc = "lock" /\ lock = NoThread /\ lock' = t
        /\ UNCHANGED <<hook, old, stream, ended, held>>
    BY DEF Lock, In, traceVars, heapVars
  <1>2. CallOK(Top(t))
    BY <1>1, TopCall DEF TraceInv
  <1>3. PICK pc \in {"mtrace", "swap"} : Goto(t, pc) /\ (pc = "mtrace" <=> Top(t).fn = "mtrace")
    BY DEF Lock
  <1>4. PICK f \in FrameType :
          SetTop(t, f) /\ f.fn = Top(t).fn /\ f.pc = pc /\ f.i = 1 /\ f.i \in 1 .. Len(Swapped(f.fn))
    BY <1>1, <1>3, WentTo DEF Positions
  <1>5. CallOK(f)'
    BY <1>1, <1>2, <1>3, <1>4 DEF CallOK, HookPositions, Hooks
  <1>6. HolderOK(f)'
    BY <1>1, <1>3, <1>4 DEF TraceInv, HooksOK, HolderOK, HookTypes
  <1>7. HooksOK'
    BY <1>1, ConstantsAssumption DEF TraceInv, HooksOK
  <1>8. QED
    BY <1>1, <1>3, <1>4, <1>5, <1>6, <1>7, HolderStep DEF Locked, TraceInv, HookTypes

\* Old hooks are libc's, so that a hook that has been swapped is.
LEMMA SwapStep ==
  ASSUME TraceInv, NEW t \in Threads, Swap(t)
  PROVE  TraceInv'
  <1> DEFINE s == Swapped(Top(t).fn)
             h == s[Top(t).i]
  <1>1. /\ frames[t] # << >> /\ Top(t).pc = "swap" /\ hook' = [hook EXCEPT ![h] = old[h]]
        /\ NextHook(t, "call") /\ UNCHANGED <<old, lock, stream, ended, held>>
    BY DEF Swap, In, traceVars, heapVars
  <1>2. Top(t).fn \in Hooks /\ (stream = "open" \/ ended) /\ lock = t /\ HolderOK(Top(t))
    BY <1>1, InHook, IsHolder DEF Locked
  <1>3. s \in Seq(Hooks) /\ Top(t).i \in 1 .. Len(s)
    BY <1>1, <1>2, SwappedHooks, NextIndex
  <1>4. h \in Hooks /\ hook' \in [Hooks -> {"libc", "trace"}] /\ hook'[h] = "libc"
        /\ \A g \in Hooks \ {h} : hook'[g] = hook[g]
    <2>1. h \in Hooks
      BY <1>3
    <2>2. old[h] = "libc" /\ hook \in [Hooks -> {"libc", "trace"}]
      BY <2>1 DEF TraceInv, HooksOK, HookTypes
    <2> HIDE DEF h
    <2>3. QED
      BY <1>1, <2>1, <2>2
  <1>5. PICK f \in FrameType :
           /\ SetTop(t, f) /\ f.fn = Top(t).fn /\ f.i \in 1 .. Len(Swapped(f.fn))
           /\ \/ Top(t).i < Len(Swapped(f.fn)) /\ f.pc = Top(t).pc /\ f.i = Top(t).i + 1
              \/ Top(t).i = Len(Swapped(f.fn)) /\ f.pc = "call" /\ f.i = 1
    BY <1>1, WentOn DEF Positions
  <1>6. CallOK(f)'
    BY <1>1, <1>2, <1>5 DEF CallOK, HookPositions
  <1>7. HolderOK(f)'
    <2>1. \A j \in 1 .. Top(t).i : hook'[s[j]] = "libc"
      <3> TAKE j \in 1 .. Top(t).i
      <3>1. s[j] \in Hooks /\ (j = Top(t).i \/ j \in 1 .. Top(t).i - 1)
        BY <1>3
      <3>2. j # Top(t).i => hook[s[j]] = "libc"
        BY <1>1, <1>2, <3>1 DEF HolderOK
      <3>3. QED
        BY <1>4, <3>1, <3>2
    <2>2. \A g \in Hooks : ~ended /\ stream = "open" /\ hook'[g] = "libc" => \E j \in 1 .. Len(s) : g = s[j]
      BY <1>2, <1>3, <1>4 DEF HolderOK
    <2>3. s = Swapped(f.fn) /\ f.pc \in {"swap", "call"}
      BY <1>1, <1>5
    <2>4. f.pc = "swap" => f.i - 1 = Top(t).i
      BY <1>1, <1>3, <1>5
    <2>5. f.pc = "call" => f.i = 1 /\ Top(t).i = Len(s)
      BY <1>1, <1>5
    <2> HIDE DEF s, h
    <2>6. QED
      BY <1>1, <2>1, <2>2, <2>3, <2>4, <2>5 DEF HolderOK
  <1>8. HooksOK'
    BY <1>1, <1>2, ConstantsAssumption DEF TraceInv, HooksOK
  <1>9. f.pc \in Locked
    BY <1>1, <1>5 DEF Locked
  <1> HIDE DEF h, s
  <1>10. QED
    BY <1>1, <1>2, <1>4, <1>5, <1>6, <1>7, <1>8, <1>9, HolderStep DEF TraceInv, HookTypes

\* libc's function does not come back to the hook, which is out.
LEMMA CallStep ==
  ASSUME TraceInv, NEW t \in Threads, Call(t)
  PROVE  TraceInv'
  <1>1. frames[t] # << >> /\ Top(t).pc = "call" /\ UNCHANGED <<hook, old, lock, stream, ended, held>>
    BY DEF Call, In, traceVars
  <1>2. Top(t).fn \in Hooks /\ (stream = "open" \/ ended) /\ lock = t /\ HolderOK(Top(t)) /\ Top(t) \in FrameType
    BY <1>1, InHook, IsHolder, NextIndex DEF Locked
  <1>3. old[Top(t).fn] = "libc" /\ hook[Top(t).fn] = "libc"
    <2>1. PICK j \in 1 .. Len(Swapped(Top(t).fn)) : Swapped(Top(t).fn)[j] = Top(t).fn
      BY <1>2, SwappedHooks
    <2>2. QED
      BY <1>1, <1>2, <2>1 DEF TraceInv, HooksOK, HolderOK
  <1>4. PICK hdr \in Results(Top(t).fn, Top(t).ptr, Top(t).zero) :
          SetTop(t, [Top(t) EXCEPT !.pc = "restore", !.hdr = hdr,
                                   !.owned = Owned(Top(t).fn, Top(t).ptr, Top(t).zero, hdr)])
    BY <1>3 DEF Call
  <1>5. hdr \in Ptrs /\ Owned(Top(t).fn, Top(t).ptr, Top(t).zero, hdr) \in Ptrs
    <2>1. Top(t).ptr \in Ptrs
      BY <1>2 DEF FrameType
    <2>2. hdr \in Ptrs
      BY <2>1 DEF Results, Ptrs
    <2>3. QED
      BY <2>1, <2>2 DEF Owned
  <1>6. Top(t).i = 1 /\ 1 \in 1 .. Len(Swapped(Top(t).fn))
    BY <1>1, <1>2, NextIndex DEF HolderOK
  <1>7. \E f \in FrameType : SetTop(t, f) /\ f.fn = Top(t).fn /\ f.pc = "restore" /\ f.i = 1
    <2>. PICK f : f = [Top(t) EXCEPT !.pc = "restore", !.hdr = hdr,
                                     !.owned = Owned(Top(t).fn, Top(t).ptr, Top(t).zero, hdr)]
      OBVIOUS
    <2>1. f \in FrameType /\ f.fn = Top(t).fn /\ f.pc = "restore" /\ f.i = 1
      BY <1>2, <1>5, <1>6 DEF FrameType, Positions
    <2>2. SetTop(t, f)
      BY <1>4
    <2>3. QED
      BY <2>1, <2>2
  <1>8. PICK f \in FrameType : SetTop(t, f) /\ f.fn = Top(t).fn /\ f.pc = "restore" /\ f.i = 1
    BY <1>7
  <1>9. f.i \in 1 .. Len(Swapped(f.fn))
    BY <1>6, <1>8, Zenon
  <1>10. CallOK(f)'
    BY <1>1, <1>2, <1>8, <1>9 DEF CallOK, HookPositions
  <1>11. HolderOK(f)'
    BY <1>1, <1>2, <1>8 DEF HolderOK
  <1>12. HooksOK'
    BY <1>1 DEF TraceInv, HooksOK
  <1>13. QED
    BY <1>1, <1>2, <1>8, <1>10, <1>11, <1>12, HolderStep DEF TraceInv, HookTypes, Locked

\* What was swapped is put back.
LEMMA RestoreStep ==
  ASSUME TraceInv, NEW t \in Threads, Restore(t)
  PROVE  TraceInv'
  <1> DEFINE s == Swapped(Top(t).fn)
             h == s[Top(t).i]
  <1>1. /\ frames[t] # << >> /\ Top(t).pc = "restore" /\ hook' = [hook EXCEPT ![h] = "trace"]
        /\ NextHook(t, "unlock") /\ UNCHANGED <<old, lock, stream, ended, held>>
    BY DEF Restore, In, traceVars, heapVars
  <1>2. Top(t).fn \in Hooks /\ (stream = "open" \/ ended) /\ lock = t /\ HolderOK(Top(t))
    BY <1>1, InHook, IsHolder DEF Locked
  <1>3. s \in Seq(Hooks) /\ Top(t).i \in 1 .. Len(s)
    BY <1>1, <1>2, SwappedHooks, NextIndex
  <1>4. h \in Hooks /\ hook' \in [Hooks -> {"libc", "trace"}] /\ hook'[h] = "trace"
        /\ \A g \in Hooks \ {h} : hook'[g] = hook[g]
    <2>1. h \in Hooks
      BY <1>3
    <2>2. hook \in [Hooks -> {"libc", "trace"}]
      BY DEF TraceInv, HookTypes
    <2> HIDE DEF h
    <2>3. QED
      BY <1>1, <2>1, <2>2
  <1>5. PICK f \in FrameType :
           /\ SetTop(t, f) /\ f.fn = Top(t).fn /\ f.i \in 1 .. Len(Swapped(f.fn))
           /\ \/ Top(t).i < Len(Swapped(f.fn)) /\ f.pc = Top(t).pc /\ f.i = Top(t).i + 1
              \/ Top(t).i = Len(Swapped(f.fn)) /\ f.pc = "unlock" /\ f.i = 1
    BY <1>1, WentOn DEF Positions
  <1>6. CallOK(f)'
    BY <1>1, <1>2, <1>5 DEF CallOK, HookPositions
  <1>7. HolderOK(f)'
    <2>1. ~ended /\ stream = "open" => \A j \in 1 .. Top(t).i : hook'[s[j]] = "trace"
      <3> SUFFICES ASSUME ~ended, stream = "open", NEW j \in 1 .. Top(t).i
                   PROVE  hook'[s[j]] = "trace"
        OBVIOUS
      <3>1. s[j] \in Hooks /\ (j = Top(t).i \/ j \in 1 .. Top(t).i - 1)
        BY <1>3
      <3>2. j # Top(t).i => hook[s[j]] = "trace"
        BY <1>1, <1>2, <3>1 DEF HolderOK
      <3>3. QED
        BY <1>4, <3>1, <3>2
    <2>2. ~ended /\ stream = "open" => \A g \in Hooks : hook'[g] = "libc" => \E j \in 1 .. Len(s) : g = s[j]
      BY <1>2, <1>4 DEF HolderOK
    <2>3. s = Swapped(f.fn) /\ f.pc \in {"restore", "unlock"}
      BY <1>1, <1>5
    <2>4. f.pc = "restore" => f.i - 1 = Top(t).i
      BY <1>1, <1>3, <1>5
    <2>5. f.pc = "unlock" => Top(t).i = Len(s)
      BY <1>1, <1>5
    <2>6. ~ended /\ stream = "open" /\ f.pc = "unlock" => \A g \in Hooks : hook'[g] = "trace"
      BY <1>4, <2>1, <2>2, <2>5
    <2> HIDE DEF s, h
    <2>7. QED
      BY <1>1, <2>1, <2>2, <2>3, <2>4, <2>6 DEF HolderOK
  <1>8. HooksOK'
    BY <1>1, <1>2, ConstantsAssumption DEF TraceInv, HooksOK
  <1>9. f.pc \in Locked
    BY <1>1, <1>5 DEF Locked
  <1> HIDE DEF h, s
  <1>10. QED
    BY <1>1, <1>2, <1>4, <1>5, <1>6, <1>7, <1>8, <1>9, HolderStep DEF TraceInv, HookTypes

LEMMA UnlockStep ==
  ASSUME TraceInv, NEW t \in Threads, Unlock(t)
  PROVE  TraceInv'
  <1>1. /\ frames[t] # << >> /\ Top(t).pc = "unlock" /\ lock' = NoThread
        /\ UNCHANGED <<hook, old, stream, ended>>
    BY DEF Unlock, In, traceVars
  <1>2. lock = t /\ HolderOK(Top(t)) /\ CallOK(Top(t))
    BY <1>1, IsHolder DEF Locked
  <1>3. HooksOK'
    BY <1>1, <1>2 DEF TraceInv, HooksOK, HolderOK
  <1>4. Leaves(t)
    BY <1>1, <1>2, <1>3 DEF Leaves
  <1>5. CASE Top(t).fn \in {"free", "mtrace"}
    <2>1. Pop(t) /\ held' \subseteq Addrs
      BY <1>5 DEF Unlock, Return, TraceInv, HookTypes
    <2>2. QED
      BY <1>1, <1>4, <2>1, PopStep
  <1>6. CASE Top(t).fn \notin {"free", "mtrace"}
    <2>1. Top(t).fn \in Hooks
      BY <1>1, <1>2, <1>6 DEF CallOK
    <2>2. Goto(t, "guard") /\ held' \subseteq Addrs
      BY <1>6 DEF Unlock, TraceInv, HookTypes
    <2>3. "guard" \in HookPositions \ Locked
      BY DEF HookPositions, Locked
    <2>4. QED
      BY <1>1, <1>4, <2>1, <2>2, <2>3, HookMoves
  <1>7. QED
    BY <1>5, <1>6
-----------------------------------------------------------------------------
(***************************************************************************)
(* mtrace() and muntrace().                                                *)
(***************************************************************************)

LEMMA MtraceStep ==
  ASSUME TraceInv, ~Restarts, NEW t \in Threads, Mtrace(t)
  PROVE  TraceInv'
  <1> DEFINE g == Frame("mtrace", "lock", Null, FALSE)
  <1>1. frames[t] = << >> /\ ~ended /\ Push(t, g) /\ UNCHANGED core /\ held' \subseteq Addrs
    BY DEF Mtrace, Calling, core, traceVars, heapVars, TraceInv, HookTypes
  <1>2. \E f \in FrameType : f = g /\ f.fn = "mtrace" /\ f.pc = "lock" /\ f.i = 1
    <2>1. 1 \in DOMAIN AllHooks
      BY HookNames
    <2>2. g \in FrameType
      BY <2>1 DEF Frame, FrameType, Positions, Ptrs
    <2>3. QED
      BY <2>2 DEF Frame
  <1>3. PICK f \in FrameType : f = g /\ f.fn = "mtrace" /\ f.pc = "lock" /\ f.i = 1
    BY <1>2
  <1> HIDE DEF g
  <1>4. Push(t, f)
    BY <1>1, <1>3
  <1>5. Swapped("mtrace") = AllHooks /\ Len(AllHooks) = 4
    BY SwappedHooks, HookNames DEF Hooks
  <1>6. CallOK(f)'
    BY <1>1, <1>3, <1>5 DEF CallOK, core
  <1>7. QED
    BY <1>1, <1>3, <1>4, <1>6, PushStep DEF Steady, Locked

\* mtrace() has the lock until it returns, and muntrace() has not been called.
LEMMA InMtrace ==
  ASSUME TraceInv, NEW t \in Threads, frames[t] # << >>, Top(t).pc \in {"mtrace", "open", "install"}
  PROVE  Top(t).fn = "mtrace" /\ Swapped(Top(t).fn) = AllHooks /\ ~ended /\ lock = t /\ HolderOK(Top(t))
  <1>1. CallOK(Top(t)) /\ lock = t /\ HolderOK(Top(t))
    BY IsHolder DEF Locked
  <1>2. Top(t).fn = "mtrace" /\ ~ended
    BY <1>1 DEF CallOK, HookPositions
  <1>3. QED
    BY <1>1, <1>2, SwappedHooks DEF Hooks

LEMMA CheckStep ==
  ASSUME TraceInv, NEW t \in Threads, MtraceCheck(t)
  PROVE  TraceInv'
  <1>1. frames[t] # << >> /\ Top(t).pc = "mtrace" /\ UNCHANGED <<hook, old, lock, stream, ended, held>>
    BY DEF MtraceCheck, In, traceVars, heapVars
  <1>2. Top(t).fn = "mtrace" /\ ~ended /\ lock = t /\ HolderOK(Top(t))
    BY <1>1, InMtrace
  <1>3. PICK pc \in {"open", "unlock"} : Goto(t, pc) /\ (pc = "unlock" <=> stream = "open")
    BY DEF MtraceCheck
  <1>4. PICK f \in FrameType :
          SetTop(t, f) /\ f.fn = Top(t).fn /\ f.pc = pc /\ f.i = 1 /\ f.i \in 1 .. Len(Swapped(f.fn))
    BY <1>1, <1>3, WentTo DEF Positions
  <1>5. CallOK(f)'
    BY <1>1, <1>2, <1>3, <1>4 DEF CallOK
  <1>6. HolderOK(f)'
    BY <1>1, <1>2, <1>3, <1>4 DEF HolderOK
  <1>7. HooksOK'
    BY <1>1 DEF TraceInv, HooksOK
  <1>8. QED
    BY <1>1, <1>2, <1>3, <1>4, <1>5, <1>6, <1>7, HolderStep DEF TraceInv, HookTypes, Locked

\* The stream is opened while no hook is in.
LEMMA OpenStep ==
  ASSUME TraceInv, NEW t \in Threads, MtraceOpen(t)
  PROVE  TraceInv'
  <1>1. frames[t] # << >> /\ Top(t).pc = "open" /\ UNCHANGED <<hook, old, lock, ended, held>>
    BY DEF MtraceOpen, In, heapVars
  <1>2. /\ Top(t).fn = "mtrace" /\ Swapped(Top(t).fn) = AllHooks
        /\ ~ended /\ lock = t /\ HolderOK(Top(t)) /\ stream # "open"
    BY <1>1, InMtrace DEF HolderOK
  <1>3. \A h \in Hooks : hook[h] = "libc"
    BY <1>2 DEF TraceInv, HooksOK
  <1>4. PICK pc \in {"install", "unlock"} :
          Goto(t, pc) /\ stream' = IF pc = "install" THEN "open" ELSE "closed"
    BY DEF MtraceOpen
  <1>5. PICK f \in FrameType :
          SetTop(t, f) /\ f.fn = Top(t).fn /\ f.pc = pc /\ f.i = 1 /\ f.i \in 1 .. Len(Swapped(f.fn))
    BY <1>1, <1>4, WentTo DEF Positions
  <1>6. CallOK(f)'
    BY <1>1, <1>2, <1>4, <1>5 DEF CallOK
  <1>7. HolderOK(f)'
    <2>1. Swapped(f.fn) = AllHooks /\ Len(AllHooks) = 4
      BY <1>2, <1>5, HookNames
    <2>2. \A j \in 1 .. Len(AllHooks) : AllHooks[j] \in Hooks
      BY HookNames
    <2>3. \A h \in Hooks : \E j \in 1 .. Len(AllHooks) : h = AllHooks[j]
      BY HookNames
    <2>4. QED
      BY <1>1, <1>3, <1>4, <1>5, <2>1, <2>2, <2>3 DEF HolderOK
  <1>8. HooksOK'
    BY <1>1, <1>2, <1>3, ConstantsAssumption DEF TraceInv, HooksOK
  <1>9. QED
    BY <1>1, <1>2, <1>4, <1>5, <1>6, <1>7, <1>8, HolderStep DEF TraceInv, HookTypes, Locked

\* The hooks saved are libc's, as mtrace() puts its own in one after the other.
LEMMA InstallStep ==
  ASSUME TraceInv, NEW t \in Threads, Install(t)
  PROVE  TraceInv'
  <1> DEFINE h == AllHooks[Top(t).i]
  <1>1. /\ frames[t] # << >> /\ Top(t).pc = "install" /\ NextHook(t, "unlock")
        /\ hook' = [hook EXCEPT ![h] = "trace"] /\ old' = [old EXCEPT ![h] = hook[h]]
        /\ UNCHANGED <<lock, stream, ended, held>>
    BY DEF Install, In, traceVars, heapVars
  <1>2. /\ Top(t).fn = "mtrace" /\ Swapped(Top(t).fn) = AllHooks
        /\ ~ended /\ lock = t /\ HolderOK(Top(t)) /\ stream = "open"
    BY <1>1, InMtrace DEF HolderOK
  <1>3. Top(t).i \in 1 .. 4 /\ Len(AllHooks) = 4
    <2>1. Top(t).i \in 1 .. Len(Swapped(Top(t).fn)) /\ Len(AllHooks) = 4
      BY <1>1, NextIndex, HookNames
    <2>2. QED
      BY <1>2, <2>1
  <1>4. h \in Hooks /\ hook[h] = "libc"
    <2>1. h \in Hooks
      BY <1>3, HookNames
    <2>2. hook[h] = "libc"
      BY <1>1, <1>2, <1>3 DEF HolderOK
    <2>3. QED
      BY <2>1, <2>2
  <1>5. /\ hook' \in [Hooks -> {"libc", "trace"}] /\ hook'[h] = "trace" /\ \A g \in Hooks \ {h} : hook'[g] = hook[g]
        /\ old' \in [Hooks -> {"libc", "trace"}] /\ \A g \in Hooks : old'[g] = "libc"
    <2>1. hook \in [Hooks -> {"libc", "trace"}] /\ old \in [Hooks -> {"libc", "trace"}] /\ \A g \in Hooks : old[g] = "libc"
      BY DEF TraceInv, HookTypes, HooksOK
    <2> HIDE DEF h
    <2>2. QED
      BY <1>1, <1>4, <2>1
  <1>6. PICK f \in FrameType :
           /\ SetTop(t, f) /\ f.fn = Top(t).fn /\ f.i \in 1 .. Len(Swapped(f.fn))
           /\ \/ Top(t).i < Len(Swapped(f.fn)) /\ f.pc = Top(t).pc /\ f.i = Top(t).i + 1
              \/ Top(t).i = Len(Swapped(f.fn)) /\ f.pc = "unlock" /\ f.i = 1
    BY <1>1, WentOn DEF Positions
  <1>7. CallOK(f)'
    BY <1>1, <1>2, <1>6 DEF CallOK
  <1>8. HolderOK(f)'
    <2>1. Swapped(f.fn) = AllHooks /\ f.pc \in {"install", "unlock"}
      BY <1>1, <1>2, <1>6
    <2>2. \A j \in 1 .. Top(t).i : hook'[AllHooks[j]] = "trace"
      <3> TAKE j \in 1 .. Top(t).i
      <3>1. AllHooks[j] \in Hooks /\ (j = Top(t).i \/ j \in 1 .. Top(t).i - 1)
        <4>1. j \in 1 .. 4 /\ (j = Top(t).i \/ j \in 1 .. Top(t).i - 1)
          BY <1>3
        <4>2. QED
          BY <4>1, HookNames
      <3>2. j # Top(t).i => hook[AllHooks[j]] = "trace"
        BY <1>1, <1>2, <3>1 DEF HolderOK
      <3>3. QED
        BY <1>5, <3>1, <3>2
    <2>3. \A j \in Top(t).i + 1 .. 4 : hook'[AllHooks[j]] = "libc"
      <3> TAKE j \in Top(t).i + 1 .. 4
      <3>1. j \in 1 .. 4 /\ j \in Top(t).i .. 4 /\ j # Top(t).i
        BY <1>3
      <3>2. AllHooks[j] \in Hooks \ {h}
        BY <1>3, <3>1, HookNames
      <3>3. hook[AllHooks[j]] = "libc"
        BY <1>1, <1>2, <1>3, <3>1 DEF HolderOK
      <3>4. QED
        BY <1>5, <3>2, <3>3
    <2>4. f.pc = "install" => f.i = Top(t).i + 1
      BY <1>1, <1>6
    <2>5. f.pc = "unlock" => Top(t).i = 4
      BY <1>1, <1>2, <1>3, <1>6
    <2>6. \A g \in Hooks : \E j \in 1 .. 4 : g = AllHooks[j]
      BY HookNames
    <2>7. f.pc = "unlock" => \A g \in Hooks : hook'[g] = "trace"
      BY <2>2, <2>5, <2>6
    <2>8. Top(t).i + 1 - 1 = Top(t).i
      BY <1>3
    <2> HIDE DEF h
    <2>9. QED
      BY <1>1, <1>2, <1>3, <2>1, <2>2, <2>3, <2>4, <2>6, <2>7, <2>8 DEF HolderOK
  <1>9. HooksOK'
    BY <1>1, <1>2, <1>5, ConstantsAssumption DEF TraceInv, HooksOK
  <1>10. f.pc \in Locked
    BY <1>1, <1>6 DEF Locked
  <1> HIDE DEF h
  <1>11. QED
    BY <1>1, <1>2, <1>5, <1>6, <1>7, <1>8, <1>9, <1>10, HolderStep DEF TraceInv, HookTypes

\* muntrace() ends the trace when no mtrace() runs.
LEMMA MuntraceStep ==
  ASSUME TraceInv, ~Restarts, NEW t \in Threads, Muntrace(t)
  PROVE  TraceInv'
  <1> DEFINE g == Frame("muntrace", "closing", Null, FALSE)
  <1>1. /\ frames[t] = << >> /\ Push(t, g) /\ ended' = TRUE /\ held' \subseteq Addrs
        /\ UNCHANGED <<hook, old, lock>>
    BY DEF Muntrace, Calling, heapVars, TraceInv, HookTypes
  <1>2. Ending
    <2>1. \A u \in Threads : \A n \in 1 .. Len(frames[u]) : frames[u][n].fn # "mtrace"
      <3> TAKE u \in Threads
      <3> TAKE n \in 1 .. Len(frames[u])
      <3>1. n \in DOMAIN frames[u]
        BY DEF TraceInv, HookTypes
      <3>2. QED
        BY <3>1 DEF Muntrace
    <2>2. QED
      BY <1>1, <2>1 DEF Ending, TraceInv, HookTypes
  <1>3. \E f \in FrameType : f = g /\ f.fn = "muntrace" /\ f.pc = "closing" /\ f.i = 1
    <2>1. 1 \in DOMAIN AllHooks
      BY HookNames
    <2>2. g \in FrameType
      BY <2>1 DEF Frame, FrameType, Positions, Ptrs
    <2>3. QED
      BY <2>2 DEF Frame
  <1>4. PICK f \in FrameType : f = g /\ f.fn = "muntrace" /\ f.pc = "closing" /\ f.i = 1
    BY <1>3
  <1> HIDE DEF g
  <1>5. Push(t, f)
    BY <1>1, <1>4
  <1>6. Swapped("muntrace") = AllHooks /\ Len(AllHooks) = 4
    BY SwappedHooks, HookNames DEF Hooks
  <1>7. CallOK(f)'
    BY <1>1, <1>4, <1>6 DEF CallOK
  <1>8. QED
    BY <1>1, <1>2, <1>4, <1>5, <1>7, PushStep DEF Steady, Locked

\* In muntrace() the trace has ended, and mtrace() is not called again.
LEMMA InMuntrace ==
  ASSUME TraceInv, NEW t \in Threads, frames[t] # << >>, Top(t).pc \in {"closing", "deleting", "unhook"}
  PROVE  /\ Top(t).fn = "muntrace" /\ ended /\ Top(t).pc \notin Locked
         /\ \A u \in Threads : \A n \in 1 .. Len(frames[u]) : frames[u][n].fn # "mtrace"
  <1>1. Top(t).fn = "muntrace" /\ ended
    BY TopCall DEF TraceInv, CallOK, HookPositions
  <1>2. \A u \in Threads : \A n \in 1 .. Len(frames[u]) : frames[u][n].fn # "mtrace"
    BY <1>1 DEF TraceInv, CallsOK, CallOK, Hooks
  <1>3. QED
    BY <1>1, <1>2 DEF Locked

LEMMA CloseStep ==
  ASSUME TraceInv, NEW t \in Threads, Destroy(t) \/ Delete(t)
  PROVE  TraceInv'
  <1>1. /\ frames[t] # << >> /\ Top(t).pc \in {"closing", "deleting"}
        /\ UNCHANGED <<hook, old, lock, ended, held>>
    BY DEF Destroy, Delete, In, heapVars
  <1>2. Top(t).fn = "muntrace" /\ ended /\ Ending /\ Top(t).pc \notin Locked
    BY <1>1, InMuntrace DEF Ending, TraceInv, HookTypes
  <1>3. PICK pc \in {"deleting", "unhook"} : Goto(t, pc)
    BY DEF Destroy, Delete
  <1>4. PICK f \in FrameType :
          SetTop(t, f) /\ f.fn = Top(t).fn /\ f.pc = pc /\ f.i = 1 /\ f.i \in 1 .. Len(Swapped(f.fn))
    BY <1>1, <1>3, WentTo DEF Positions
  <1>5. CallOK(f)'
    BY <1>1, <1>2, <1>3, <1>4 DEF CallOK
  <1>6. QED
    BY <1>1, <1>2, <1>3, <1>4, <1>5, MoveStep DEF Steady, Locked, TraceInv, HookTypes

\* Without the lock muntrace() takes out hooks only.
LEMMA UnhookStep ==
  ASSUME TraceInv, NEW t \in Threads, Unhook(t)
  PROVE  TraceInv'
  <1> DEFINE h == AllHooks[Top(t).i]
  <1>1. /\ frames[t] # << >> /\ Top(t).pc = "unhook" /\ hook' = [hook EXCEPT ![h] = old[h]]
        /\ UNCHANGED <<old, lock, stream, ended, held>> /\ (NextHook(t, "unhook") \/ Pop(t))
    BY DEF Unhook, In, traceVars, heapVars
  <1>2. Top(t).fn = "muntrace" /\ ended /\ Top(t).pc \notin Locked
    BY <1>1, InMuntrace
  <1>3. Ending
    <2>1. /\ hook \in [Hooks -> {"libc", "trace"}] /\ \A g \in Hooks : old[g] = "libc"
      BY DEF TraceInv, HookTypes, HooksOK
    <2>2. hook' \in [Hooks -> {"libc", "trace"}] /\ \A g \in Hooks : hook'[g] \in {hook[g], "libc"}
      <3>1. CASE h \in Hooks
        <4> HIDE DEF h
        <4>1. QED
          BY <1>1, <2>1, <3>1
      <3>2. CASE h \notin Hooks
        <4> HIDE DEF h
        <4>1. QED
          BY <1>1, <2>1, <3>2
      <3>3. QED
        BY <3>1, <3>2
    <2>3. QED
      BY <1>1, <1>2, <2>2, InMuntrace DEF Ending
  <1>4. held' \subseteq Addrs
    BY <1>1 DEF TraceInv, HookTypes
  <1>5. CASE Pop(t)
    BY <1>1, <1>2, <1>3, <1>4, <1>5, PopStep DEF Steady
  <1>6. CASE NextHook(t, "unhook")
    <2>1. PICK f \in FrameType :
             /\ SetTop(t, f) /\ f.fn = Top(t).fn /\ f.i \in 1 .. Len(Swapped(f.fn))
             /\ \/ Top(t).i < Len(Swapped(f.fn)) /\ f.pc = Top(t).pc /\ f.i = Top(t).i + 1
                \/ Top(t).i = Len(Swapped(f.fn)) /\ f.pc = "unhook" /\ f.i = 1
      BY <1>1, <1>6, WentOn DEF Positions
    <2>2. CallOK(f)' /\ f.pc \notin Locked
      BY <1>1, <1>2, <2>1 DEF CallOK, Locked
    <2>3. QED
      BY <1>1, <1>2, <1>3, <1>4, <2>1, <2>2, MoveStep DEF Steady
  <1>7. QED
    BY <1>1, <1>5, <1>6

-----------------------------------------------------------------------------
(***************************************************************************)
(* The theorems.                                                           *)
(***************************************************************************)

LEMMA InitInv == Init => TraceInv
  <1> SUFFICES ASSUME Init PROVE TraceInv
    OBVIOUS
  <1>1. \A t \in Threads : frames[t] = << >> /\ Len(frames[t]) = 0
    BY DEF Init
  <1>2. HookTypes
    <2>1. << >> \in Seq(FrameType)
      OBVIOUS
    <2>2. frames \in [Threads -> Seq(FrameType)]
      BY <2>1 DEF Init
    <2>3. ended \in BOOLEAN
      BY Zenon DEF Init
    <2>4. hook \in [Hooks -> {"libc", "trace"}] /\ old \in [Hooks -> {"libc", "trace"}]
      BY HookNames DEF Init
    <2>5. lock \in Threads \cup {NoThread} /\ held \subseteq Addrs
      BY DEF Init
    <2>6. QED
      BY <2>2, <2>3, <2>4, <2>5, Zenon DEF HookTypes
  <1>3. CallsOK
    BY <1>1 DEF CallsOK
  <1>4. LockOK
    BY <1>1, ConstantsAssumption DEF Init, LockOK, HasLock
  <1>5. HooksOK
    BY HookNames DEF Init, HooksOK
  <1>6. QED
    BY <1>2, <1>3, <1>4, <1>5 DEF TraceInv

LEMMA NextInv ==
  ASSUME TraceInv, ~Restarts, [Next]_vars
  PROVE  TraceInv'
  <1>1. CASE Finished \/ UNCHANGED vars
    <2>1. UNCHANGED <<core, frames>> /\ held' \subseteq Addrs
      BY <1>1 DEF Finished, vars, core, traceVars, heapVars, TraceInv, HookTypes
    <2>2. QED
      BY <2>1, NoStep
  <1>2. ASSUME NEW t \in Threads,
               \/ Malloc(t) \/ Memalign(t) \/ Free(t) \/ Realloc(t) \/ Mtrace(t) \/ Muntrace(t)
               \/ Lock(t) \/ Swap(t) \/ Call(t) \/ Restore(t) \/ Unlock(t)
               \/ Guard(t) \/ Mark(t) \/ MarkNew(t) \/ Dump(t) \/ Nested(t)
               \/ MtraceCheck(t) \/ MtraceOpen(t) \/ Install(t)
               \/ Destroy(t) \/ Delete(t) \/ Unhook(t)
        PROVE  TraceInv'
    <2>1. CASE Malloc(t) \/ Memalign(t) \/ Free(t) \/ Realloc(t)
      BY <2>1, AppStep
    <2>2. CASE Mtrace(t) \/ Muntrace(t)
      BY <2>2, MtraceStep, MuntraceStep
    <2>3. CASE Lock(t) \/ Swap(t) \/ Call(t) \/ Restore(t) \/ Unlock(t)
      BY <2>3, LockStep, SwapStep, CallStep, RestoreStep, UnlockStep
    <2>4. CASE Guard(t) \/ Mark(t) \/ MarkNew(t) \/ Dump(t) \/ Nested(t)
      BY <2>4, TraceStep, NestedStep
    <2>5. CASE MtraceCheck(t) \/ MtraceOpen(t) \/ Install(t)
      BY <2>5, CheckStep, OpenStep, InstallStep
    <2>6. CASE Destroy(t) \/ Delete(t) \/ Unhook(t)
      BY <2>6, CloseStep, UnhookStep
    <2>7. QED
      BY <1>2, <2>1, <2>2, <2>3, <2>4, <2>5, <2>6
  <1>3. QED
    BY <1>1, <1>2 DEF Next

\* The inductive invariant: who has the lock, and where that has left the hooks,
\* for programs that do not restart the trace.
THEOREM Invariance == ~Restarts => (Spec => []TraceInv)
  <1> SUFFICES ASSUME ~Restarts PROVE Spec => []TraceInv
    OBVIOUS
  <1>1. Init => TraceInv
    BY InitInv
  <1>2. TraceInv /\ [Next]_vars => TraceInv'
    BY NextInv
  <1>3. QED
    BY <1>1, <1>2, PTL DEF Spec

\* The thread that holds _hooks_lock does not ask for it again, however hooks
\* nest and whenever muntrace() comes.
THEOREM HolderNeverRelocks == ~Restarts => (Spec => []NoRelock)
  <1> SUFFICES ASSUME ~Restarts PROVE Spec => []NoRelock
    OBVIOUS
  <1>1. TraceInv => NoRelock
    BY DEF TraceInv, LockOK, HasLock, NoRelock, In, Locked
  <1>2. QED
    BY <1>1, Invariance, PTL

\* Until muntrace() the hooks that are out are those of the lock's holder, and
\* none was saved as its own old one.
THEOREM HooksStayInstalled == ~Restarts => (Spec => []HooksInstalled)
  <1> SUFFICES ASSUME ~Restarts PROVE Spec => []HooksInstalled
    OBVIOUS
  <1>1. TraceInv => HooksInstalled
    <2> SUFFICES ASSUME TraceInv, ~ended, stream = "open", NEW h \in Hooks
                 PROVE  old[h] = "libc" /\ (hook[h] = "libc" => lock # NoThread /\ h \in ToSet(Swapped(Top(lock).fn)))
      BY HookNames DEF HooksInstalled
    <2>1. old[h] = "libc"
      BY DEF TraceInv, HooksOK
    <2>2. ASSUME hook[h] = "libc" PROVE lock # NoThread /\ h \in ToSet(Swapped(Top(lock).fn))
      <3>1. lock # NoThread /\ lock \in Threads
        BY <2>2 DEF TraceInv, HooksOK, HookTypes
      <3>2. frames[lock] # << >> /\ HolderOK(Top(lock))
        BY <3>1 DEF TraceInv, LockOK, HasLock
      <3>3. PICK j \in 1 .. Len(Swapped(Top(lock).fn)) : h = Swapped(Top(lock).fn)[j]
        BY <2>2, <3>2 DEF HolderOK
      <3>4. Swapped(Top(lock).fn) \in Seq(Hooks)
        <4>1. Top(lock).fn \in Hooks \cup {"mtrace", "muntrace"}
          BY <3>1, <3>2, TopCall, HookNames DEF TraceInv, FrameType
        <4>2. QED
          BY <4>1, SwappedHooks
      <3>5. QED
        BY <3>1, <3>3, <3>4 DEF ToSet
    <2>3. QED
      BY <2>1, <2>2
  <1>2. QED
    BY <1>1, Invariance, PTL
-----------------------------------------------------------------------------
(***************************************************************************)
(* What the trace leaves allocated.                                        *)
(***************************************************************************)

\* Where _in_trace is set.
Tracing == {"mark", "mark_new", "dump"}

\* The program's own call; those above it are the tracer's.
Outer(t) == frames[t][1]

\* The call has not yet come to libc: the block it was given is still the
\* call's, afterwards the one it will hand over is.
Before(f) ==
  \/ f.pc \in {"lock", "swap", "call"}
  \/ f.fn = "free" /\ f.pc \in {"guard"} \cup Tracing

Block(f) == ({f.owned} \cup (IF Before(f) THEN {f.ptr} ELSE {})) \cap Addrs

Hands(t) == IF frames[t] = << >> THEN {} ELSE Block(Outer(t))

\* free() has printed its line before it comes to libc, the others print what
\* they hand over.
OuterOK(f) ==
  /\ Before(f) => f.owned = Null
  /\ f.hdr \in Addrs => f.owned = f.hdr
  /\ f.pc = "mark_new" => f.fn = "realloc"
  /\ f.fn = "free" /\ f.pc \in {"dump", "lock", "swap", "call"} => f.ptr \notin marked

\* The tracer's own calls are not traced, and concern its own blocks.
InnerOK(f) ==
  f.fn \in {"free", "malloc"} /\ f.ptr = Own /\ f.owned \in {Null, Own} /\ f.pc \notin Tracing

NestingOK(t) ==
  /\ Len(frames[t]) \in 0 .. 2
  /\ inTrace[t] <=> frames[t] # << >> /\ Outer(t).pc \in Tracing
  /\ frames[t] # << >> => OuterOK(Outer(t))
  /\ Len(frames[t]) = 2 => InnerOK(frames[t][2])

\* A live block is held, in the hands of one call, or neither.
Possession ==
  /\ held \subseteq live
  /\ \A t \in Threads : Hands(t) \subseteq live \ held
  /\ \A t, u \in Threads : t # u => Hands(t) \cap Hands(u) = {}

\* realloc() has moved the block at a away, and has not printed that.
Moved(t, a) ==
  /\ frames[t] # << >> /\ Outer(t).fn = "realloc" /\ Outer(t).ptr = a
  /\ Outer(t).pc \in {"restore", "unlock", "guard", "mark"} /\ Outer(t).hdr \notin {Null, a}

Accounted == \A a \in marked \ live : a \in missed \/ \E t \in Threads : Moved(t, a)

LeakTypes == live \subseteq Addrs /\ marked \subseteq Addrs /\ inTrace \in [Threads -> BOOLEAN]

LeakInv == LeakTypes /\ (~ended => (\A t \in Threads : NestingOK(t)) /\ Possession /\ Accounted)

\* The other threads' calls.
OthersSame(t) == \A u \in Threads \ {t} : frames'[u] = frames[u] /\ inTrace'[u] = inTrace[u]

\* The step of t leaves the others' blocks alone.
LEMMA OthersKeep ==
  ASSUME LeakInv, ~ended, LeakTypes', NEW t \in Threads, OthersSame(t), NestingOK(t)',
         marked' \subseteq marked \cup Hands(t),
         Hands(t)' \cup held' \subseteq Hands(t) \cup held \cup (Addrs \ live),
         Hands(t)' \cup held' \subseteq live', Hands(t)' \cap held' = {},
         live \ live' \subseteq Hands(t) \cup held
  PROVE  (\A u \in Threads : NestingOK(u))' /\ Possession'
  <1>1. ASSUME NEW u \in Threads \ {t}
        PROVE  /\ Hands(u)' = Hands(u) /\ Hands(u) \cap (Hands(t) \cup held) = {} /\ Hands(u) \subseteq live
               /\ NestingOK(u)
    <2>1. frames'[u] = frames[u]
      BY DEF OthersSame
    <2>2. Hands(u)' = Hands(u)
      BY <2>1 DEF Hands, Block, Before, Outer, Tracing
    <2>3. QED
      BY <2>2 DEF LeakInv, Possession
  <1>2. ASSUME NEW u \in Threads \ {t} PROVE NestingOK(u)'
    <2>1. frames'[u] = frames[u] /\ inTrace'[u] = inTrace[u] /\ Outer(u)' = Outer(u)
      BY DEF OthersSame, Outer
    <2>2. ASSUME frames[u] # << >> PROVE OuterOK(Outer(u))'
      <3>1. OuterOK(Outer(u))
        BY <1>1, <2>2 DEF NestingOK
      <3>2. ASSUME Outer(u).fn = "free" /\ Outer(u).pc \in {"dump", "lock", "swap", "call"}
            PROVE  Outer(u).ptr \notin marked'
        <4>1. Outer(u).ptr \notin marked
          BY <3>1, <3>2 DEF OuterOK
        <4>2. Outer(u).ptr \in Addrs => Outer(u).ptr \in Hands(u)
          BY <2>2, <3>2 DEF Hands, Block, Before, Tracing
        <4>3. Hands(t) \subseteq Addrs
          BY DEF Hands, Block
        <4>4. QED
          BY <1>1, <4>1, <4>2, <4>3
      <3>3. QED
        BY <2>1, <3>1, <3>2 DEF OuterOK, Before, Tracing
    <2>3. QED
      BY <1>1, <2>1, <2>2 DEF NestingOK, InnerOK
  <1>3. ASSUME NEW u \in Threads PROVE Hands(u)' \subseteq live' \ held'
    BY <1>1
  <1>4. ASSUME NEW u \in Threads, NEW v \in Threads, u # v PROVE Hands(u)' \cap Hands(v)' = {}
    <2>1. CASE u # t /\ v # t
      BY <1>1, <1>4, <2>1 DEF LeakInv, Possession
    <2>2. CASE u = t \/ v = t
      BY <1>1, <1>4, <2>2
    <2>3. QED
      BY <2>1, <2>2
  <1>5. QED
    BY <1>2, <1>3, <1>4 DEF Possession

\* A step that changes neither the trace nor the heap.
Quiet == UNCHANGED <<live, marked, missed, ended>>

LEMMA QuietStep ==
  ASSUME LeakInv, ~ended, NEW t \in Threads, OthersSame(t), NestingOK(t)', Quiet,
         inTrace' \in [Threads -> BOOLEAN],
         Hands(t)' \cup held' \subseteq Hands(t) \cup held, Hands(t)' \cap held' = {},
         \A a \in Addrs : Moved(t, a) => Moved(t, a)'
  PROVE  LeakInv'
  <1>1. LeakTypes'
    BY DEF LeakInv, LeakTypes, Quiet
  <1>2. Hands(t)' \cup held' \subseteq live'
    BY DEF LeakInv, Possession, Quiet
  <1>3. (\A u \in Threads : NestingOK(u))' /\ Possession'
    BY <1>1, <1>2, OthersKeep DEF Quiet
  <1>4. ASSUME NEW a \in marked' \ live' PROVE a \in missed' \/ \E u \in Threads : Moved(u, a)'
    <2>1. a \in Addrs /\ (a \in missed \/ \E u \in Threads : Moved(u, a))
      BY DEF LeakInv, LeakTypes, Accounted, Quiet
    <2>2. ASSUME NEW u \in Threads, Moved(u, a) PROVE Moved(u, a)'
      <3>1. CASE u = t
        BY <2>1, <2>2, <3>1
      <3>2. CASE u # t
        BY <2>2, <3>2 DEF OthersSame, Moved, Outer
      <3>3. QED
        BY <3>1, <3>2
    <2>3. QED
      BY <2>1, <2>2 DEF Quiet
  <1>5. QED
    BY <1>1, <1>3, <1>4 DEF LeakInv, Accounted

\* After muntrace() the trace is over.
LEMMA OverStep == ASSUME LeakTypes', ended' PROVE LeakInv'
  BY DEF LeakInv

-----------------------------------------------------------------------------

\* The running call is the program's or the tracer's.
LEMMA Depth ==
  ASSUME HookTypes, NEW t \in Threads, NestingOK(t)
  PROVE  /\ frames[t] \in Seq(FrameType)
         /\ frames[t] = << >> <=> Len(frames[t]) = 0
         /\ Len(frames[t]) = 1 => Top(t) = Outer(t) /\ OuterOK(Top(t)) /\ Hands(t) = Block(Top(t))
         /\ Len(frames[t]) = 2 => Top(t) = frames[t][2] /\ InnerOK(Top(t))
         /\ frames[t] # << >> => Len(frames[t]) \in {1, 2} /\ Top(t) \in FrameType
  <1>1. frames[t] \in Seq(FrameType)
    BY DEF HookTypes
  <1>2. frames[t] = << >> <=> Len(frames[t]) = 0
    BY <1>1
  <1>3. Top(t) = frames[t][Len(frames[t])]
    BY DEF Top, Last
  <1>4. frames[t] # << >> => Len(frames[t]) \in {1, 2} /\ Top(t) \in FrameType
    <2>1. Len(frames[t]) \in Nat /\ Len(frames[t]) \in 0 .. 2
      BY <1>1 DEF NestingOK
    <2>2. QED
      BY <1>1, <1>2, <1>3, <2>1
  <1>5. Len(frames[t]) = 1 => Top(t) = Outer(t) /\ OuterOK(Top(t)) /\ Hands(t) = Block(Top(t))
    BY <1>2, <1>3 DEF NestingOK, Outer, Hands
  <1>6. Len(frames[t]) = 2 => Top(t) = frames[t][2] /\ InnerOK(Top(t))
    BY <1>3 DEF NestingOK
  <1>7. QED
    BY <1>1, <1>2, <1>4, <1>5, <1>6

\* The same call elsewhere.
Same(f, g) == f.fn = g.fn /\ f.ptr = g.ptr /\ f.zero = g.zero /\ f.hdr = g.hdr /\ f.owned = g.owned

LEMMA GoesTo ==
  ASSUME NEW t \in Threads, Top(t) \in FrameType, NEW pc \in Positions, Goto(t, pc)
  PROVE  \E f \in FrameType : SetTop(t, f) /\ Same(f, Top(t)) /\ f.pc = pc
  <1>. PICK f : f = [Top(t) EXCEPT !.pc = pc, !.i = 1]
    OBVIOUS
  <1>1. 1 \in DOMAIN AllHooks
    BY HookNames
  <1>2. f \in FrameType /\ Same(f, Top(t)) /\ f.pc = pc
    BY <1>1 DEF FrameType, Same
  <1>3. SetTop(t, f)
    BY DEF Goto
  <1>4. QED
    BY <1>2, <1>3, Zenon

LEMMA GoesOn ==
  ASSUME TraceInv, NEW t \in Threads, frames[t] # << >>, NEW pc \in Positions, NextHook(t, pc)
  PROVE  \E f \in FrameType : SetTop(t, f) /\ Same(f, Top(t)) /\ f.pc \in {Top(t).pc, pc}
  <1>1. Top(t) \in FrameType
    BY TopCall DEF TraceInv
  <1>2. CASE Top(t).i < Len(Swapped(Top(t).fn))
    <2>1. Top(t).i + 1 \in DOMAIN AllHooks
      BY <1>2, NextIndex
    <2>. PICK f : f = [Top(t) EXCEPT !.i = @ + 1]
      OBVIOUS
    <2>2. f \in FrameType /\ Same(f, Top(t)) /\ f.pc = Top(t).pc
      BY <1>1, <2>1 DEF FrameType, Same
    <2>3. SetTop(t, f)
      BY <1>2 DEF NextHook
    <2>4. QED
      BY <2>2, <2>3, Zenon
  <1>3. CASE ~(Top(t).i < Len(Swapped(Top(t).fn)))
    <2>1. Goto(t, pc)
      BY <1>3 DEF NextHook
    <2>2. PICK f \in FrameType : SetTop(t, f) /\ Same(f, Top(t)) /\ f.pc = pc
      BY <1>1, <2>1, GoesTo
    <2>3. QED
      BY <2>2, Zenon
  <1>4. QED
    BY <1>2, <1>3

\* What becomes of a thread's calls when the running one is replaced ...
LEMMA SetNesting ==
  ASSUME HookTypes, NEW t \in Threads, NestingOK(t), frames[t] # << >>,
         NEW f \in FrameType, SetTop(t, f)
  PROVE  /\ Len(frames'[t]) = Len(frames[t]) /\ frames'[t] # << >>
         /\ Len(frames[t]) = 1 => Outer(t)' = f /\ Hands(t)' = Block(f)
         /\ Len(frames[t]) = 2 => frames'[t][2] = f /\ Outer(t)' = Outer(t) /\ Hands(t)' = Hands(t)
         /\ \A u \in Threads \ {t} : frames'[u] = frames[u]
  <1>1. /\ Len(frames'[t]) = Len(frames[t]) /\ frames'[t] # << >> /\ frames'[t][Len(frames[t])] = f
        /\ \A n \in 1 .. Len(frames[t]) - 1 : frames'[t][n] = frames[t][n]
        /\ \A u \in Threads \ {t} : frames'[u] = frames[u]
    BY SetFrames
  <1>2. Len(frames[t]) = 1 => Outer(t)' = f
    BY <1>1 DEF Outer
  <1>3. Len(frames[t]) = 2 => frames'[t][2] = f /\ Outer(t)' = Outer(t)
    <2>1. Len(frames[t]) = 2 => 1 \in 1 .. Len(frames[t]) - 1
      OBVIOUS
    <2>2. QED
      BY <1>1, <2>1 DEF Outer
  <1>4. Len(frames[t]) = 1 => Hands(t)' = Block(f)
    BY <1>1, <1>2 DEF Hands, Block, Before, Tracing
  <1>5. Len(frames[t]) = 2 => Hands(t)' = Hands(t)
    BY <1>1, <1>3 DEF Hands, Block, Before, Tracing
  <1>6. QED
    BY <1>1, <1>2, <1>3, <1>4, <1>5

\* ... or returns.
LEMMA PopNesting ==
  ASSUME HookTypes, NEW t \in Threads, NestingOK(t), frames[t] # << >>, Pop(t)
  PROVE  /\ Len(frames[t]) = 1 => frames'[t] = << >> /\ Len(frames'[t]) = 0 /\ Hands(t)' = {}
         /\ Len(frames[t]) = 2 => /\ Len(frames'[t]) = 1 /\ frames'[t] # << >>
                                  /\ Outer(t)' = Outer(t) /\ Hands(t)' = Hands(t)
         /\ \A u \in Threads \ {t} : frames'[u] = frames[u]
  <1>1. /\ frames'[t] \in Seq(FrameType) /\ Len(frames'[t]) = Len(frames[t]) - 1
        /\ \A n \in 1 .. Len(frames[t]) - 1 : frames'[t][n] = frames[t][n]
        /\ \A u \in Threads \ {t} : frames'[u] = frames[u]
    BY PopFrames
  <1>2. Len(frames[t]) = 1 => frames'[t] = << >> /\ Len(frames'[t]) = 0 /\ Hands(t)' = {}
    BY <1>1 DEF Hands
  <1>3. ASSUME Len(frames[t]) = 2
        PROVE  Len(frames'[t]) = 1 /\ frames'[t] # << >> /\ Outer(t)' = Outer(t)
    <2>1. Len(frames'[t]) = 1 /\ 1 \in 1 .. Len(frames[t]) - 1
      BY <1>1, <1>3
    <2>2. frames'[t] # << >>
      BY <2>1
    <2>3. Outer(t)' = Outer(t)
      BY <1>1, <2>1 DEF Outer
    <2>4. QED
      BY <2>1, <2>2, <2>3
  <1>4. Len(frames[t]) = 2 => Hands(t)' = Hands(t)
    BY <1>3 DEF Hands, Block, Before, Tracing
  <1>5. QED
    BY <1>1, <1>2, <1>3, <1>4

\* The running call goes on, or is replaced by one that has no more of the heap.
LEMMA QuietSet ==
  ASSUME TraceInv, LeakInv, ~ended, NEW t \in Threads, frames[t] # << >>, NEW f \in FrameType, SetTop(t, f),
         Quiet, held' = held, inTrace' \in [Threads -> BOOLEAN],
         \A u \in Threads \ {t} : inTrace'[u] = inTrace[u],
         Len(frames[t]) = 1 => /\ OuterOK(f)' /\ (inTrace'[t] <=> f.pc \in Tracing) /\ Block(f) \subseteq Block(Top(t))
                               /\ f.fn = Top(t).fn /\ f.ptr = Top(t).ptr /\ f.hdr = Top(t).hdr
                               /\ f.fn = "realloc" /\ Top(t).pc \in {"restore", "unlock", "guard", "mark"} =>
                                    f.pc \in {"restore", "unlock", "guard", "mark"},
         Len(frames[t]) = 2 => InnerOK(f) /\ inTrace'[t] = inTrace[t]
  PROVE  LeakInv'
  <1>1. HookTypes /\ NestingOK(t)
    BY DEF TraceInv, LeakInv
  <1>2. Len(frames[t]) \in {1, 2}
    BY <1>1, Depth
  <1>3. OthersSame(t)
    BY <1>1, SetNesting DEF OthersSame
  <1>4. CASE Len(frames[t]) = 1
    <2>1. /\ frames'[t] # << >> /\ Len(frames'[t]) = 1 /\ Outer(t)' = f /\ Hands(t)' = Block(f)
          /\ Top(t) = Outer(t) /\ Hands(t) = Block(Top(t))
      BY <1>1, <1>4, SetNesting, Depth
    <2>2. NestingOK(t)'
      BY <1>4, <2>1 DEF NestingOK
    <2>3. \A a \in Addrs : Moved(t, a) => Moved(t, a)'
      BY <1>4, <2>1 DEF Moved
    <2>4. Hands(t)' \subseteq Hands(t) /\ Hands(t)' \cap held' = {}
      BY <1>4, <2>1 DEF LeakInv, Possession
    <2>5. QED
      BY <1>3, <2>2, <2>3, <2>4, QuietStep
  <1>5. CASE Len(frames[t]) = 2
    <2>1. /\ frames'[t] # << >> /\ Len(frames'[t]) = 2 /\ Outer(t)' = Outer(t) /\ Hands(t)' = Hands(t)
          /\ frames'[t][2] = f
      BY <1>1, <1>5, SetNesting
    <2>2. OuterOK(Outer(t))'
      BY <1>1, <2>1 DEF OuterOK, NestingOK, Quiet, Before, Tracing
    <2>3. NestingOK(t)'
      BY <1>1, <1>5, <2>1, <2>2 DEF NestingOK, InnerOK, Tracing
    <2>4. \A a \in Addrs : Moved(t, a) => Moved(t, a)'
      BY <2>1 DEF Moved
    <2>5. Hands(t)' \cap held' = {}
      BY <2>1 DEF LeakInv, Possession
    <2>6. QED
      BY <1>3, <2>1, <2>3, <2>4, <2>5, QuietStep
  <1>6. QED
    BY <1>2, <1>4, <1>5

\* The same call goes on, outside of the tracing.
LEMMA QuietMove ==
  ASSUME TraceInv, LeakInv, ~ended, NEW t \in Threads, frames[t] # << >>,
         NEW f \in FrameType, SetTop(t, f), Same(f, Top(t)),
         Quiet, held' = held, inTrace' = inTrace,
         Top(t).pc \notin Tracing, f.pc \notin Tracing, Before(f) => Before(Top(t)),
         f.fn = "free" /\ f.pc \in {"lock", "swap", "call"} => Top(t).pc \in {"lock", "swap"},
         Top(t).pc \in {"restore", "unlock", "guard"} => f.pc \in {"restore", "unlock", "guard"}
  PROVE  LeakInv'
  <1>1. HookTypes /\ NestingOK(t)
    BY DEF TraceInv, LeakInv
  <1>2. ASSUME Len(frames[t]) = 1
        PROVE  OuterOK(f)' /\ (inTrace'[t] <=> f.pc \in Tracing) /\ Block(f) \subseteq Block(Top(t))
    <2>1. OuterOK(Top(t)) /\ Top(t) = Outer(t)
      BY <1>1, <1>2, Depth
    <2>2. OuterOK(f)'
      BY <2>1 DEF OuterOK, Same, Quiet, Before, Tracing
    <2>3. Block(f) \subseteq Block(Top(t))
      BY DEF Block, Same
    <2>4. QED
      BY <1>1, <2>1, <2>2, <2>3 DEF NestingOK
  <1>3. Len(frames[t]) = 2 => InnerOK(f)
    BY <1>1, Depth DEF InnerOK, Same
  <1>4. inTrace' \in [Threads -> BOOLEAN] /\ \A u \in Threads : inTrace'[u] = inTrace[u]
    BY DEF LeakInv, LeakTypes
  <1>5. QED
    BY <1>2, <1>3, <1>4, QuietSet DEF Same, Tracing

\* The running call returns with what it has in its hands.
LEMMA QuietPop ==
  ASSUME TraceInv, LeakInv, ~ended, NEW t \in Threads, frames[t] # << >>, Return(t),
         Quiet, inTrace' \in [Threads -> BOOLEAN], \A u \in Threads \ {t} : inTrace'[u] = inTrace[u],
         Len(frames[t]) = 1 => ~inTrace'[t] /\ (Top(t).fn # "realloc" \/ Top(t).pc = "dump"),
         Len(frames[t]) = 2 => inTrace'[t] = inTrace[t]
  PROVE  LeakInv'
  <1>1. HookTypes /\ NestingOK(t) /\ Pop(t) /\ held' = held \cup ({Top(t).owned} \cap Addrs)
    BY DEF TraceInv, LeakInv, Return
  <1>2. Len(frames[t]) \in {1, 2}
    BY <1>1, Depth
  <1>3. OthersSame(t)
    BY <1>1, PopNesting DEF OthersSame
  <1>4. CASE Len(frames[t]) = 1
    <2>1. /\ frames'[t] = << >> /\ Len(frames'[t]) = 0 /\ Hands(t)' = {}
          /\ Top(t) = Outer(t) /\ Hands(t) = Block(Top(t))
      BY <1>1, <1>4, PopNesting, Depth
    <2>2. NestingOK(t)'
      BY <1>4, <2>1 DEF NestingOK
    <2>3. \A a \in Addrs : Moved(t, a) => Moved(t, a)'
      BY <1>4, <2>1 DEF Moved
    <2>4. Hands(t)' \cup held' \subseteq Hands(t) \cup held /\ Hands(t)' \cap held' = {}
      BY <1>1, <2>1 DEF Block
    <2>5. QED
      BY <1>3, <2>2, <2>3, <2>4, QuietStep
  <1>5. CASE Len(frames[t]) = 2
    <2>1. /\ frames'[t] # << >> /\ Len(frames'[t]) = 1 /\ Outer(t)' = Outer(t) /\ Hands(t)' = Hands(t)
          /\ InnerOK(Top(t))
      BY <1>1, <1>5, PopNesting, Depth
    <2>2. OuterOK(Outer(t))'
      BY <1>1, <2>1 DEF OuterOK, NestingOK, Quiet, Before, Tracing
    <2>3. NestingOK(t)'
      BY <1>1, <1>5, <2>1, <2>2 DEF NestingOK
    <2>4. \A a \in Addrs : Moved(t, a) => Moved(t, a)'
      BY <2>1 DEF Moved
    <2>5. held' = held
      BY <1>1, <2>1, ConstantsAssumption DEF InnerOK
    <2>6. Hands(t)' \cap held' = {}
      BY <2>1, <2>5 DEF LeakInv, Possession
    <2>7. QED
      BY <1>3, <2>1, <2>3, <2>4, <2>5, <2>6, QuietStep
  <1>6. QED
    BY <1>2, <1>4, <1>5

-----------------------------------------------------------------------------

LEMMA InnerStays ==
  ASSUME TraceInv, LeakInv, ~ended, NEW t \in Threads, frames[t] # << >>
  PROVE  /\ HookTypes /\ NestingOK(t) /\ Top(t) \in FrameType /\ CallOK(Top(t)) /\ Len(frames[t]) \in {1, 2}
         /\ Top(t).fn # "muntrace" /\ (Top(t).fn \in Hooks => stream = "open")
         /\ Top(t).pc \in Tracing => Len(frames[t]) = 1
         /\ Len(frames[t]) = 1 => inTrace[t] <=> Top(t).pc \in Tracing
         /\ Len(frames[t]) = 2 => inTrace[t]
  <1>1. HookTypes /\ NestingOK(t)
    BY DEF TraceInv, LeakInv
  <1>2. Top(t) \in FrameType /\ CallOK(Top(t)) /\ Len(frames[t]) \in {1, 2}
    BY <1>1, Depth, TopCall DEF TraceInv
  <1>3. Top(t).fn # "muntrace" /\ (Top(t).fn \in Hooks => stream = "open")
    BY <1>2 DEF CallOK, Hooks
  <1>4. Top(t).pc \in Tracing => Len(frames[t]) = 1
    BY <1>1, <1>2, Depth DEF InnerOK
  <1>5. Len(frames[t]) = 1 => inTrace[t] <=> Top(t).pc \in Tracing
    BY <1>1, Depth DEF NestingOK
  <1>6. ASSUME Len(frames[t]) = 2 PROVE inTrace[t]
    <2>1. 1 \in 1 .. Len(frames[t]) /\ 1 < Len(frames[t])
      BY <1>6
    <2>2. CallOK(Outer(t)) /\ Outer(t).pc \in Waiting
      BY <2>1 DEF TraceInv, CallsOK, Outer
    <2>3. Outer(t).pc \in Tracing
      BY <2>2 DEF CallOK, Waiting, Tracing, HookPositions
    <2>4. QED
      BY <1>1, <2>3 DEF NestingOK
  <1>7. QED
    BY <1>1, <1>2, <1>3, <1>4, <1>5, <1>6

\* The lock, the hooks, and mtrace().
LEMMA HooksLeak ==
  ASSUME TraceInv, LeakInv, ~ended, NEW t \in Threads,
         \/ Lock(t) \/ Swap(t) \/ Restore(t) \/ MtraceCheck(t) \/ MtraceOpen(t) \/ Install(t)
  PROVE  LeakInv'
  <1>1. /\ frames[t] # << >> /\ Quiet /\ held' = held /\ inTrace' = inTrace
        /\ Top(t).pc \in {"lock", "swap", "restore", "mtrace", "open", "install"}
    BY DEF Lock, Swap, Restore, MtraceCheck, MtraceOpen, Install, In, Quiet, heapVars, traceVars
  <1>2. Top(t) \in FrameType /\ CallOK(Top(t))
    BY <1>1, InnerStays
  <1>3. \A pc \in {"swap", "mtrace", "unlock", "open", "install", "call"} : pc \in Positions
    BY DEF Positions
  <1>4. CASE Lock(t)
    <2>1. PICK pc \in {"swap", "mtrace"} : Goto(t, pc)
      BY <1>4 DEF Lock
    <2>2. PICK f \in FrameType : SetTop(t, f) /\ Same(f, Top(t)) /\ f.pc = pc
      BY <1>2, <1>3, <2>1, GoesTo
    <2>3. Top(t).pc = "lock"
      BY <1>4 DEF Lock, In
    <2>4. QED
      BY <1>1, <2>2, <2>3, QuietMove DEF Same, Before, Tracing
  <1>5. CASE Swap(t)
    <2>1. NextHook(t, "call") /\ Top(t).pc = "swap"
      BY <1>5 DEF Swap, In
    <2>2. PICK f \in FrameType : SetTop(t, f) /\ Same(f, Top(t)) /\ f.pc \in {"swap", "call"}
      BY <1>1, <1>3, <2>1, GoesOn
    <2>3. QED
      BY <1>1, <2>1, <2>2, QuietMove DEF Same, Before, Tracing
  <1>6. CASE Restore(t)
    <2>1. NextHook(t, "unlock") /\ Top(t).pc = "restore"
      BY <1>6 DEF Restore, In
    <2>2. PICK f \in FrameType : SetTop(t, f) /\ Same(f, Top(t)) /\ f.pc \in {"restore", "unlock"}
      BY <1>1, <1>3, <2>1, GoesOn
    <2>3. QED
      BY <1>1, <2>1, <2>2, QuietMove DEF Same, Before, Tracing
  <1>7. CASE Install(t)
    <2>1. NextHook(t, "unlock") /\ Top(t).pc = "install"
      BY <1>7 DEF Install, In
    <2>2. PICK f \in FrameType : SetTop(t, f) /\ Same(f, Top(t)) /\ f.pc \in {"install", "unlock"}
      BY <1>1, <1>3, <2>1, GoesOn
    <2>3. QED
      BY <1>1, <2>1, <2>2, QuietMove DEF Same, Before, Tracing
  <1>8. CASE MtraceCheck(t) \/ MtraceOpen(t)
    <2>1. PICK pc \in {"unlock", "open", "install"} : Goto(t, pc)
      BY <1>8 DEF MtraceCheck, MtraceOpen
    <2>2. PICK f \in FrameType : SetTop(t, f) /\ Same(f, Top(t)) /\ f.pc = pc
      BY <1>2, <1>3, <2>1, GoesTo
    <2>3. Top(t).pc \in {"mtrace", "open"}
      BY <1>8 DEF MtraceCheck, MtraceOpen, In
    <2>4. QED
      BY <1>1, <2>2, <2>3, QuietMove DEF Same, Before, Tracing
  <1>9. QED
    BY <1>4, <1>5, <1>6, <1>7, <1>8

LEMMA UnlockLeak ==
  ASSUME TraceInv, LeakInv, ~ended, NEW t \in Threads, Unlock(t)
  PROVE  LeakInv'
  <1>1. frames[t] # << >> /\ Quiet /\ inTrace' = inTrace /\ Top(t).pc = "unlock"
    BY DEF Unlock, In, Quiet, traceVars
  <1>2. Top(t) \in FrameType
    BY <1>1, InnerStays
  <1>3. CASE Top(t).fn \in {"free", "mtrace"}
    <2>1. Return(t)
      BY <1>3 DEF Unlock
    <2>2. Len(frames[t]) = 1 => ~inTrace[t]
      BY <1>1, InnerStays DEF Tracing
    <2>3. inTrace' \in [Threads -> BOOLEAN]
      BY <1>1 DEF LeakInv, LeakTypes
    <2>4. QED
      BY <1>1, <1>3, <2>1, <2>2, <2>3, QuietPop
  <1>4. CASE Top(t).fn \notin {"free", "mtrace"}
    <2>1. Goto(t, "guard") /\ held' = held /\ "guard" \in Positions
      BY <1>4 DEF Unlock, Positions
    <2>2. PICK f \in FrameType : SetTop(t, f) /\ Same(f, Top(t)) /\ f.pc = "guard"
      BY <1>2, <2>1, GoesTo
    <2>3. QED
      BY <1>1, <1>4, <2>1, <2>2, QuietMove DEF Same, Before, Tracing
  <1>5. QED
    BY <1>3, <1>4

\* The program's call sets _in_trace, the tracer's finds it set.
LEMMA GuardLeak ==
  ASSUME TraceInv, LeakInv, ~ended, NEW t \in Threads, Guard(t)
  PROVE  LeakInv'
  <1>1. frames[t] # << >> /\ Quiet /\ Top(t).pc = "guard"
    BY DEF Guard, In, Quiet, traceVars
  <1>2. Top(t) \in FrameType /\ NestingOK(t) /\ HookTypes /\ Len(frames[t]) \in {1, 2}
    BY <1>1, InnerStays
  <1>3. /\ inTrace' \in [Threads -> BOOLEAN] /\ inTrace'[t] = TRUE
        /\ \A u \in Threads \ {t} : inTrace'[u] = inTrace[u]
    BY DEF Guard, LeakInv, LeakTypes
  <1>4. CASE Len(frames[t]) = 1
    <2>1. ~inTrace[t]
      BY <1>1, <1>4, InnerStays DEF Tracing
    <2>2. Goto(t, "mark") /\ held' = held /\ "mark" \in Positions
      BY <2>1 DEF Guard, Positions
    <2>3. PICK f \in FrameType : SetTop(t, f) /\ Same(f, Top(t)) /\ f.pc = "mark"
      BY <1>2, <2>2, GoesTo
    <2>4. OuterOK(Top(t)) /\ marked' = marked
      BY <1>1, <1>2, <1>4, Depth DEF Quiet
    <2>5. OuterOK(f)'
      BY <1>1, <2>3, <2>4 DEF OuterOK, Same, Before, Tracing
    <2>6. Block(f) \subseteq Block(Top(t))
      BY <1>1, <2>3 DEF Block, Before, Same, Tracing
    <2>7. QED
      BY <1>1, <1>3, <1>4, <2>2, <2>3, <2>5, <2>6, QuietSet DEF Same, Tracing
  <1>5. CASE Len(frames[t]) = 2
    <2>1. inTrace[t] /\ InnerOK(Top(t))
      BY <1>1, <1>2, <1>5, InnerStays, Depth
    <2>2. Traced(t)
      BY <2>1 DEF Guard
    <2>3. inTrace'[t] = inTrace[t]
      BY <1>3, <2>1
    <2>4. CASE Top(t).fn = "free"
      <3>1. Goto(t, "lock") /\ held' = held /\ "lock" \in Positions
        BY <2>2, <2>4 DEF Traced, Positions
      <3>2. PICK f \in FrameType : SetTop(t, f) /\ Same(f, Top(t)) /\ f.pc = "lock"
        BY <1>2, <3>1, GoesTo
      <3>3. InnerOK(f)
        BY <2>1, <3>2 DEF InnerOK, Same, Tracing
      <3>4. QED
        BY <1>1, <1>3, <1>5, <2>3, <3>1, <3>2, <3>3, QuietSet
    <2>5. CASE Top(t).fn # "free"
      <3>1. Return(t)
        BY <2>2, <2>5 DEF Traced
      <3>2. QED
        BY <1>1, <1>3, <1>5, <2>3, <3>1, QuietPop
    <2>6. QED
      BY <2>4, <2>5
  <1>6. QED
    BY <1>2, <1>4, <1>5

\* What a line changes while the stream is open.
LEMMA Writes ==
  ASSUME NEW allocated, NEW released, Write(allocated, released), stream = "open"
  PROVE  /\ marked' = (marked \ released) \cup (allocated \cap Addrs)
         /\ missed' = missed \ (allocated \cup released)
  BY DEF Write

LEMMA DumpLeak ==
  ASSUME TraceInv, LeakInv, ~ended, NEW t \in Threads, Dump(t)
  PROVE  LeakInv'
  <1>1. /\ frames[t] # << >> /\ Top(t).pc = "dump" /\ UNCHANGED <<live, ended>>
        /\ Traced(t) /\ Write({}, {})
    BY DEF Dump, In
  <1>2. /\ Top(t) \in FrameType /\ NestingOK(t) /\ HookTypes /\ Len(frames[t]) = 1
        /\ CallOK(Top(t)) /\ (Top(t).fn \in Hooks => stream = "open")
    BY <1>1, InnerStays DEF Tracing
  <1>3. /\ inTrace' \in [Threads -> BOOLEAN] /\ ~inTrace'[t]
        /\ \A u \in Threads \ {t} : inTrace'[u] = inTrace[u]
    BY DEF Dump, LeakInv, LeakTypes
  <1>4. stream = "open"
    BY <1>1, <1>2 DEF CallOK
  <1>5. Quiet
    <2>1. marked' = (marked \ {}) \cup ({} \cap Addrs) /\ missed' = missed \ ({} \cup {})
      BY <1>1, <1>4, Writes
    <2>2. marked' = marked /\ missed' = missed
      BY <2>1
    <2>3. QED
      BY <1>1, <2>2 DEF Quiet
  <1>6. CASE Top(t).fn = "free"
    <2>1. Goto(t, "lock") /\ held' = held /\ "lock" \in Positions
      BY <1>1, <1>6 DEF Traced, Positions
    <2>2. PICK f \in FrameType : SetTop(t, f) /\ Same(f, Top(t)) /\ f.pc = "lock"
      BY <1>2, <2>1, GoesTo
    <2>3. OuterOK(Top(t)) /\ marked' = marked
      BY <1>2, <1>5, Depth DEF Quiet
    <2>4. OuterOK(f)'
      BY <1>1, <1>6, <2>2, <2>3 DEF OuterOK, Same, Before, Tracing
    <2>5. Block(f) \subseteq Block(Top(t))
      BY <1>1, <1>6, <2>2 DEF Block, Before, Same, Tracing
    <2>6. /\ inTrace'[t] <=> f.pc \in Tracing
          /\ f.fn = "free" /\ f.fn = Top(t).fn /\ f.ptr = Top(t).ptr /\ f.hdr = Top(t).hdr
      BY <1>3, <1>6, <2>2 DEF Same, Tracing
    <2>7. frames[t] # << >> /\ Len(frames[t]) # 2
      BY <1>1, <1>2
    <2>8. QED
      BY <1>3, <1>5, <2>1, <2>2, <2>4, <2>5, <2>6, <2>7, QuietSet
  <1>7. CASE Top(t).fn # "free"
    <2>1. Return(t)
      BY <1>1, <1>7 DEF Traced
    <2>2. QED
      BY <1>1, <1>2, <1>3, <1>5, <2>1, QuietPop
  <1>8. QED
    BY <1>6, <1>7

\* A line of the running call.
LEMMA MarkLeak ==
  ASSUME TraceInv, LeakInv, ~ended, NEW t \in Threads, Mark(t) \/ MarkNew(t)
  PROVE  LeakInv'
  <1> DEFINE g == Top(t)
             moved == g.fn = "realloc" /\ g.hdr # Null /\ g.ptr # Null
             first == Mark(t) /\ (g.fn = "free" \/ moved)
             allocated == IF first THEN {} ELSE {g.hdr}
             released == IF first THEN {g.ptr} ELSE {}
  <1>1. /\ frames[t] # << >> /\ g.pc \in {"mark", "mark_new"}
        /\ UNCHANGED <<live, held, ended>> /\ inTrace' = inTrace
    BY DEF Mark, MarkNew, In
  <1>2. /\ g \in FrameType /\ NestingOK(t) /\ HookTypes /\ Len(frames[t]) = 1
        /\ CallOK(g) /\ (g.fn \in Hooks => stream = "open") /\ inTrace[t]
    BY <1>1, InnerStays DEF Tracing
  <1>3. stream = "open"
    BY <1>1, <1>2 DEF CallOK
  <1>4. g = Outer(t) /\ OuterOK(g) /\ Hands(t) = Block(g)
    BY <1>2, Depth
  <1>5. Write(allocated, released)
    <2>1. CASE Mark(t)
      BY <2>1 DEF Mark
    <2>2. CASE MarkNew(t) /\ ~Mark(t)
      BY <2>2 DEF MarkNew
    <2>3. QED
      BY <2>1, <2>2
  <1>6. /\ marked' = (marked \ released) \cup (allocated \cap Addrs)
        /\ missed' = missed \ (allocated \cup released)
    <2> HIDE DEF allocated, released
    <2>1. QED
      BY <1>3, <1>5, Writes
  <1>7. \E pc \in {"mark_new", "dump"} : /\ Goto(t, pc) /\ (pc = "mark_new" => g.fn = "realloc")
                                       /\ (g.fn = "free" => released = {g.ptr} /\ allocated = {})
    <2>1. CASE Mark(t)
      BY <2>1 DEF Mark
    <2>2. CASE MarkNew(t) /\ ~Mark(t)
      BY <1>4, <2>2 DEF MarkNew, In, OuterOK
    <2>3. QED
      BY <2>1, <2>2
  <1>8. PICK pc \in {"mark_new", "dump"} : /\ Goto(t, pc) /\ (pc = "mark_new" => g.fn = "realloc")
                                         /\ (g.fn = "free" => released = {g.ptr} /\ allocated = {})
    BY <1>7
  <1>9. PICK f \in FrameType : SetTop(t, f) /\ Same(f, g) /\ f.pc = pc
    BY <1>2, <1>8, GoesTo DEF Positions
  <1>10. /\ Len(frames'[t]) = 1 /\ frames'[t] # << >> /\ Outer(t)' = f /\ Hands(t)' = Block(f)
         /\ \A u \in Threads \ {t} : frames'[u] = frames[u]
    BY <1>1, <1>2, <1>9, SetNesting
  <1>11. Block(f) \subseteq Hands(t)
    BY <1>1, <1>4, <1>8, <1>9 DEF Block, Before, Same, Tracing
  <1>12. allocated \cap Addrs \subseteq Hands(t)
    <2>1. g.hdr \in Addrs => g.hdr \in Block(g)
      BY <1>4 DEF OuterOK, Block
    <2>2. QED
      BY <1>4, <2>1
  <1>13. OuterOK(f)'
    <2>1. Before(f) => Before(g)
      BY <1>1, <1>8, <1>9 DEF Before, Same, Tracing
    <2>2. Before(f) => f.owned = Null
      BY <1>4, <1>9, <2>1 DEF OuterOK, Same
    <2>3. f.hdr \in Addrs => f.owned = f.hdr
      BY <1>4, <1>9 DEF OuterOK, Same
    <2>4. f.pc = "mark_new" => f.fn = "realloc"
      BY <1>8, <1>9 DEF Same
    <2>5. f.fn = "free" => f.ptr \notin marked'
      BY <1>6, <1>8, <1>9 DEF Same
    <2>6. QED
      BY <2>2, <2>3, <2>4, <2>5 DEF OuterOK, Before, Tracing
  <1>14. NestingOK(t)'
    <2>1. inTrace'[t] /\ f.pc \in Tracing
      BY <1>1, <1>2, <1>8, <1>9 DEF Tracing
    <2>2. QED
      BY <1>10, <1>13, <2>1 DEF NestingOK
  <1>15. LeakTypes'
    BY <1>1, <1>6 DEF LeakInv, LeakTypes
  <1> HIDE DEF allocated, released
  <1>16. (\A u \in Threads : NestingOK(u))' /\ Possession'
    <2>1. OthersSame(t)
      BY <1>1, <1>10 DEF OthersSame
    <2>2. marked' \subseteq marked \cup Hands(t)
      BY <1>6, <1>12
    <2>3. Hands(t) \subseteq live /\ held \subseteq live /\ Hands(t) \cap held = {}
      BY DEF LeakInv, Possession
    <2>4. QED
      BY <1>1, <1>10, <1>11, <1>14, <1>15, <2>1, <2>2, <2>3, OthersKeep
  <1>17. ASSUME NEW a \in marked' \ live' PROVE a \in missed' \/ \E u \in Threads : Moved(u, a)'
    <2>1. a \notin allocated
      BY <1>1, <1>12, <1>15 DEF LeakInv, Possession, LeakTypes
    <2>2. a \in marked \ live /\ a \notin released /\ a \in Addrs
      BY <1>1, <1>6, <1>15, <2>1 DEF LeakTypes
    <2>3. a \in missed => a \in missed'
      BY <1>6, <2>1, <2>2
    <2>4. ASSUME NEW u \in Threads \ {t}, Moved(u, a) PROVE Moved(u, a)'
      BY <1>10, <2>4 DEF Moved, Outer
    <2>5. ~Moved(t, a)
      <3>1. SUFFICES ASSUME Moved(t, a) PROVE FALSE
        OBVIOUS
      <3>2. g.fn = "realloc" /\ g.ptr = a /\ g.hdr # Null /\ g.pc \in {"restore", "unlock", "guard", "mark"}
        BY <1>4, <3>1 DEF Moved
      <3>3. Mark(t)
        BY <3>2 DEF MarkNew, In
      <3>4. a # Null
        BY <2>2, ConstantsAssumption
      <3>5. first
        BY <3>2, <3>3, <3>4
      <3>6. released = {a}
        BY <3>2, <3>5 DEF released
      <3>7. QED
        BY <2>2, <3>6
    <2>6. a \in missed \/ \E u \in Threads : Moved(u, a)
      BY <2>2 DEF LeakInv, Accounted
    <2>7. QED
      BY <2>3, <2>4, <2>5, <2>6
  <1>18. QED
    BY <1>15, <1>16, <1>17 DEF LeakInv, Accounted

\* libc gives and takes blocks of the program, or the tracer's.
LibcResult(fn, ptr, zero, hdr) ==
  LET released == Released(fn, ptr, zero, hdr) IN
  /\ hdr = Null \/ hdr = ptr \/ hdr \in Addrs \ live
  /\ live' = (live \ released) \cup ({hdr} \cap Addrs) /\ released \subseteq {ptr} \cap Addrs
  /\ fn = "realloc" /\ hdr = Null /\ ~zero => released = {}
  /\ ptr = Own => hdr = Own
  /\ hdr \in Ptrs

LEMMA LibcBlocks ==
  ASSUME NEW fn, NEW ptr \in Ptrs, NEW zero \in BOOLEAN, NEW hdr, LibcDoes(fn, ptr, zero, hdr)
  PROVE  LibcResult(fn, ptr, zero, hdr)
  <1>1. hdr \in Results(fn, ptr, zero)
    BY DEF LibcDoes
  <1>2. live' = (live \ Released(fn, ptr, zero, hdr)) \cup ({hdr} \cap Addrs)
    BY DEF LibcDoes
  <1>3. hdr = Null \/ hdr = ptr \/ hdr \in Addrs \ live
    BY <1>1 DEF Results
  <1>4. Released(fn, ptr, zero, hdr) \subseteq {ptr} \cap Addrs
    BY DEF Released
  <1>5. fn = "realloc" /\ hdr = Null /\ ~zero => Released(fn, ptr, zero, hdr) = {}
    BY DEF Released
  <1>6. ptr = Own => hdr = Own
    BY <1>1 DEF Results
  <1>7. hdr \in Ptrs
    BY <1>3 DEF Ptrs
  <1>8. QED
    BY <1>2, <1>3, <1>4, <1>5, <1>6, <1>7 DEF LibcResult

\* What the program has after the call of libc.
LEMMA OwnedBlock ==
  ASSUME NEW fn, NEW ptr \in Ptrs, NEW zero \in BOOLEAN, NEW hdr, LibcDoes(fn, ptr, zero, hdr),
         live \subseteq Addrs, ptr \in Addrs => ptr \in live
  PROVE  /\ {Owned(fn, ptr, zero, hdr)} \cap Addrs \subseteq live' \cap ({ptr} \cup (Addrs \ live))
         /\ Owned(fn, ptr, zero, hdr) \in Ptrs /\ (hdr \in Addrs => Owned(fn, ptr, zero, hdr) = hdr)
  <1>. LibcResult(fn, ptr, zero, hdr)
    BY LibcBlocks
  <1>. PICK R : R = Released(fn, ptr, zero, hdr)
    OBVIOUS
  <1>1. /\ hdr = Null \/ hdr = ptr \/ hdr \in Addrs \ live
        /\ live' = (live \ R) \cup ({hdr} \cap Addrs) /\ hdr \in Ptrs
        /\ fn = "realloc" /\ hdr = Null /\ ~zero => R = {}
    BY DEF LibcResult
  <1>2. CASE Owned(fn, ptr, zero, hdr) = hdr
    BY <1>1, <1>2, ConstantsAssumption
  <1>3. CASE Owned(fn, ptr, zero, hdr) # hdr
    <2>1. fn = "realloc" /\ hdr = Null /\ ~zero /\ Owned(fn, ptr, zero, hdr) = ptr
      BY <1>3 DEF Owned
    <2>2. live' = live
      BY <1>1, <2>1, ConstantsAssumption
    <2>3. QED
      BY <2>1, <2>2, ConstantsAssumption
  <1>4. QED
    BY <1>2, <1>3

\* A hook calls libc.
LEMMA CallLeak ==
  ASSUME TraceInv, LeakInv, ~ended, NEW t \in Threads, Call(t)
  PROVE  LeakInv'
  <1> DEFINE g == Top(t)
  <1>1. /\ frames[t] # << >> /\ g.pc = "call" /\ UNCHANGED <<held, inTrace, marked, ended>>
    BY DEF Call, In, traceVars
  <1>2. /\ g \in FrameType /\ NestingOK(t) /\ HookTypes /\ Len(frames[t]) \in {1, 2} /\ CallOK(g)
    BY <1>1, InnerStays
  <1>3. g.fn \in Hooks
    BY <1>1, <1>2 DEF CallOK
  <1>4. old[g.fn] = "libc" /\ hook[g.fn] = "libc"
    <2>1. old[g.fn] = "libc"
      BY <1>3 DEF TraceInv, HooksOK
    <2>2. HasLock(t)
      BY DEF TraceInv, LockOK
    <2>3. HolderOK(g)
      BY <1>1, <2>2 DEF HasLock, Locked
    <2>4. PICK j \in 1 .. Len(Swapped(g.fn)) : Swapped(g.fn)[j] = g.fn
      BY <1>3, SwappedHooks
    <2>5. hook[g.fn] = "libc"
      BY <1>1, <2>3, <2>4 DEF HolderOK
    <2>6. QED
      BY <2>1, <2>5
  <1>5. PICK hdr \in Results(g.fn, g.ptr, g.zero) :
          /\ LibcDoes(g.fn, g.ptr, g.zero, hdr)
          /\ missed' = missed \cup (IF g.zero THEN {g.ptr} \cap marked ELSE {})
          /\ SetTop(t, [g EXCEPT !.pc = "restore", !.hdr = hdr, !.owned = Owned(g.fn, g.ptr, g.zero, hdr)])
    BY <1>4 DEF Call
  <1>. PICK R, o : R = Released(g.fn, g.ptr, g.zero, hdr) /\ o = Owned(g.fn, g.ptr, g.zero, hdr)
    OBVIOUS
  <1>6. /\ g.ptr \in Ptrs /\ g.zero \in BOOLEAN
    BY <1>2 DEF FrameType
  <1>7. /\ hdr = Null \/ hdr = g.ptr \/ hdr \in Addrs \ live
        /\ live' = (live \ R) \cup ({hdr} \cap Addrs) /\ R \subseteq {g.ptr} \cap Addrs
        /\ g.ptr = Own => hdr = Own
        /\ hdr \in Ptrs
    <2>1. LibcResult(g.fn, g.ptr, g.zero, hdr)
      BY <1>5, <1>6, LibcBlocks
    <2>2. QED
      BY <2>1 DEF LibcResult
  <1>8. PICK f : f = [g EXCEPT !.pc = "restore", !.hdr = hdr, !.owned = o]
    OBVIOUS
  <1>9. LeakTypes /\ LeakTypes'
    BY <1>1, <1>7 DEF LeakInv, LeakTypes
  <1>10. CASE Len(frames[t]) = 1
    <2>1. g = Outer(t) /\ OuterOK(g) /\ Hands(t) = Block(g)
      BY <1>2, <1>10, Depth
    <2>2. g.ptr \in Addrs => g.ptr \in Hands(t)
      BY <1>1, <2>1 DEF Block, Before
    <2>3. g.ptr \in Addrs => g.ptr \in live
      BY <2>2 DEF LeakInv, Possession
    <2>4. {o} \cap Addrs \subseteq live' \cap ({g.ptr} \cup (Addrs \ live)) /\ o \in Ptrs /\ (hdr \in Addrs => o = hdr)
      BY <1>5, <1>6, <1>9, <2>3, OwnedBlock DEF LeakTypes
    <2>5. /\ f \in FrameType /\ f.fn = g.fn /\ f.ptr = g.ptr /\ f.pc = "restore" /\ f.hdr = hdr /\ f.owned = o
      BY <1>2, <1>7, <1>8, <2>4 DEF FrameType, Positions
    <2>6. SetTop(t, f)
      BY <1>5, <1>8
    <2>7. /\ Len(frames'[t]) = 1 /\ frames'[t] # << >> /\ Outer(t)' = f /\ Hands(t)' = Block(f)
          /\ \A u \in Threads \ {t} : frames'[u] = frames[u]
      BY <1>1, <1>2, <1>10, <2>5, <2>6, SetNesting
    <2>8. Block(f) = {o} \cap Addrs
      BY <2>5 DEF Block, Before, Tracing
    <2>9. NestingOK(t)'
      <3>1. OuterOK(f)'
        BY <2>4, <2>5 DEF OuterOK, Before, Tracing
      <3>2. ~inTrace'[t]
        BY <1>1, <1>10, InnerStays DEF Tracing
      <3>3. QED
        BY <2>5, <2>7, <3>1, <3>2 DEF NestingOK, Tracing
    <2>10. (\A u \in Threads : NestingOK(u))' /\ Possession'
      <3>1. OthersSame(t)
        BY <1>1, <2>7 DEF OthersSame
      <3>2. held \subseteq live /\ Hands(t) \cap held = {}
        BY DEF LeakInv, Possession
      <3>3. Hands(t)' \cup held' \subseteq Hands(t) \cup held \cup (Addrs \ live)
        BY <1>1, <2>2, <2>4, <2>7, <2>8
      <3>4. held' \subseteq live'
        BY <1>1, <1>7, <2>2, <3>2
      <3>5. Hands(t)' \cup held' \subseteq live'
        BY <2>4, <2>7, <2>8, <3>4
      <3>6. Hands(t)' \cap held' = {}
        BY <1>1, <2>2, <2>4, <2>7, <2>8, <3>2
      <3>7. live \ live' \subseteq Hands(t) \cup held
        BY <1>7, <2>2
      <3>8. QED
        BY <1>1, <1>9, <2>9, <3>1, <3>3, <3>5, <3>6, <3>7, OthersKeep
    <2>11. ASSUME NEW a \in marked' \ live' PROVE a \in missed' \/ \E u \in Threads : Moved(u, a)'
      <3>1. a \in marked /\ a \in Addrs
        BY <1>1, <1>9 DEF LeakTypes
      <3>2. CASE a \notin live
        <4>1. a \in missed \/ \E u \in Threads : Moved(u, a)
          BY <3>1, <3>2 DEF LeakInv, Accounted
        <4>2. ~Moved(t, a)
          BY <1>1, <2>1 DEF Moved
        <4>3. ASSUME NEW u \in Threads \ {t}, Moved(u, a) PROVE Moved(u, a)'
          BY <2>7, <4>3 DEF Moved, Outer
        <4>4. QED
          BY <1>5, <4>1, <4>2, <4>3
      <3>3. CASE a \in live
        <4>1. a \in R /\ a = g.ptr
          BY <1>7, <3>3
        <4>2. g.fn # "free"
          BY <1>1, <2>1, <3>1, <4>1 DEF OuterOK
        <4>3. g.fn = "realloc" /\ (g.zero \/ hdr \notin {Null, a})
          BY <4>1, <4>2 DEF Released
        <4>4. CASE g.zero
          BY <1>5, <3>1, <4>1, <4>4
        <4>5. CASE hdr \notin {Null, a}
          <5>1. Moved(t, a)'
            BY <2>5, <2>7, <4>1, <4>3, <4>5 DEF Moved
          <5>2. QED
            BY <5>1
        <4>6. QED
          BY <4>3, <4>4, <4>5
      <3>4. QED
        BY <3>2, <3>3
    <2>12. QED
      BY <1>9, <2>10, <2>11 DEF LeakInv, Accounted
  <1>11. CASE Len(frames[t]) = 2
    <2>1. InnerOK(g)
      BY <1>2, <1>11, Depth
    <2>2. g.ptr = Own /\ hdr = Own /\ R = {} /\ o = Own
      BY <1>7, <2>1, ConstantsAssumption DEF InnerOK, Owned
    <2>3. live' = live /\ missed' = missed
      BY <1>5, <1>7, <1>9, <2>2, ConstantsAssumption DEF LeakTypes
    <2>4. f \in FrameType /\ InnerOK(f)
      <3>1. f \in FrameType /\ f.fn = g.fn /\ f.ptr = g.ptr /\ f.pc = "restore" /\ f.owned = o
        BY <1>2, <1>7, <1>8, <2>2 DEF FrameType, Positions
      <3>2. QED
        BY <2>1, <2>2, <3>1 DEF InnerOK, Tracing
    <2>5. SetTop(t, f) /\ Quiet
      BY <1>1, <1>5, <1>8, <2>3 DEF Quiet
    <2>6. inTrace' \in [Threads -> BOOLEAN] /\ \A u \in Threads : inTrace'[u] = inTrace[u]
      BY <1>1, <1>9 DEF LeakTypes
    <2>7. Len(frames[t]) # 1
      BY <1>11
    <2>8. QED
      BY <1>1, <2>4, <2>5, <2>6, <2>7, QuietSet
  <1>12. QED
    BY <1>2, <1>10, <1>11

\* The tracer's own calls come on top of a line being written.
LEMMA NestedLeak ==
  ASSUME TraceInv, LeakInv, ~ended, NEW t \in Threads, Nested(t)
  PROVE  LeakInv'
  <1>1. frames[t] # << >> /\ Top(t).pc \in Nesting /\ Quiet /\ held' = held /\ inTrace' = inTrace
    BY DEF Nested, In, Quiet, heapVars, traceVars
  <1>2. PICK fn \in {"malloc", "free"} : hook[fn] = "trace" /\ Push(t, Hook(fn, Own, FALSE))
    BY DEF Nested
  <1>3. /\ HookTypes /\ NestingOK(t) /\ CallOK(Top(t)) /\ Len(frames[t]) \in {1, 2}
        /\ (Top(t).pc \in Tracing => Len(frames[t]) = 1)
    BY <1>1, InnerStays
  <1>4. Top(t).pc # "open"
    <2>1. SUFFICES ASSUME Top(t).pc = "open" PROVE FALSE
      OBVIOUS
    <2>2. HasLock(t)
      BY DEF TraceInv, LockOK
    <2>3. HolderOK(Top(t))
      BY <1>1, <2>1, <2>2 DEF HasLock, Locked
    <2>4. hook[fn] = "libc"
      BY <2>1, <2>3 DEF HolderOK, TraceInv, HooksOK, Hooks
    <2>5. QED
      BY <1>2, <2>4
  <1>5. Len(frames[t]) = 1
    BY <1>1, <1>3, <1>4 DEF Nesting, Tracing, CallOK, HookPositions
  <1>6. PICK f : f = Hook(fn, Own, FALSE)
    OBVIOUS
  <1>7. f \in FrameType /\ InnerOK(f)
    <2>1. f \in FrameType
      <3>1. fn \in ToSet(AllHooks) /\ 1 \in DOMAIN AllHooks
        BY HookNames DEF Hooks
      <3>2. QED
        BY <1>6, <3>1 DEF Hook, Frame, FrameType, Positions, Ptrs
    <2>2. InnerOK(f)
      BY <1>6 DEF InnerOK, Hook, Frame, Tracing
    <2>3. QED
      BY <2>1, <2>2
  <1>8. /\ Len(frames'[t]) = 2 /\ frames'[t] # << >> /\ frames'[t][2] = f /\ frames'[t][1] = frames[t][1]
        /\ \A u \in Threads \ {t} : frames'[u] = frames[u]
    <2>1. Push(t, f)
      BY <1>2, <1>6
    <2>2. /\ Len(frames'[t]) = Len(frames[t]) + 1 /\ frames'[t] # << >>
          /\ frames'[t][Len(frames[t]) + 1] = f /\ \A n \in 1 .. Len(frames[t]) : frames'[t][n] = frames[t][n]
          /\ \A u \in Threads \ {t} : frames'[u] = frames[u]
      BY <1>3, <1>7, <2>1, PushFrames
    <2>3. QED
      BY <1>5, <2>2
  <1>9. Outer(t)' = Outer(t) /\ Hands(t)' = Hands(t)
    BY <1>1, <1>8 DEF Outer, Hands, Block, Before, Tracing
  <1>10. NestingOK(t)'
    <2>1. OuterOK(Outer(t))'
      BY <1>1, <1>3, <1>9 DEF NestingOK, OuterOK, Quiet, Before, Tracing
    <2>2. QED
      BY <1>1, <1>3, <1>7, <1>8, <1>9, <2>1 DEF NestingOK, InnerOK, Tracing
  <1>11. \A a \in Addrs : Moved(t, a) => Moved(t, a)'
    BY <1>8, <1>9 DEF Moved
  <1>12. OthersSame(t) /\ inTrace' \in [Threads -> BOOLEAN]
    BY <1>1, <1>8 DEF OthersSame, LeakInv, LeakTypes
  <1>13. Hands(t)' \cup held' \subseteq Hands(t) \cup held /\ Hands(t)' \cap held' = {}
    BY <1>1, <1>9 DEF LeakInv, Possession
  <1>14. QED
    BY <1>1, <1>10, <1>11, <1>12, <1>13, QuietStep

\* A thread in the program's code makes a call.
LEMMA Idle ==
  ASSUME TraceInv, LeakInv, ~ended, NEW t \in Threads, frames[t] = << >>
  PROVE  HookTypes /\ Hands(t) = {} /\ ~inTrace[t] /\ \A a \in Addrs : ~Moved(t, a)
  BY DEF TraceInv, LeakInv, Hands, NestingOK, Moved

LEMMA PushOuter ==
  ASSUME TraceInv, LeakInv, ~ended, NEW t \in Threads, frames[t] = << >>, NEW f \in FrameType, Push(t, f),
         Quiet, inTrace' = inTrace, f.pc \in {"guard", "lock"}, f.pc = "lock" => f.fn # "free",
         f.owned = Null, f.hdr = Null, held' = held \ {f.ptr}, f.ptr \in held \cup {Null}
  PROVE  LeakInv'
  <1>1. HookTypes /\ Hands(t) = {} /\ ~inTrace[t] /\ \A a \in Addrs : ~Moved(t, a)
    BY Idle
  <1>2. /\ Len(frames'[t]) = 1 /\ frames'[t] # << >> /\ Outer(t)' = f
        /\ \A u \in Threads \ {t} : frames'[u] = frames[u]
    <2>1. Len(frames[t]) = 0
      OBVIOUS
    <2>2. /\ Len(frames'[t]) = Len(frames[t]) + 1 /\ frames'[t] # << >>
          /\ frames'[t][Len(frames[t]) + 1] = f
          /\ \A u \in Threads \ {t} : frames'[u] = frames[u]
      BY <1>1, PushFrames
    <2>3. QED
      BY <2>1, <2>2 DEF Outer
  <1>3. OuterOK(f)'
    BY ConstantsAssumption DEF OuterOK
  <1>4. NestingOK(t)'
    BY <1>1, <1>2, <1>3 DEF NestingOK, Tracing
  <1>5. Hands(t)' \subseteq {f.ptr} \cap Addrs
    <2>1. Hands(t)' = Block(f)
      BY <1>2 DEF Hands, Block, Before, Tracing
    <2>2. QED
      BY <2>1, ConstantsAssumption DEF Block
  <1>6. OthersSame(t) /\ inTrace' \in [Threads -> BOOLEAN]
    BY <1>2 DEF OthersSame, LeakInv, LeakTypes
  <1>7. Hands(t)' \cup held' \subseteq Hands(t) \cup held /\ Hands(t)' \cap held' = {}
    BY <1>5, ConstantsAssumption
  <1>8. QED
    BY <1>1, <1>4, <1>6, <1>7, QuietStep

LEMMA EnterLeak ==
  ASSUME TraceInv, LeakInv, ~ended, NEW t \in Threads, NEW fn \in Hooks, NEW ptr \in held \cup {Null},
         NEW zero \in BOOLEAN, frames[t] = << >>, Enter(t, fn, ptr, zero), fn = "free" \/ fn = "realloc" \/ ptr = Null,
         UNCHANGED <<inTrace, marked, ended>>
  PROVE  LeakInv'
  <1>1. HookTypes /\ Hands(t) = {} /\ held \subseteq Addrs /\ held \subseteq live /\ ptr \in Ptrs
    BY Idle DEF HookTypes, LeakInv, Possession, Ptrs
  <1>2. CASE hook[fn] = "trace"
    <2>1. Push(t, Hook(fn, ptr, zero)) /\ held' = held \ {ptr} /\ Quiet
      BY <1>2 DEF Enter, Quiet
    <2>2. PICK f : f = Hook(fn, ptr, zero)
      OBVIOUS
    <2>3. f \in FrameType
      <3>1. fn \in ToSet(AllHooks) /\ 1 \in DOMAIN AllHooks
        BY HookNames
      <3>2. QED
        BY <1>1, <2>2, <3>1 DEF Hook, Frame, FrameType, Positions, Ptrs
    <2>4. /\ f.pc \in {"guard", "lock"} /\ (f.pc = "lock" => f.fn # "free")
          /\ f.owned = Null /\ f.hdr = Null /\ f.ptr = ptr
      BY <2>2 DEF Hook, Frame
    <2>5. QED
      BY <2>1, <2>2, <2>3, <2>4, PushOuter
  <1>3. CASE hook[fn] = "libc"
    <2>1. PICK hdr \in Results(fn, ptr, zero) :
            /\ LibcDoes(fn, ptr, zero, hdr)
            /\ missed' = missed \cup (Released(fn, ptr, zero, hdr) \cap marked)
            /\ held' = (held \ {ptr}) \cup ({Owned(fn, ptr, zero, hdr)} \cap Addrs)
      BY <1>3 DEF Enter
    <2>2. UNCHANGED frames
      BY <1>3 DEF Enter
    <2>. PICK R, o : R = Released(fn, ptr, zero, hdr) /\ o = Owned(fn, ptr, zero, hdr)
      OBVIOUS
    <2>3. LeakTypes /\ LibcResult(fn, ptr, zero, hdr)
      BY <1>1, <2>1, LibcBlocks DEF LeakInv
    <2>4. /\ live' = (live \ R) \cup ({hdr} \cap Addrs) /\ R \subseteq {ptr} \cap Addrs
      BY <2>3 DEF LibcResult
    <2>5. {o} \cap Addrs \subseteq live' \cap ({ptr} \cup (Addrs \ live))
      <3>1. ptr \in Addrs => ptr \in live
        BY <1>1, ConstantsAssumption
      <3>2. QED
        BY <1>1, <2>1, <2>3, <3>1, OwnedBlock DEF LeakTypes
    <2>6. LeakTypes'
      BY <2>3, <2>4 DEF LeakTypes
    <2>7. Hands(t)' = {} /\ NestingOK(t)' /\ OthersSame(t)
      <3>1. frames'[t] = << >> /\ frames' = frames /\ inTrace' = inTrace
        BY <2>2
      <3>2. NestingOK(t)
        BY DEF LeakInv
      <3>3. QED
        BY <3>1, <3>2 DEF Hands, NestingOK, OthersSame
    <2>8. (\A u \in Threads : NestingOK(u))' /\ Possession'
      <3>1. held' \subseteq held \cup (Addrs \ live)
        BY <1>1, <2>1, <2>5, ConstantsAssumption
      <3>2. held' \subseteq live'
        BY <1>1, <2>1, <2>4, <2>5
      <3>3. live \ live' \subseteq held
        BY <2>4, ConstantsAssumption
      <3>4. QED
        BY <1>1, <2>6, <2>7, <3>1, <3>2, <3>3, OthersKeep
    <2>9. ASSUME NEW a \in marked' \ live' PROVE a \in missed' \/ \E u \in Threads : Moved(u, a)'
      <3>1. a \in marked
        OBVIOUS
      <3>2. CASE a \in live
        BY <2>1, <2>4, <3>1, <3>2
      <3>3. CASE a \notin live
        <4>1. a \in missed \/ \E u \in Threads : Moved(u, a)
          BY <3>1, <3>3 DEF LeakInv, Accounted
        <4>2. ASSUME NEW u \in Threads, Moved(u, a) PROVE Moved(u, a)'
          BY <2>2, <4>2 DEF Moved, Outer
        <4>3. QED
          BY <2>1, <4>1, <4>2
      <3>4. QED
        BY <3>2, <3>3
    <2>10. QED
      BY <2>6, <2>8, <2>9 DEF LeakInv, Accounted
  <1>4. QED
    BY <1>2, <1>3 DEF Enter

LEMMA ProgramLeak ==
  ASSUME TraceInv, LeakInv, ~ended, NEW t \in Threads,
         Malloc(t) \/ Memalign(t) \/ Free(t) \/ Realloc(t) \/ Mtrace(t)
  PROVE  LeakInv'
  <1>1. frames[t] = << >> /\ UNCHANGED <<inTrace, marked, ended>>
    BY DEF Malloc, Memalign, Free, Realloc, Mtrace, Calling, traceVars
  <1>2. CASE Malloc(t) \/ Memalign(t) \/ Free(t) \/ Realloc(t)
    <2>1. \E fn \in Hooks, ptr \in held \cup {Null}, zero \in BOOLEAN :
            Enter(t, fn, ptr, zero) /\ (fn = "free" \/ fn = "realloc" \/ ptr = Null)
      BY <1>2 DEF Malloc, Memalign, Free, Realloc, Hooks
    <2>2. QED
      BY <1>1, <2>1, EnterLeak
  <1>3. CASE Mtrace(t)
    <2>1. PICK f : f = Frame("mtrace", "lock", Null, FALSE)
      OBVIOUS
    <2>2. Push(t, f) /\ Quiet /\ held' = held /\ inTrace' = inTrace
      BY <1>3, <2>1 DEF Mtrace, Quiet, traceVars, heapVars
    <2>3. f \in FrameType
      <3>1. 1 \in DOMAIN AllHooks
        BY HookNames
      <3>2. QED
        BY <2>1, <3>1 DEF Frame, FrameType, Positions, Ptrs
    <2>4. f.fn = "mtrace" /\ f.pc = "lock" /\ f.owned = Null /\ f.hdr = Null /\ f.ptr = Null
      BY <2>1 DEF Frame
    <2>5. held' = held \ {f.ptr}
      <3>1. held \subseteq Addrs
        BY DEF TraceInv, HookTypes
      <3>2. QED
        BY <2>2, <2>4, <3>1, ConstantsAssumption
    <2>6. QED
      BY <1>1, <2>2, <2>3, <2>4, <2>5, PushOuter
  <1>4. QED
    BY <1>2, <1>3

\* The types by themselves, before and after muntrace().
LEMMA TypesLeak ==
  ASSUME TraceInv, LeakTypes, [Next]_vars
  PROVE  LeakTypes'
  <1> DEFINE Kept == \/ UNCHANGED <<live, marked, inTrace>>
                     \/ live' \subseteq live \cup Addrs /\ UNCHANGED <<marked, inTrace>>
                     \/ marked' \subseteq marked \cup Addrs /\ UNCHANGED <<live, inTrace>>
                     \/ \E t \in Threads, b \in BOOLEAN : inTrace' = [inTrace EXCEPT ![t] = b] /\ UNCHANGED live
                                                        /\ marked' \subseteq marked \cup Addrs
  <1>1. Kept => LeakTypes'
    <2>1. CASE UNCHANGED <<live, marked, inTrace>>
      BY <2>1 DEF LeakTypes
    <2>2. CASE live' \subseteq live \cup Addrs /\ UNCHANGED <<marked, inTrace>>
      BY <2>2 DEF LeakTypes
    <2>3. CASE marked' \subseteq marked \cup Addrs /\ UNCHANGED <<live, inTrace>>
      BY <2>3 DEF LeakTypes
    <2>4. ASSUME NEW t \in Threads, NEW b \in BOOLEAN, inTrace' = [inTrace EXCEPT ![t] = b], UNCHANGED live,
                 marked' \subseteq marked \cup Addrs
          PROVE  LeakTypes'
      BY <2>4 DEF LeakTypes
    <2>5. QED
      BY <2>1, <2>2, <2>3, <2>4
  <1>2. ASSUME NEW fn, NEW ptr, NEW zero, NEW hdr, LibcDoes(fn, ptr, zero, hdr) PROVE live' \subseteq live \cup Addrs
    BY <1>2 DEF LibcDoes
  <1>3. ASSUME NEW S, NEW T, Write(S, T) PROVE marked' \subseteq marked \cup Addrs
    BY <1>3 DEF Write
  <1>4. CASE Finished \/ UNCHANGED vars
    BY <1>1, <1>4 DEF Finished, vars, heapVars, traceVars
  <1>5. ASSUME NEW t \in Threads, Malloc(t) \/ Memalign(t) \/ Free(t) \/ Realloc(t) PROVE Kept
    <2>1. UNCHANGED <<marked, inTrace>>
      BY <1>5 DEF Malloc, Memalign, Free, Realloc, traceVars
    <2>2. PICK fn \in Hooks, ptr \in held \cup {Null}, zero \in BOOLEAN : Enter(t, fn, ptr, zero)
      BY <1>5 DEF Malloc, Memalign, Free, Realloc, Hooks
    <2>3. live' \subseteq live \cup Addrs
      BY <1>2, <2>2 DEF Enter
    <2>4. QED
      BY <2>1, <2>3
  <1>6. ASSUME NEW t \in Threads, Call(t) PROVE Kept
    <2>1. live' \subseteq live \cup Addrs /\ UNCHANGED <<marked, inTrace>>
      BY <1>2, <1>6 DEF Call, traceVars
    <2>2. QED
      BY <2>1
  <1>7. ASSUME NEW t \in Threads, Mark(t) \/ MarkNew(t) PROVE Kept
    <2>1. marked' \subseteq marked \cup Addrs /\ UNCHANGED <<live, inTrace>>
      BY <1>3, <1>7 DEF Mark, MarkNew
    <2>2. QED
      BY <2>1
  <1>8. ASSUME NEW t \in Threads, Guard(t) PROVE Kept
    <2>1. inTrace' = [inTrace EXCEPT ![t] = TRUE] /\ UNCHANGED <<live, marked>>
      BY <1>8 DEF Guard, traceVars
    <2>2. QED
      BY <2>1, Zenon
  <1>9. ASSUME NEW t \in Threads, Dump(t) PROVE Kept
    <2>1. inTrace' = [inTrace EXCEPT ![t] = FALSE] /\ UNCHANGED live
      BY <1>9 DEF Dump
    <2>2. marked' \subseteq marked \cup Addrs
      BY <1>3, <1>9 DEF Dump
    <2>3. QED
      BY <2>1, <2>2, Zenon
  <1>10. ASSUME NEW t \in Threads,
                \/ Mtrace(t) \/ Muntrace(t) \/ Lock(t) \/ Swap(t) \/ Restore(t) \/ Unlock(t) \/ Nested(t)
                \/ MtraceCheck(t) \/ MtraceOpen(t) \/ Install(t) \/ Destroy(t) \/ Delete(t) \/ Unhook(t)
         PROVE  Kept
    <2>1. UNCHANGED <<live, marked, inTrace>>
      BY <1>10 DEF Mtrace, Muntrace, Lock, Swap, Restore, Unlock, Nested, MtraceCheck, MtraceOpen, Install,
         Destroy, Delete, Unhook, traceVars, heapVars
    <2>2. QED
      BY <2>1
  <1> HIDE DEF Kept
  <1>11. QED
    BY <1>1, <1>4, <1>5, <1>6, <1>7, <1>8, <1>9, <1>10 DEF Next

LEMMA LeakStep ==
  ASSUME TraceInv, LeakInv, [Next]_vars
  PROVE  LeakInv'
  <1>1. LeakTypes'
    BY TypesLeak DEF LeakInv
  <1>2. CASE ended'
    BY <1>1, <1>2, OverStep
  <1>3. CASE ~ended'
    <2>1. CASE Finished \/ UNCHANGED vars
      <3>1. UNCHANGED <<frames, inTrace, live, held, marked, missed, ended>>
        BY <2>1 DEF Finished, vars, heapVars, traceVars
      <3>2. QED
        BY <1>1, <3>1 DEF LeakInv, NestingOK, OuterOK, InnerOK, Before, Block, Hands, Outer, Tracing,
           Possession, Moved, Accounted
    <2>2. ASSUME NEW t \in Threads,
                 \/ Malloc(t) \/ Memalign(t) \/ Free(t) \/ Realloc(t) \/ Mtrace(t) \/ Muntrace(t)
                 \/ Lock(t) \/ Swap(t) \/ Call(t) \/ Restore(t) \/ Unlock(t)
                 \/ Guard(t) \/ Mark(t) \/ MarkNew(t) \/ Dump(t) \/ Nested(t)
                 \/ MtraceCheck(t) \/ MtraceOpen(t) \/ Install(t)
                 \/ Destroy(t) \/ Delete(t) \/ Unhook(t)
          PROVE  LeakInv'
      <3>1. ~Muntrace(t)
        BY <1>3, Zenon DEF Muntrace
      <3>2. ~ended
        BY <1>3, <2>2, <3>1 DEF Malloc, Memalign, Free, Realloc, Mtrace, Lock, Swap, Call, Restore, Unlock, Guard,
           Mark, MarkNew, Dump, Nested, MtraceCheck, MtraceOpen, Install, Destroy, Delete, Unhook, traceVars
      <3>3. ~Destroy(t) /\ ~Delete(t) /\ ~Unhook(t)
        <4>1. ASSUME frames[t] # << >>, Top(t).pc \in {"closing", "deleting", "unhook"} PROVE FALSE
          BY <3>2, <4>1, InnerStays DEF CallOK, HookPositions
        <4>2. QED
          BY <4>1 DEF Destroy, Delete, Unhook, In
      <3>4. QED
        BY <2>2, <3>1, <3>2, <3>3, ProgramLeak, HooksLeak, CallLeak, UnlockLeak, GuardLeak, MarkLeak, DumpLeak, NestedLeak
    <2>3. QED
      BY <2>1, <2>2 DEF Next
  <1>4. QED
    BY <1>2, <1>3

LEMMA LeakInit == Init => LeakInv
  <1> SUFFICES ASSUME Init PROVE LeakInv
    OBVIOUS
  <1>1. LeakTypes
    BY DEF Init, LeakTypes
  <1>2. \A t \in Threads : frames[t] = << >> /\ Len(frames[t]) = 0 /\ ~inTrace[t]
    BY DEF Init
  <1>3. \A t \in Threads : NestingOK(t) /\ Hands(t) = {}
    BY <1>2 DEF NestingOK, Hands
  <1>4. Possession /\ Accounted
    BY <1>3 DEF Init, Possession, Accounted
  <1>5. QED
    BY <1>1, <1>3, <1>4 DEF LeakInv

\* Until muntrace(), a block whose last line is an allocation is allocated, or
\* was released by a call that prints nothing, or realloc() has yet to print its
\* "<", whatever the threads call and libc answers.
THEOREM FreedIsPrinted == ~Restarts => (Spec => []NoFalseLeak)
  <1> SUFFICES ASSUME ~Restarts PROVE Spec => []NoFalseLeak
    OBVIOUS
  <1>1. Init => TraceInv /\ LeakInv
    BY InitInv, LeakInit
  <1>2. TraceInv /\ LeakInv /\ [Next]_vars => TraceInv' /\ LeakInv'
    BY NextInv, LeakStep
  <1>3. TraceInv /\ LeakInv => NoFalseLeak
    <2> SUFFICES ASSUME TraceInv, LeakInv, ~ended, NEW a \in marked \ live, a \notin missed PROVE Late(a)
      BY DEF NoFalseLeak
    <2>1. PICK t \in Threads : Moved(t, a)
      BY DEF LeakInv, Accounted
    <2>2. frames[t] \in Seq(FrameType) /\ frames[t] # << >>
      BY <2>1 DEF Moved, TraceInv, HookTypes
    <2>3. 1 \in DOMAIN frames[t]
      BY <2>2
    <2>4. QED
      BY <2>1, <2>3 DEF Moved, Late, Outer
  <1>4. QED
    BY <1>1, <1>2, <1>3, PTL DEF Spec
=============================================================================
