--------------------------- MODULE MallocHooksProofs ---------------------------
(***************************************************************************)
(* Proofs about the malloc hooks for any set of threads and blocks and any *)
(* number of calls: MallocHooks as MCTracing's instance Track.             *)
(***************************************************************************)
EXTENDS MCTracing, TLAPS

HookPtrs == Addrs \cup MapBlocks \cup {Null}
Fns == Track!Hooks \cup {"mmap", "munmap", "mtrace", "muntrace", "none"}
Before == {"forget", "lock", "swap", "old", "relock", "map"}
Holding == {"swap", "old", "restore", "relock", "install", "capture"}

\* Where a call of each function may be.
Places(fn) ==
  CASE fn \in Track!Hooks        -> {"forget", "lock", "swap", "old", "restore", "relock", "note"}
    [] fn \in {"mmap", "munmap"} -> {"map", "note"}
    [] fn = "mtrace"             -> {"lock", "install", "capture", "report"}
    [] fn = "muntrace"           -> {"unhook", "off", "report"}
    [] OTHER                     -> {"app"}

FrameOK(c) ==
  /\ c \in [pc : Places(c.fn), fn : Fns, ptr : HookPtrs, hdr : HookPtrs, i : 1..Len(Track!Swapped(c.fn))]
  /\ c.pc \in Before => c.hdr = Null
  /\ c.fn \in {"none", "mtrace", "muntrace"} => c.ptr = Null /\ c.hdr = Null

\* The types of the hooks, of the blocks and of the calls under way.
HookTypeOK ==
  /\ mlHook \in [Track!Hooks -> {"libc", "tr"}] /\ mlOld \in [Track!Hooks -> {"libc", "tr"}]
  /\ capture \in BOOLEAN /\ raced \in BOOLEAN
  /\ mlLive \subseteq Addrs \cup MapBlocks
  /\ DOMAIN call = Threads /\ \A t \in Threads : FrameOK(call[t])

\* Who is between the lock and its release has it.
Locked == \A t \in Threads : call[t].pc \in Holding => mlLock = t

\* The hooks a call has put out, or mtrace() has yet to put in, are the C
\* library's.
Out(fn, js) == \A j \in js : mlHook[Track!Swapped(fn)[j]] = "libc"
PutOut(c) ==
  /\ c.pc \in {"swap", "unhook"} => Out(c.fn, 1..(c.i - 1))
  /\ c.pc \in {"old", "off"} => Out(c.fn, 1..Len(Track!Swapped(c.fn)))
  /\ c.pc = "install" => Out(c.fn, c.i..Len(Track!Swapped(c.fn)))
  /\ c.pc # "relock"

\* muntrace() has no call of another thread beside it, and the first mtrace() no
\* other.
Installing(c) == c.fn = "mtrace" /\ c.pc # "report"
Alone(t) ==
  /\ call[t].pc \in {"unhook", "off"} => \A u \in Threads \ {t} : call[u].fn \in {"none", "muntrace"}
  /\ Installing(call[t]) => ~capture /\ \A u \in Threads \ {t} : ~Installing(call[u])

\* What is off stays out.
On == capture \/ \E t \in Threads : call[t].pc \in {"install", "capture"}
StaysOff == ~On => /\ \A h \in Track!Hooks : mlHook[h] = "libc"
                   /\ \A t \in Threads : call[t].fn \notin Track!Hooks

Quiet ==
  /\ \A h \in Track!Hooks : mlOld[h] = "libc"
  /\ StaysOff
  /\ \A t \in Threads : PutOut(call[t]) /\ Alone(t)

\* Without a race all of that is so.
InOrder == Locked /\ (~raced => Quiet)

\* A block in the hands of a call is live, the program does not hold it, and no
\* other call has it.
Apart ==
  /\ mlHeld \subseteq mlLive
  /\ \A t \in Threads :
       /\ Track!InHand(t) \ {Null} \subseteq mlLive \ mlHeld
       /\ \A u \in Threads \ {t} : Track!InHand(t) \cap Track!InHand(u) \subseteq {Null}

IInv == HookTypeOK /\ InOrder /\ Apart /\ Track!HeldIsNoted

\* The hooks a function puts aside, each of them once.
LEMMA HooksOf ==
  /\ \A fn \in Fns : Len(Track!Swapped(fn)) \in Nat \ {0}
  /\ \A fn \in Track!Hooks \cup {"mtrace", "muntrace"} : \A j \in 1..Len(Track!Swapped(fn)) : Track!Swapped(fn)[j] \in Track!Hooks
  /\ \A j, k \in 1..Len(Track!Swapped("mtrace")) : Track!Swapped("mtrace")[j] = Track!Swapped("mtrace")[k] => j = k
  /\ \A fn \in {"mtrace", "muntrace"}, h \in Track!Hooks : \E j \in 1..Len(Track!Swapped(fn)) : Track!Swapped(fn)[j] = h
  /\ \A fn \in Track!Hooks : \A h \in Track!Within(fn) \cup {fn} : \E j \in 1..Len(Track!Swapped(fn)) : Track!Swapped(fn)[j] = h
  <1>1. \A fn \in Fns : \/ fn = "realloc" /\ Track!Swapped(fn) = <<"free", "malloc", "realloc">>
                        \/ fn = "memalign" /\ Track!Swapped(fn) = <<"memalign", "malloc">>
                        \/ fn \in {"mtrace", "muntrace"} /\ Track!Swapped(fn) = <<"free", "malloc", "realloc", "memalign">>
                        \/ fn \in {"free", "malloc", "mmap", "munmap", "none"} /\ Track!Swapped(fn) = <<fn>>
    BY DEF Fns, Track!Hooks, Track!Swapped
  <1>2. /\ Track!Swapped("mtrace") = <<"free", "malloc", "realloc", "memalign">>
        /\ Track!Swapped("muntrace") = <<"free", "malloc", "realloc", "memalign">>
        /\ Track!Swapped("realloc") = <<"free", "malloc", "realloc">>
        /\ Track!Swapped("memalign") = <<"memalign", "malloc">>
        /\ Track!Swapped("free") = <<"free">> /\ Track!Swapped("malloc") = <<"malloc">>
    BY DEF Track!Swapped
  <1>3. /\ Track!Within("realloc") = {"free", "malloc"} /\ Track!Within("memalign") = {"malloc"}
        /\ Track!Within("free") = {} /\ Track!Within("malloc") = {}
    BY DEF Track!Within
  <1>4. \A fn \in Fns : Len(Track!Swapped(fn)) \in Nat \ {0}
    BY <1>1
  <1>5. \A fn \in Track!Hooks \cup {"mtrace", "muntrace"} : \A j \in 1..Len(Track!Swapped(fn)) : Track!Swapped(fn)[j] \in Track!Hooks
    <2> SUFFICES ASSUME NEW fn \in Track!Hooks \cup {"mtrace", "muntrace"}, NEW j \in 1..Len(Track!Swapped(fn))
                 PROVE  Track!Swapped(fn)[j] \in Track!Hooks
      OBVIOUS
    <2>1. CASE fn \in {"mtrace", "muntrace"}
      <3>1. Track!Swapped(fn) = <<"free", "malloc", "realloc", "memalign">>
        BY <1>2, <2>1
      <3>2. j = 1 \/ j = 2 \/ j = 3 \/ j = 4
        BY <3>1
      <3>3. QED
        BY <3>1, <3>2 DEF Track!Hooks
    <2>2. CASE fn = "realloc"
      <3>1. Track!Swapped(fn) = <<"free", "malloc", "realloc">>
        BY <1>2, <2>2
      <3>2. j = 1 \/ j = 2 \/ j = 3
        BY <3>1
      <3>3. QED
        BY <3>1, <3>2 DEF Track!Hooks
    <2>3. CASE fn = "memalign"
      BY <1>2, <2>3 DEF Track!Hooks
    <2>4. CASE fn \in {"free", "malloc"}
      BY <1>2, <2>4 DEF Track!Hooks
    <2>5. QED
      BY <2>1, <2>2, <2>3, <2>4 DEF Track!Hooks
  <1>6. \A j, k \in 1..Len(Track!Swapped("mtrace")) : Track!Swapped("mtrace")[j] = Track!Swapped("mtrace")[k] => j = k
    <2>1. Len(Track!Swapped("mtrace")) = 4 /\ Track!Swapped("mtrace")[1] = "free" /\ Track!Swapped("mtrace")[2] = "malloc"
          /\ Track!Swapped("mtrace")[3] = "realloc" /\ Track!Swapped("mtrace")[4] = "memalign"
      BY <1>2
    <2>2. \A j \in 1..4 : j = 1 \/ j = 2 \/ j = 3 \/ j = 4
      OBVIOUS
    <2>3. QED
      BY <2>1, <2>2
  <1>7. \A fn \in {"mtrace", "muntrace"}, h \in Track!Hooks : \E j \in 1..Len(Track!Swapped(fn)) : Track!Swapped(fn)[j] = h
    <2> SUFFICES ASSUME NEW fn \in {"mtrace", "muntrace"}, NEW h \in Track!Hooks
                 PROVE  \E j \in 1..Len(Track!Swapped(fn)) : Track!Swapped(fn)[j] = h
      OBVIOUS
    <2>1. Len(Track!Swapped(fn)) = 4 /\ Track!Swapped(fn)[1] = "free" /\ Track!Swapped(fn)[2] = "malloc"
          /\ Track!Swapped(fn)[3] = "realloc" /\ Track!Swapped(fn)[4] = "memalign"
      BY <1>2
    <2>2. QED
      BY <2>1 DEF Track!Hooks
  <1>8. \A fn \in Track!Hooks : \A h \in Track!Within(fn) \cup {fn} : \E j \in 1..Len(Track!Swapped(fn)) : Track!Swapped(fn)[j] = h
    <2>1. /\ Len(Track!Swapped("realloc")) = 3 /\ Track!Swapped("realloc")[1] = "free"
          /\ Track!Swapped("realloc")[2] = "malloc" /\ Track!Swapped("realloc")[3] = "realloc"
          /\ Len(Track!Swapped("memalign")) = 2 /\ Track!Swapped("memalign")[1] = "memalign" /\ Track!Swapped("memalign")[2] = "malloc"
          /\ Len(Track!Swapped("free")) = 1 /\ Track!Swapped("free")[1] = "free"
          /\ Len(Track!Swapped("malloc")) = 1 /\ Track!Swapped("malloc")[1] = "malloc"
      BY <1>2
    <2> SUFFICES ASSUME NEW fn \in Track!Hooks, NEW h \in Track!Within(fn) \cup {fn}
                 PROVE  \E j \in 1..Len(Track!Swapped(fn)) : Track!Swapped(fn)[j] = h
      OBVIOUS
    <2>2. CASE fn = "realloc"
      BY <1>3, <2>1, <2>2
    <2>3. CASE fn = "memalign"
      BY <1>3, <2>1, <2>3
    <2>4. CASE fn \in {"free", "malloc"}
      BY <1>3, <2>1, <2>4
    <2>5. QED
      BY <2>2, <2>3, <2>4 DEF Track!Hooks
  <1>9. QED
    BY <1>4, <1>5, <1>6, <1>7, <1>8

LEMMA IdleFrame == FrameOK(Track!Idle) /\ Track!Idle.pc = "app" /\ Track!Idle.fn = "none" /\ Track!Idle.ptr = Null /\ Track!Idle.hdr = Null
  <1>1. Track!Idle = [pc |-> "app", fn |-> "none", ptr |-> Null, hdr |-> Null, i |-> 1]
    BY DEF Track!Idle, Track!Frame
  <1>2. 1 \in 1..Len(Track!Swapped("none")) /\ Places("none") = {"app"}
    BY HooksOf DEF Fns, Places, Track!Hooks
  <1>3. QED
    BY <1>1, <1>2 DEF FrameOK, Fns, HookPtrs, Before

LEMMA InitInv == Track!Init => IInv
  <1> SUFFICES ASSUME Track!Init PROVE IInv
    OBVIOUS
  <1>1. \A t \in Threads : call[t] = Track!Idle
    BY DEF Track!Init
  <1>2. FrameOK(Track!Idle) /\ Track!Idle.pc = "app" /\ Track!Idle.fn = "none"
    BY IdleFrame
  <1>3. HookTypeOK
    BY <1>1, <1>2 DEF Track!Init, HookTypeOK
  <1>4. \A t \in Threads : call[t].pc = "app" /\ call[t].fn = "none"
    BY <1>1, <1>2
  <1>5. InOrder
    BY <1>4 DEF Track!Init, InOrder, Locked, Holding, Quiet, StaysOff, On, PutOut, Alone, Installing, Track!Hooks
  <1>6. Apart /\ Track!HeldIsNoted
    BY <1>4 DEF Track!Init, Apart, Track!InHand, Track!HeldIsNoted
  <1>7. QED
    BY <1>3, <1>5, <1>6 DEF IInv

\* A step of one thread, which leads to another place of its call or to the next
\* hook.
LEMMA Frames ==
  ASSUME HookTypeOK, NEW t \in Threads, NEW c, FrameOK(c), Track!Enter(t, c)
  PROVE  /\ DOMAIN call' = Threads /\ \A u \in Threads : FrameOK(call[u])'
         /\ call'[t] = c /\ \A u \in Threads \ {t} : call'[u] = call[u]
  <1>1. call'[t] = c /\ DOMAIN call' = Threads /\ \A u \in Threads \ {t} : call'[u] = call[u]
    BY DEF HookTypeOK, Track!Enter
  <1>2. FrameOK(call'[t]) /\ \A u \in Threads \ {t} : FrameOK(call'[u])
    BY <1>1 DEF HookTypeOK
  <1>3. QED
    BY <1>1, <1>2 DEF FrameOK

\* What a thread's step leaves of its call but for the place in it.
Same(c, d) == d.fn = c.fn /\ d.ptr = c.ptr /\ d.hdr = c.hdr
Others(t) == \A u \in Threads \ {t} : call'[u] = call[u]
Calls == DOMAIN call = Threads /\ \A t \in Threads : FrameOK(call[t])

LEMMA Moves ==
  ASSUME HookTypeOK, NEW t \in Threads, NEW pc \in Places(call[t].fn),
         pc \in Before => call[t].hdr = Null, Track!Goto(t, pc)
  PROVE  Calls' /\ Others(t) /\ Same(call[t], call'[t]) /\ call'[t].pc = pc /\ call'[t].i = 1
  <1> DEFINE c == call[t]
             d == [c EXCEPT !.pc = pc, !.i = 1]
  <1>1. FrameOK(c)
    BY DEF HookTypeOK
  <1>2. 1 \in 1..Len(Track!Swapped(c.fn))
    BY <1>1, HooksOf DEF FrameOK
  <1>3. d.pc = pc /\ d.i = 1 /\ d.fn = c.fn /\ d.ptr = c.ptr /\ d.hdr = c.hdr
    BY <1>1 DEF FrameOK
  <1>4. FrameOK(d)
    BY <1>1, <1>2, <1>3 DEF FrameOK
  <1>5. Track!Enter(t, d)
    BY DEF Track!Goto
  <1> HIDE DEF d
  <1>6. QED
    BY <1>3, <1>4, <1>5, Frames DEF Calls, Others, Same

LEMMA NextMoves ==
  ASSUME HookTypeOK, NEW t \in Threads, NEW pc \in Places(call[t].fn),
         pc \notin Before \/ call[t].hdr = Null, Track!NextHook(t, pc)
  PROVE  /\ Calls' /\ Others(t) /\ Same(call[t], call'[t])
         /\ \/ /\ call[t].i < Len(Track!Swapped(call[t].fn))
               /\ call'[t].pc = call[t].pc /\ call'[t].i = call[t].i + 1
            \/ /\ call[t].i = Len(Track!Swapped(call[t].fn))
               /\ call'[t].pc = pc /\ call'[t].i = 1
  <1> DEFINE c == call[t]
             d == [c EXCEPT !.i = @ + 1]
  <1>1. FrameOK(c) /\ Len(Track!Swapped(c.fn)) \in Nat /\ c.i \in 1..Len(Track!Swapped(c.fn))
    BY HooksOf DEF HookTypeOK, FrameOK
  <1>2. CASE c.i < Len(Track!Swapped(c.fn))
    <2>1. d.pc = c.pc /\ d.i = c.i + 1 /\ d.fn = c.fn /\ d.ptr = c.ptr /\ d.hdr = c.hdr
      BY <1>1 DEF FrameOK
    <2>2. FrameOK(d)
      BY <1>1, <1>2, <2>1 DEF FrameOK
    <2>3. Track!Enter(t, d)
      BY <1>2 DEF Track!NextHook
    <2> HIDE DEF d
    <2>4. QED
      BY <1>2, <2>1, <2>2, <2>3, Frames DEF Calls, Others, Same
  <1>3. CASE ~(c.i < Len(Track!Swapped(c.fn)))
    <2>1. Track!Goto(t, pc) /\ c.i = Len(Track!Swapped(c.fn))
      BY <1>1, <1>3 DEF Track!NextHook
    <2>2. QED
      BY <2>1, Moves
  <1>4. QED
    BY <1>2, <1>3

LEMMA Ends ==
  ASSUME HookTypeOK, NEW t \in Threads, Track!Return(t)
  PROVE  Calls' /\ Others(t) /\ call'[t].pc = "app" /\ call'[t].fn = "none" /\ call'[t].ptr = Null /\ call'[t].hdr = Null
  <1>1. FrameOK(Track!Idle) /\ Track!Idle.pc = "app" /\ Track!Idle.fn = "none" /\ Track!Idle.ptr = Null /\ Track!Idle.hdr = Null
    BY IdleFrame
  <1>2. QED
    BY <1>1, Frames DEF Track!Return, Calls, Others

\* A step that leaves the saved hooks, and whether tracing is on, and leaves the
\* other calls' hooks out.
LEMMA Keeps ==
  ASSUME Quiet, NEW t \in Threads, Others(t), UNCHANGED <<mlOld, capture>>,
         call'[t].fn \in {call[t].fn, "none"},
         call'[t].pc \in {"unhook", "off"} => call[t].pc \in {"unhook", "off"},
         Installing(call'[t]) => Installing(call[t]),
         call[t].pc \in {"install", "capture"} => call'[t].pc \in {"install", "capture"},
         PutOut(call[t])', \A u \in Threads \ {t} : PutOut(call[u])',
         ~On /\ ~On' => \A h \in Track!Hooks : mlHook[h] = "libc" => mlHook'[h] = "libc"
  PROVE  Quiet'
  <1>1. ~On' => ~On
    BY DEF On, Others
  <1>2. StaysOff'
    <2>1. \A u \in Threads : call'[u].fn \in {call[u].fn, "none"}
      BY DEF Others
    <2>2. "none" \notin Track!Hooks
      BY DEF Track!Hooks
    <2>3. QED
      BY <1>1, <2>1, <2>2 DEF Quiet, StaysOff
  <1>3. ASSUME NEW u \in Threads
        PROVE  Alone(u)'
    <2>1. \A v \in Threads : /\ call'[v].fn \in {call[v].fn, "none"}
                             /\ call'[v].pc \in {"unhook", "off"} => call[v].pc \in {"unhook", "off"}
                             /\ Installing(call'[v]) => Installing(call[v])
      BY DEF Others
    <2>2. Alone(u)
      BY DEF Quiet
    <2>3. QED
      BY <2>1, <2>2 DEF Alone, Installing
  <1>4. \A u \in Threads : PutOut(call[u])'
    OBVIOUS
  <1>5. QED
    BY <1>2, <1>3, <1>4 DEF Quiet

\* Hooks that are out stay out when none is put in.
LEMMA StayOut ==
  ASSUME HookTypeOK, NEW u \in Threads, PutOut(call[u]), call'[u] = call[u],
         \A h \in Track!Hooks : mlHook[h] = "libc" => mlHook'[h] = "libc"
  PROVE  PutOut(call[u])'
  <1> DEFINE c == call[u]
  <1>1. FrameOK(c) /\ Len(Track!Swapped(c.fn)) \in Nat /\ c.i \in 1..Len(Track!Swapped(c.fn))
    BY HooksOf DEF HookTypeOK, FrameOK
  <1>2. c.pc \in {"swap", "unhook", "old", "off", "install"} =>
          \A j \in 1..Len(Track!Swapped(c.fn)) : Track!Swapped(c.fn)[j] \in Track!Hooks
    <2>1. c.pc \in {"swap", "unhook", "old", "off", "install"} => c.fn \in Track!Hooks \cup {"mtrace", "muntrace"}
      BY <1>1 DEF FrameOK, Places, Track!Hooks
    <2>2. QED
      BY <2>1, HooksOf
  <1>3. PutOut(c)
    OBVIOUS
  <1> HIDE DEF c
  <1>4. c.pc \in {"swap", "unhook"} => \A j \in 1..(c.i - 1) : mlHook'[Track!Swapped(c.fn)[j]] = "libc"
    BY <1>1, <1>2, <1>3 DEF PutOut, Out
  <1>5. c.pc \in {"old", "off"} => \A j \in 1..Len(Track!Swapped(c.fn)) : mlHook'[Track!Swapped(c.fn)[j]] = "libc"
    BY <1>1, <1>2, <1>3 DEF PutOut, Out
  <1>6. c.pc = "install" => \A j \in c.i..Len(Track!Swapped(c.fn)) : mlHook'[Track!Swapped(c.fn)[j]] = "libc"
    BY <1>1, <1>2, <1>3 DEF PutOut, Out
  <1>7. call'[u] = c /\ c.pc # "relock"
    BY <1>3 DEF c, PutOut
  <1>8. QED
    BY <1>4, <1>5, <1>6, <1>7 DEF PutOut, Out

\* Who puts hooks in has the lock, and is alone or beside muntrace() only.
LEMMA NoneOut ==
  ASSUME Locked, Quiet, NEW t \in Threads, call[t].pc \in {"restore", "install"},
         call[t].fn \notin {"none", "muntrace"}, NEW u \in Threads \ {t}, call'[u] = call[u]
  PROVE  PutOut(call[u])'
  <1>1. call[u].pc \notin Holding
    BY DEF Locked, Holding
  <1>2. call[u].pc \notin {"unhook", "off"}
    BY DEF Quiet, Alone
  <1>3. QED
    BY <1>1, <1>2 DEF PutOut, Holding

\* Steps away from the hooks.
LEMMA Plain ==
  ASSUME HookTypeOK, InOrder, NEW t \in Threads, Calls', Others(t),
         UNCHANGED <<mlHook, mlOld, capture, mlLock, raced>>, mlLive' \subseteq Addrs \cup MapBlocks,
         call[t].pc \in {"forget", "map", "note", "report"},
         call'[t].pc \in {"lock", "note", "app"},
         call'[t].fn \in {call[t].fn, "none"}, Installing(call'[t]) => Installing(call[t])
  PROVE  HookTypeOK' /\ InOrder'
  <1>1. HookTypeOK'
    BY DEF HookTypeOK, Calls
  <1>2. Locked'
    BY DEF InOrder, Locked, Others, Holding
  <1>3. ASSUME ~raced' PROVE Quiet'
    <2>1. Quiet
      BY <1>3 DEF InOrder
    <2>2. \A u \in Threads \ {t} : PutOut(call[u])'
      BY <2>1, StayOut DEF Quiet, Others
    <2>3. PutOut(call[t])'
      BY DEF PutOut
    <2>4. QED
      BY <2>1, <2>2, <2>3, Keeps
  <1>4. QED
    BY <1>1, <1>2, <1>3 DEF InOrder

LEMMA ForgetOrder ==
  ASSUME HookTypeOK, InOrder, NEW t \in Threads, Track!Forget(t)
  PROVE  /\ HookTypeOK' /\ InOrder' /\ Others(t) /\ Same(call[t], call'[t]) /\ call'[t].pc = "lock"
  <1>1. FrameOK(call[t]) /\ call[t].pc = "forget" /\ UNCHANGED <<mlHook, mlOld, capture, mlLock, raced, mlLive>> /\ Track!Goto(t, "lock")
    BY DEF Track!Forget, Track!At, Track!trVars, HookTypeOK
  <1>2. "lock" \in Places(call[t].fn) /\ call[t].hdr = Null /\ call[t].fn # "mtrace"
    BY <1>1 DEF FrameOK, Places, Before, Track!Hooks
  <1>3. Calls' /\ Others(t) /\ Same(call[t], call'[t]) /\ call'[t].pc = "lock"
    BY <1>1, <1>2, Moves
  <1>4. mlLive' \subseteq Addrs \cup MapBlocks
    BY <1>1 DEF HookTypeOK
  <1>5. QED
    BY <1>1, <1>2, <1>3, <1>4, Plain DEF Same, Installing

LEMMA EndOrder ==
  ASSUME HookTypeOK, InOrder, NEW t \in Threads, Track!Note(t) \/ Track!Report(t)
  PROVE  HookTypeOK' /\ InOrder' /\ Others(t) /\ call'[t].pc = "app"
  <1>1. /\ call[t].pc \in {"note", "report"} /\ UNCHANGED <<mlHook, mlOld, capture, mlLock, raced, mlLive>>
        /\ Track!Return(t)
    BY DEF Track!Note, Track!Report, Track!At, Track!trVars
  <1>2. Calls' /\ Others(t) /\ call'[t].pc = "app" /\ call'[t].fn = "none"
    BY <1>1, Ends
  <1>3. mlLive' \subseteq Addrs \cup MapBlocks
    BY <1>1 DEF HookTypeOK
  <1>4. QED
    BY <1>1, <1>2, <1>3, Plain DEF Installing

\* The lock is taken: no other hook is half in or half out, and before the first
\* mtrace() puts any in, all are out.
LEMMA LockOrder ==
  ASSUME HookTypeOK, InOrder, NEW t \in Threads, Track!Lock(t)
  PROVE  HookTypeOK' /\ InOrder' /\ Others(t) /\ Same(call[t], call'[t]) /\ call'[t].pc \in {"install", "swap"}
  <1> DEFINE pc == IF call[t].fn = "mtrace" THEN "install" ELSE "swap"
  <1>1. /\ FrameOK(call[t]) /\ call[t].pc = "lock" /\ mlLock = NoThread /\ mlLock' = t /\ Track!Goto(t, pc)
        /\ UNCHANGED <<mlHook, mlOld, capture, mlLive, raced>>
    BY DEF Track!Lock, Track!At, HookTypeOK
  <1>2. pc \in Places(call[t].fn) /\ call[t].hdr = Null /\ call[t].fn \in Track!Hooks \cup {"mtrace"}
    BY <1>1 DEF FrameOK, Places, Before, Track!Hooks
  <1>3. Calls' /\ Others(t) /\ Same(call[t], call'[t]) /\ call'[t].pc = pc /\ call'[t].i = 1
    BY <1>1, <1>2, Moves
  <1>4. HookTypeOK'
    BY <1>1, <1>3 DEF HookTypeOK, Calls
  <1>5. \A u \in Threads : call[u].pc \notin Holding
    BY <1>1, HooksAssumption DEF InOrder, Locked
  <1>6. Locked'
    BY <1>1, <1>3, <1>5 DEF Locked, Others
  <1>7. ASSUME ~raced' PROVE Quiet'
    <2>1. Quiet
      BY <1>1, <1>7 DEF InOrder
    <2>2. \A u \in Threads \ {t} : PutOut(call[u])'
      BY <1>1, <1>3, <2>1, StayOut DEF Quiet, Others
    <2>3. PutOut(call[t])'
      <3>1. CASE call[t].fn = "mtrace"
        <4>1. ~On
          BY <1>1, <1>5, <2>1, <3>1 DEF Quiet, Alone, Installing, On, Holding
        <4>2. \A h \in Track!Hooks : mlHook[h] = "libc"
          BY <2>1, <4>1 DEF Quiet, StaysOff
        <4>3. \A j \in 1..Len(Track!Swapped("mtrace")) : mlHook'[Track!Swapped("mtrace")[j]] = "libc"
          BY <1>1, <4>2, HooksOf
        <4>4. QED
          BY <1>3, <3>1, <4>3 DEF PutOut, Out, Same
      <3>2. CASE call[t].fn # "mtrace"
        BY <1>3, <3>2 DEF PutOut, Out
      <3>3. QED
        BY <3>1, <3>2
    <2>4. Installing(call'[t]) => Installing(call[t])
      BY <1>1, <1>3 DEF Installing, Same
    <2>5. QED
      BY <1>1, <1>3, <2>1, <2>2, <2>3, <2>4, Keeps DEF Same
  <1>8. QED
    BY <1>3, <1>4, <1>6, <1>7 DEF InOrder

\* A saved hook, which is the C library's, is put back.
LEMMA SwapOrder ==
  ASSUME HookTypeOK, InOrder, NEW t \in Threads, Track!Swap(t) \/ Track!Unhook(t)
  PROVE  HookTypeOK' /\ InOrder' /\ Others(t) /\ Same(call[t], call'[t]) /\ call'[t].pc \in {"swap", "old", "unhook", "off"}
  <1> DEFINE c == call[t]
             pc == IF c.pc = "swap" THEN "old" ELSE "off"
  <1>1. /\ FrameOK(c) /\ c.pc \in {"swap", "unhook"} /\ Track!NextHook(t, pc)
        /\ mlHook' = [mlHook EXCEPT ![Track!Swapped(c.fn)[c.i]] = mlOld[Track!Swapped(c.fn)[c.i]]]
        /\ UNCHANGED <<mlOld, capture, mlLock, mlLive, raced>>
    BY DEF Track!Swap, Track!Unhook, Track!At, HookTypeOK, Track!This
  <1>2. /\ c.fn \in Track!Hooks \cup {"muntrace"} /\ pc \in Places(c.fn)
        /\ pc = "old" => c.hdr = Null
        /\ c.pc = "unhook" => c.fn = "muntrace"
    BY <1>1 DEF FrameOK, Places, Before, Track!Hooks
  <1>3. pc \notin Before \/ c.hdr = Null
    BY <1>2 DEF Before
  <1>4. /\ Calls' /\ Others(t) /\ Same(c, call'[t])
        /\ \/ c.i < Len(Track!Swapped(c.fn)) /\ call'[t].pc = c.pc /\ call'[t].i = c.i + 1
           \/ c.i = Len(Track!Swapped(c.fn)) /\ call'[t].pc = pc /\ call'[t].i = 1
    BY <1>1, <1>2, <1>3, NextMoves
  <1>5. /\ Len(Track!Swapped(c.fn)) \in Nat /\ c.i \in 1..Len(Track!Swapped(c.fn)) /\ Track!Swapped(c.fn)[c.i] \in Track!Hooks
        /\ \A j \in 1..Len(Track!Swapped(c.fn)) : Track!Swapped(c.fn)[j] \in Track!Hooks
    <2>1. c.fn \in Fns /\ c.i \in 1..Len(Track!Swapped(c.fn))
      BY <1>1 DEF FrameOK
    <2>2. c.fn \in Track!Hooks \cup {"mtrace", "muntrace"}
      BY <1>2
    <2> HIDE DEF c
    <2>3. QED
      BY <2>1, <2>2, HooksOf
  <1>6. HookTypeOK'
    BY <1>1, <1>4, <1>5 DEF HookTypeOK, Calls
  <1>7. Locked'
    BY <1>1, <1>4 DEF InOrder, Locked, Others, Holding
  <1>8. ASSUME ~raced' PROVE Quiet'
    <2>1. Quiet
      BY <1>1, <1>8 DEF InOrder
    <2>2. mlHook'[Track!Swapped(c.fn)[c.i]] = "libc" /\ \A h \in Track!Hooks : mlHook[h] = "libc" => mlHook'[h] = "libc"
      BY <1>1, <1>5, <2>1 DEF Quiet, HookTypeOK
    <2>3. \A u \in Threads \ {t} : PutOut(call[u])'
      BY <1>4, <2>1, <2>2, StayOut DEF Quiet, Others
    <2>4. \A j \in 1..c.i : mlHook'[Track!Swapped(c.fn)[j]] = "libc"
      <3>1. \A j \in 1..(c.i - 1) : mlHook[Track!Swapped(c.fn)[j]] = "libc"
        BY <1>1, <2>1 DEF Quiet, PutOut, Out
      <3>2. QED
        BY <1>5, <2>2, <3>1
    <2>5. PutOut(call[t])'
      <3>1. CASE c.i < Len(Track!Swapped(c.fn)) /\ call'[t].pc = c.pc /\ call'[t].i = c.i + 1
        <4>1. call'[t].i - 1 = c.i
          BY <1>5, <3>1
        <4>2. QED
          BY <1>1, <1>4, <2>4, <3>1, <4>1 DEF PutOut, Out, Same
      <3>2. CASE c.i = Len(Track!Swapped(c.fn)) /\ call'[t].pc = pc /\ call'[t].i = 1
        BY <1>1, <1>4, <2>4, <3>2 DEF PutOut, Out, Same
      <3>3. QED
        BY <1>4, <3>1, <3>2
    <2>6. call'[t].pc \in {"unhook", "off"} => c.pc \in {"unhook", "off"}
      BY <1>1, <1>4
    <2>7. ~Installing(call'[t])
      <3>1. c.fn # "mtrace" /\ call'[t].fn = c.fn
        BY <1>2, <1>4 DEF Same, Track!Hooks
      <3>2. QED
        BY <3>1 DEF Installing
    <2>8. QED
      BY <1>1, <1>4, <2>1, <2>2, <2>3, <2>5, <2>6, <2>7, Keeps DEF Same
  <1>9. QED
    BY <1>1, <1>4, <1>6, <1>7, <1>8 DEF InOrder

\* Where a hook calls on, nothing that the C library goes by is the library's own.
LEMMA CallOldOrder ==
  ASSUME HookTypeOK, InOrder, NEW t \in Threads, Track!CallOld(t)
  PROVE  /\ Locked' /\ (~raced' => Quiet') /\ Others(t) /\ call[t].pc = "old" /\ call[t].fn \in Track!Hooks
         /\ UNCHANGED <<mlHook, mlOld, capture, raced>>
         /\ \/ call'[t].pc = "relock" /\ Same(call[t], call'[t]) /\ Calls' /\ UNCHANGED mlLive
            \/ \E hdr \in Track!Results(call[t].fn, call[t].ptr) :
                 /\ mlLive' = Track!Live(call[t].fn, call[t].ptr, hdr)
                 /\ Track!Enter(t, [call[t] EXCEPT !.hdr = hdr, !.pc = "restore"])
  <1> DEFINE c == call[t]
  <1>1. /\ FrameOK(c) /\ c.pc = "old" /\ c.hdr = Null
        /\ UNCHANGED <<mlHook, mlOld, capture, mlLock, raced>>
    BY DEF Track!CallOld, Track!At, HookTypeOK, FrameOK, Before, Track!trVars
  <1>2. c.fn \in Track!Hooks
    BY <1>1 DEF FrameOK, Places
  <1>3. CASE /\ mlOld[c.fn] = "tr" \/ \E h \in Track!Within(c.fn) \cup {c.fn} : mlHook[h] = "tr"
             /\ Track!Goto(t, "relock") /\ UNCHANGED mlLive
    <2>1. "relock" \in Places(c.fn)
      <3>1. \A fn \in Track!Hooks : "relock" \in Places(fn)
        BY DEF Places, Track!Hooks
      <3>2. QED
        BY <1>2, <3>1
    <2>2. Calls' /\ Others(t) /\ Same(c, call'[t]) /\ call'[t].pc = "relock"
      BY <1>1, <1>3, <2>1, Moves
    <2>3. Locked'
      BY <1>1, <2>2 DEF InOrder, Locked, Others, Holding
    <2>4. ASSUME ~raced PROVE FALSE
      <3>1. \A j \in 1..Len(Track!Swapped(c.fn)) : mlHook[Track!Swapped(c.fn)[j]] = "libc"
        BY <1>1, <2>4 DEF InOrder, Quiet, PutOut, Out
      <3>2. \A h \in Track!Within(c.fn) \cup {c.fn} : mlHook[h] = "libc"
        <4> HIDE DEF c
        <4>1. \A h \in Track!Within(c.fn) \cup {c.fn} : \E j \in 1..Len(Track!Swapped(c.fn)) : Track!Swapped(c.fn)[j] = h
          BY <1>2, HooksOf
        <4>2. QED
          BY <3>1, <4>1
      <3>3. mlOld[c.fn] = "libc"
        BY <1>2, <2>4 DEF InOrder, Quiet
      <3>4. QED
        BY <1>3, <3>2, <3>3
    <2>5. QED
      BY <1>1, <1>2, <1>3, <2>2, <2>3, <2>4
  <1>4. ASSUME NEW hdr \in Track!Results(c.fn, c.ptr), mlLive' = Track!Live(c.fn, c.ptr, hdr),
               Track!Enter(t, [c EXCEPT !.hdr = hdr, !.pc = "restore"])
        PROVE  Locked' /\ (~raced' => Quiet') /\ Others(t)
    <2>1. Others(t) /\ call'[t].pc = "restore" /\ call'[t].fn = c.fn
      BY <1>1, <1>4 DEF Track!Enter, HookTypeOK, Others, FrameOK
    <2>2. Locked'
      BY <1>1, <2>1 DEF InOrder, Locked, Others, Holding
    <2>3. ASSUME ~raced' PROVE Quiet'
      <3>1. Quiet
        BY <1>1, <2>3 DEF InOrder
      <3>2. \A u \in Threads \ {t} : PutOut(call[u])'
        BY <1>1, <2>1, <3>1, StayOut DEF Quiet, Others
      <3>3. PutOut(call[t])'
        BY <2>1 DEF PutOut
      <3>4. Installing(call'[t]) => Installing(call[t])
        BY <1>1, <2>1 DEF Installing
      <3>5. QED
        BY <1>1, <2>1, <3>1, <3>2, <3>3, <3>4, Keeps
    <2>4. QED
      BY <2>1, <2>2, <2>3
  <1>5. \/ /\ mlOld[c.fn] = "tr" \/ \E h \in Track!Within(c.fn) \cup {c.fn} : mlHook[h] = "tr"
           /\ Track!Goto(t, "relock") /\ UNCHANGED mlLive
        \/ \E hdr \in Track!Results(c.fn, c.ptr) :
             mlLive' = Track!Live(c.fn, c.ptr, hdr) /\ Track!Enter(t, [c EXCEPT !.hdr = hdr, !.pc = "restore"])
    BY DEF Track!CallOld
  <1>6. CASE /\ mlOld[c.fn] = "tr" \/ \E h \in Track!Within(c.fn) \cup {c.fn} : mlHook[h] = "tr"
             /\ Track!Goto(t, "relock") /\ UNCHANGED mlLive
    BY <1>3, <1>6
  <1>7. CASE \E hdr \in Track!Results(c.fn, c.ptr) :
               mlLive' = Track!Live(c.fn, c.ptr, hdr) /\ Track!Enter(t, [c EXCEPT !.hdr = hdr, !.pc = "restore"])
    BY <1>1, <1>2, <1>4, <1>7
  <1>8. QED
    BY <1>5, <1>6, <1>7

\* The library's hooks are put in, which nobody else has out.
LEMMA RestoreOrder ==
  ASSUME HookTypeOK, InOrder, NEW t \in Threads, Track!Restore(t)
  PROVE  /\ HookTypeOK' /\ InOrder' /\ Others(t) /\ Same(call[t], call'[t])
         /\ call[t].pc = "restore" /\ call'[t].pc \in {"restore", "note"}
  <1> DEFINE c == call[t]
  <1>1. /\ FrameOK(c) /\ c.pc = "restore" /\ Track!NextHook(t, "note")
        /\ mlHook' = [mlHook EXCEPT ![Track!Swapped(c.fn)[c.i]] = "tr"]
        /\ mlLock' = IF c.i < Len(Track!Swapped(c.fn)) THEN mlLock ELSE NoThread
        /\ UNCHANGED <<mlOld, capture, mlLive, raced>>
    BY DEF Track!Restore, Track!At, HookTypeOK, Track!This
  <1>2. c.fn \in Track!Hooks /\ "note" \in Places(c.fn) /\ "note" \notin Before
    BY <1>1 DEF FrameOK, Places, Before, Track!Hooks
  <1>3. /\ Calls' /\ Others(t) /\ Same(c, call'[t])
        /\ \/ c.i < Len(Track!Swapped(c.fn)) /\ call'[t].pc = "restore"
           \/ c.i = Len(Track!Swapped(c.fn)) /\ call'[t].pc = "note"
    BY <1>1, <1>2, NextMoves
  <1>4. Len(Track!Swapped(c.fn)) \in Nat /\ c.i \in 1..Len(Track!Swapped(c.fn))
    BY <1>1, HooksOf DEF FrameOK
  <1>5. HookTypeOK'
    BY <1>1, <1>3 DEF HookTypeOK, Calls
  <1>6. mlLock = t /\ \A u \in Threads \ {t} : call[u].pc \notin Holding
    BY <1>1 DEF InOrder, Locked, Holding
  <1>7. Locked'
    BY <1>1, <1>3, <1>4, <1>6 DEF Locked, Others, Holding
  <1>8. ASSUME ~raced' PROVE Quiet'
    <2>1. Quiet /\ Locked
      BY <1>1, <1>8 DEF InOrder
    <2>2. c.fn \notin {"none", "muntrace"} /\ c.fn # "mtrace"
      BY <1>2 DEF Track!Hooks
    <2>3. \A u \in Threads \ {t} : PutOut(call[u])'
      BY <1>1, <1>3, <2>1, <2>2, NoneOut DEF Others
    <2>4. PutOut(call[t])'
      BY <1>3 DEF PutOut
    <2>5. On
      BY <1>2, <2>1 DEF Quiet, StaysOff
    <2>6. QED
      BY <1>1, <1>3, <2>1, <2>2, <2>3, <2>4, <2>5, Keeps DEF Same, Installing
  <1>9. QED
    BY <1>1, <1>3, <1>5, <1>7, <1>8 DEF InOrder

\* The first mtrace() saves hooks that are the C library's.
LEMMA InstallOrder ==
  ASSUME HookTypeOK, InOrder, NEW t \in Threads, Track!Install(t)
  PROVE  HookTypeOK' /\ InOrder' /\ Others(t) /\ Same(call[t], call'[t]) /\ call'[t].fn = "mtrace"
  <1> DEFINE c == call[t]
             h == Track!Swapped(c.fn)[c.i]
  <1>1. /\ FrameOK(c) /\ c.pc = "install" /\ Track!NextHook(t, "capture")
        /\ mlOld' = [mlOld EXCEPT ![h] = mlHook[h]] /\ mlHook' = [mlHook EXCEPT ![h] = "tr"]
        /\ UNCHANGED <<mlLock, capture, mlLive, raced>>
    BY DEF Track!Install, Track!At, HookTypeOK, Track!This
  <1>2. c.fn = "mtrace" /\ "capture" \in Places(c.fn) /\ "capture" \notin Before
    BY <1>1 DEF FrameOK, Places, Before, Track!Hooks
  <1>3. /\ Calls' /\ Others(t) /\ Same(c, call'[t])
        /\ \/ c.i < Len(Track!Swapped(c.fn)) /\ call'[t].pc = "install" /\ call'[t].i = c.i + 1
           \/ c.i = Len(Track!Swapped(c.fn)) /\ call'[t].pc = "capture"
    BY <1>1, <1>2, NextMoves
  <1>4. Len(Track!Swapped(c.fn)) \in Nat /\ c.i \in 1..Len(Track!Swapped(c.fn))
    BY <1>1, HooksOf DEF FrameOK
  <1>5. h \in Track!Hooks /\ \A j \in (c.i + 1)..Len(Track!Swapped(c.fn)) : Track!Swapped(c.fn)[j] \in Track!Hooks /\ Track!Swapped(c.fn)[j] # h
    <2>1. \A j, k \in 1..Len(Track!Swapped(c.fn)) : Track!Swapped(c.fn)[j] = Track!Swapped(c.fn)[k] => j = k
      BY <1>2, HooksOf
    <2>2. \A j \in 1..Len(Track!Swapped(c.fn)) : Track!Swapped(c.fn)[j] \in Track!Hooks
      BY <1>2, HooksOf
    <2> HIDE DEF c
    <2>3. QED
      BY <1>4, <2>1, <2>2
  <1> HIDE DEF h
  <1>6. HookTypeOK'
    BY <1>1, <1>3, <1>5 DEF HookTypeOK, Calls
  <1>7. Locked'
    BY <1>1, <1>3 DEF InOrder, Locked, Others, Holding
  <1>8. ASSUME ~raced' PROVE Quiet'
    <2>1. Quiet /\ Locked
      BY <1>1, <1>8 DEF InOrder
    <2>2. \A j \in c.i..Len(Track!Swapped(c.fn)) : mlHook[Track!Swapped(c.fn)[j]] = "libc"
      BY <1>1, <2>1 DEF Quiet, PutOut, Out
    <2>3. mlHook[h] = "libc"
      BY <1>4, <2>2 DEF h
    <2>4. \A g \in Track!Hooks : mlOld'[g] = "libc"
      BY <1>1, <2>1, <2>3 DEF Quiet, HookTypeOK
    <2>5. \A u \in Threads \ {t} : PutOut(call[u])'
      BY <1>1, <1>2, <1>3, <2>1, NoneOut DEF Others
    <2>6. PutOut(call[t])'
      <3>1. \A j \in (c.i + 1)..Len(Track!Swapped(c.fn)) : mlHook'[Track!Swapped(c.fn)[j]] = "libc"
        BY <1>1, <1>4, <1>5, <2>2 DEF HookTypeOK
      <3>2. QED
        BY <1>3, <3>1 DEF PutOut, Out, Same
    <2>7. StaysOff'
      BY <1>3 DEF StaysOff, On
    <2>8. ASSUME NEW u \in Threads PROVE Alone(u)'
      <3>1. \A v \in Threads : /\ call'[v].fn = call[v].fn
                               /\ call'[v].pc \in {"unhook", "off"} => call[v].pc \in {"unhook", "off"}
                               /\ Installing(call'[v]) => Installing(call[v])
        BY <1>1, <1>2, <1>3 DEF Others, Same, Installing
      <3>2. QED
        BY <1>1, <2>1, <3>1 DEF Quiet, Alone, Installing
    <2>9. QED
      BY <2>4, <2>5, <2>6, <2>7, <2>8 DEF Quiet
  <1>9. QED
    BY <1>2, <1>3, <1>6, <1>7, <1>8 DEF InOrder, Same

LEMMA SwitchOnOrder ==
  ASSUME HookTypeOK, InOrder, NEW t \in Threads, Track!SwitchOn(t)
  PROVE  HookTypeOK' /\ InOrder' /\ Others(t) /\ call'[t].pc = "app" /\ call[t].fn = "mtrace"
  <1>1. /\ FrameOK(call[t]) /\ call[t].pc = "capture" /\ Track!Return(t) /\ capture' = TRUE /\ mlLock' = NoThread
        /\ UNCHANGED <<mlHook, mlOld, mlLive, raced>>
    BY DEF Track!SwitchOn, Track!At, HookTypeOK
  <1>2. call[t].fn = "mtrace"
    BY <1>1 DEF FrameOK, Places, Track!Hooks
  <1>3. Calls' /\ Others(t) /\ call'[t].pc = "app" /\ call'[t].fn = "none"
    BY <1>1, Ends
  <1>4. HookTypeOK'
    BY <1>1, <1>3 DEF HookTypeOK, Calls
  <1>5. Locked'
    BY <1>1, <1>3 DEF InOrder, Locked, Others, Holding
  <1>6. ASSUME ~raced' PROVE Quiet'
    <2>1. Quiet
      BY <1>1, <1>6 DEF InOrder
    <2>2. \A u \in Threads \ {t} : PutOut(call[u])'
      BY <1>1, <1>3, <2>1, StayOut DEF Quiet, Others
    <2>3. PutOut(call[t])'
      BY <1>3 DEF PutOut
    <2>4. StaysOff'
      BY <1>1 DEF StaysOff, On
    <2>5. Installing(call[t]) /\ ~Installing(call'[t])
      BY <1>1, <1>2, <1>3 DEF Installing
    <2>6. \A u \in Threads : ~Installing(call'[u])
      BY <1>3, <2>1, <2>5 DEF Quiet, Alone, Others
    <2>7. ASSUME NEW u \in Threads PROVE Alone(u)'
      <3>1. \A v \in Threads : call'[v].fn \in {call[v].fn, "none"}
        BY <1>3 DEF Others
      <3>2. call'[u].pc \in {"unhook", "off"} => call[u].pc \in {"unhook", "off"}
        BY <1>3 DEF Others
      <3>3. QED
        BY <2>1, <2>6, <3>1, <3>2 DEF Quiet, Alone
    <2>8. QED
      BY <1>1, <2>1, <2>2, <2>3, <2>4, <2>7 DEF Quiet
  <1>7. QED
    BY <1>2, <1>3, <1>4, <1>5, <1>6 DEF InOrder

\* muntrace() has put all hooks out when it switches tracing off.
LEMMA SwitchOffOrder ==
  ASSUME HookTypeOK, InOrder, NEW t \in Threads, Track!SwitchOff(t)
  PROVE  HookTypeOK' /\ InOrder' /\ Others(t) /\ Same(call[t], call'[t]) /\ call'[t].fn = "muntrace"
  <1>1. /\ FrameOK(call[t]) /\ call[t].pc = "off" /\ Track!Goto(t, "report") /\ capture' = FALSE
        /\ UNCHANGED <<mlHook, mlOld, mlLock, mlLive, raced>>
    BY DEF Track!SwitchOff, Track!At, HookTypeOK
  <1>2. call[t].fn = "muntrace" /\ "report" \in Places(call[t].fn) /\ "report" \notin Before
    BY <1>1 DEF FrameOK, Places, Before, Track!Hooks
  <1>3. Calls' /\ Others(t) /\ Same(call[t], call'[t]) /\ call'[t].pc = "report"
    BY <1>1, <1>2, Moves
  <1>4. HookTypeOK'
    BY <1>1, <1>3 DEF HookTypeOK, Calls
  <1>5. Locked'
    BY <1>1, <1>3 DEF InOrder, Locked, Others, Holding
  <1>6. ASSUME ~raced' PROVE Quiet'
    <2>1. Quiet
      BY <1>1, <1>6 DEF InOrder
    <2>2. \A u \in Threads \ {t} : PutOut(call[u])'
      BY <1>1, <1>3, <2>1, StayOut DEF Quiet, Others
    <2>3. PutOut(call[t])'
      BY <1>3 DEF PutOut
    <2>4. \A u \in Threads : call'[u].fn \in {"none", "muntrace"}
      BY <1>1, <1>2, <1>3, <2>1 DEF Quiet, Alone, Others, Same
    <2>5. \A h \in Track!Hooks : mlHook'[h] = "libc"
      <3>1. \A j \in 1..Len(Track!Swapped("muntrace")) : mlHook[Track!Swapped("muntrace")[j]] = "libc"
        BY <1>1, <1>2, <2>1 DEF Quiet, PutOut, Out
      <3>2. QED
        BY <1>1, <3>1, HooksOf
    <2>6. StaysOff'
      BY <2>4, <2>5 DEF StaysOff, Track!Hooks
    <2>7. \A u \in Threads : Alone(u)'
      BY <2>4 DEF Alone, Installing
    <2>8. QED
      BY <1>1, <2>1, <2>2, <2>3, <2>6, <2>7 DEF Quiet
  <1>7. QED
    BY <1>2, <1>3, <1>4, <1>5, <1>6 DEF InOrder, Same

\* A call starts, beside which muntrace() is not under way.
LEMMA Starts ==
  ASSUME HookTypeOK, InOrder, NEW t \in Threads, call[t].pc = "app", NEW c, FrameOK(c), Track!Enter(t, c),
         c.pc \notin Holding \cup {"off"}, UNCHANGED <<mlHook, mlOld, capture, mlLock, mlLive>>, raced' \in BOOLEAN,
         c.i = 1,
         ~raced' => /\ ~raced
                    /\ c.fn # "muntrace" => ~Track!Ending(t)
                    /\ c.fn = "muntrace" => ~Track!Busy(t)
                    /\ Installing(c) => ~capture /\ \A u \in Threads \ {t} : ~Installing(call[u])
                    /\ c.fn \in Track!Hooks => mlHook[c.fn] = "tr",
         c.pc = "unhook" => c.fn = "muntrace"
  PROVE  HookTypeOK' /\ InOrder' /\ Others(t) /\ call'[t] = c
  <1>1. Calls' /\ Others(t) /\ call'[t] = c
    BY Frames DEF Calls, Others
  <1>2. HookTypeOK'
    BY <1>1 DEF HookTypeOK, Calls
  <1>3. Locked'
    BY <1>1 DEF InOrder, Locked, Others
  <1>4. ASSUME ~raced' PROVE Quiet'
    <2>1. Quiet
      BY <1>4 DEF InOrder
    <2>2. \A u \in Threads \ {t} : PutOut(call[u])'
      BY <1>1, <2>1, StayOut DEF Quiet, Others
    <2>3. PutOut(call[t])'
      BY <1>1 DEF PutOut, Out, Holding
    <2>4. On => On'
      BY <1>1 DEF On, Others
    <2>5. StaysOff'
      <3>1. \A u \in Threads \ {t} : call'[u] = call[u]
        BY <1>1 DEF Others
      <3>2. c.fn \in Track!Hooks => On
        BY <1>4, <2>1 DEF Quiet, StaysOff
      <3>3. QED
        BY <1>1, <2>1, <2>4, <3>1, <3>2 DEF Quiet, StaysOff
    <2>6. ASSUME NEW u \in Threads PROVE Alone(u)'
      <3>1. CASE u = t
        <4>1. c.pc \in {"unhook", "off"} => \A v \in Threads \ {t} : call'[v].fn \in {"none", "muntrace"}
          BY <1>1, <1>4 DEF Others, Track!Busy
        <4>2. Installing(c) => ~capture' /\ \A v \in Threads \ {t} : ~Installing(call'[v])
          BY <1>1, <1>4 DEF Others
        <4>3. QED
          BY <1>1, <3>1, <4>1, <4>2 DEF Alone
      <3>2. CASE u # t
        <4>1. Alone(u) /\ call'[u] = call[u]
          BY <1>1, <2>1, <3>2 DEF Quiet, Others
        <4>2. call[u].pc \in {"unhook", "off"} => c.fn = "muntrace"
          BY <1>4, <3>2 DEF Track!Ending
        <4>3. call[u].pc \in {"unhook", "off"} => \A v \in Threads \ {u} : call'[v].fn \in {"none", "muntrace"}
          BY <1>1, <4>1, <4>2 DEF Alone, Others
        <4>4. Installing(call[u]) => ~Installing(c)
          BY <1>4, <3>2
        <4>5. Installing(call[u]) => ~capture' /\ \A v \in Threads \ {u} : ~Installing(call'[v])
          BY <1>1, <4>1, <4>4 DEF Alone, Others
        <4>6. QED
          BY <4>1, <4>3, <4>5 DEF Alone
      <3>3. QED
        BY <3>1, <3>2
    <2>7. QED
      BY <2>1, <2>2, <2>3, <2>5, <2>6 DEF Quiet
  <1>5. QED
    BY <1>1, <1>2, <1>3, <1>4 DEF InOrder

LEMMA MtraceCallOrder ==
  ASSUME HookTypeOK, InOrder, NEW t \in Threads, Track!MtraceCall(t) \/ Track!Muntrace(t)
  PROVE  /\ HookTypeOK' /\ InOrder' /\ Others(t) /\ call[t].pc = "app"
         /\ call'[t].fn \in {"mtrace", "muntrace"}
  <1>1. CASE Track!MtraceCall(t)
    <2> DEFINE c == Track!Frame("mtrace", Track!Test, Null)
    <2>1. /\ call[t].pc = "app" /\ Track!Enter(t, c) /\ UNCHANGED <<mlHook, mlOld, capture, mlLock, mlLive>>
          /\ raced' = (raced \/ Track!Ending(t) \/
                 (~capture /\ \E u \in Threads : call[u].fn = "mtrace" /\ ~Track!At(u, "report")))
      BY <1>1 DEF Track!MtraceCall, Track!At, Track!trVars
    <2>2. /\ c.pc = IF capture THEN "report" ELSE "lock"
          /\ c.fn = "mtrace" /\ c.ptr = Null /\ c.hdr = Null /\ c.i = 1
          /\ c = [pc |-> c.pc, fn |-> "mtrace", ptr |-> Null, hdr |-> Null, i |-> 1]
      BY DEF Track!Frame, Track!Test
    <2> HIDE DEF c
    <2>3. FrameOK(c)
      <3>1. 1 \in 1..Len(Track!Swapped("mtrace")) /\ "lock" \in Places("mtrace") /\ "report" \in Places("mtrace")
        BY HooksOf DEF Fns, Places, Track!Hooks
      <3>2. QED
        BY <2>2, <3>1 DEF FrameOK, Fns, HookPtrs
    <2>4. raced' \in BOOLEAN
      BY <2>1 DEF HookTypeOK
    <2>5. Installing(c) => ~capture
      BY <2>2 DEF Installing
    <2>6. ~raced' => ~raced /\ ~Track!Ending(t) /\ (~capture => \A u \in Threads : ~Installing(call[u]))
      BY <2>1 DEF Installing, Track!At
    <2>7. c.pc \notin Holding \cup {"off", "unhook"} /\ c.fn \notin Track!Hooks /\ c.fn # "muntrace"
      BY <2>2 DEF Holding, Track!Hooks
    <2>8. QED
      BY <2>1, <2>2, <2>3, <2>4, <2>5, <2>6, <2>7, Starts
  <1>2. CASE Track!Muntrace(t)
    <2> DEFINE c == Track!Frame("muntrace", "unhook", Null)
    <2>1. /\ call[t].pc = "app" /\ Track!Enter(t, c) /\ UNCHANGED <<mlHook, mlOld, capture, mlLock, mlLive>>
          /\ raced' = (raced \/ Track!Busy(t))
      BY <1>2 DEF Track!Muntrace, Track!At, Track!trVars
    <2>2. c = [pc |-> "unhook", fn |-> "muntrace", ptr |-> Null, hdr |-> Null, i |-> 1]
      BY DEF Track!Frame
    <2> HIDE DEF c
    <2>3. FrameOK(c)
      <3>1. 1 \in 1..Len(Track!Swapped("muntrace")) /\ "unhook" \in Places("muntrace")
        BY HooksOf DEF Fns, Places, Track!Hooks
      <3>2. QED
        BY <2>2, <3>1 DEF FrameOK, Fns, HookPtrs, Before
    <2>4. raced' \in BOOLEAN
      BY <2>1 DEF HookTypeOK, Track!Busy
    <2>5. c.pc \notin Holding \cup {"off"} /\ c.fn \notin Track!Hooks /\ ~Installing(c) /\ c.fn = "muntrace" /\ c.i = 1
      BY <2>2 DEF Holding, Track!Hooks, Installing
    <2>6. QED
      BY <2>1, <2>3, <2>4, <2>5, Starts
  <1>3. QED
    BY <1>1, <1>2

\* A hook is entered only when it is in.
LEMMA CallOrder ==
  ASSUME HookTypeOK, InOrder, NEW t \in Threads, NEW fn \in Track!Hooks \cup {"mmap", "munmap"}, NEW ptr \in HookPtrs,
         call[t].pc = "app", ~(fn \in Track!Hooks /\ mlHook[fn] = "libc"), UNCHANGED <<Track!trVars, mlLive>>,
         Track!Enter(t, Track!Frame(fn, Track!FirstStep(fn), ptr)), raced' = (raced \/ Track!Ending(t))
  PROVE  /\ HookTypeOK' /\ InOrder' /\ Others(t) /\ call'[t].ptr = ptr /\ call'[t].hdr = Null
         /\ call'[t].pc \in {"map", "forget", "lock"}
  <1> DEFINE c == Track!Frame(fn, Track!FirstStep(fn), ptr)
  <1>1. c = [pc |-> Track!FirstStep(fn), fn |-> fn, ptr |-> ptr, hdr |-> Null, i |-> 1] /\ Track!Enter(t, c)
    BY DEF Track!Frame
  <1> HIDE DEF c
  <1>2. Track!FirstStep(fn) \in {"map", "forget", "lock"} /\ Track!FirstStep(fn) \in Places(fn)
    BY DEF Track!FirstStep, Places, Track!Hooks
  <1>3. fn \in Fns /\ fn \notin {"none", "mtrace", "muntrace"}
    BY DEF Fns, Track!Hooks
  <1>4. FrameOK(c)
    <2>1. 1 \in 1..Len(Track!Swapped(fn))
      BY <1>3, HooksOf
    <2>2. QED
      BY <1>1, <1>2, <1>3, <2>1 DEF FrameOK, HookPtrs
  <1>5. raced' \in BOOLEAN
    BY DEF HookTypeOK, Track!Ending
  <1>6. ~Installing(c) /\ c.pc \notin Holding \cup {"off", "unhook"} /\ c.fn # "muntrace" /\ c.fn = fn /\ c.i = 1
    BY <1>1, <1>2, <1>3 DEF Installing, Holding
  <1>7. fn \in Track!Hooks => mlHook[fn] = "tr"
    BY DEF HookTypeOK
  <1>8. UNCHANGED <<mlHook, mlOld, capture, mlLock, mlLive>>
    BY DEF Track!trVars
  <1>9. ~raced' => ~raced /\ ~Track!Ending(t)
    OBVIOUS
  <1>10. HookTypeOK' /\ InOrder' /\ Others(t) /\ call'[t] = c
    BY <1>1, <1>4, <1>5, <1>6, <1>7, <1>8, <1>9, Starts
  <1>11. QED
    BY <1>1, <1>2, <1>10

LEMMA MapOrder ==
  ASSUME HookTypeOK, InOrder, NEW t \in Threads, Track!Map(t), mlLive' \subseteq Addrs \cup MapBlocks, Calls'
  PROVE  HookTypeOK' /\ InOrder'
  <1>1. /\ FrameOK(call[t]) /\ call[t].pc = "map" /\ UNCHANGED <<mlHook, mlOld, capture, mlLock, raced>>
        /\ \E hdr : Track!Enter(t, IF capture THEN [call[t] EXCEPT !.hdr = hdr, !.pc = "note"] ELSE Track!Idle)
    BY DEF Track!Map, Track!At, Track!trVars, HookTypeOK
  <1>2. PICK hdr : Track!Enter(t, IF capture THEN [call[t] EXCEPT !.hdr = hdr, !.pc = "note"] ELSE Track!Idle)
    BY <1>1
  <1>3. Others(t) /\ call'[t] = IF capture THEN [call[t] EXCEPT !.hdr = hdr, !.pc = "note"] ELSE Track!Idle
    BY <1>2 DEF Track!Enter, HookTypeOK, Others
  <1>4. call'[t].pc \in {"note", "app"} /\ call'[t].fn \in {call[t].fn, "none"}
    BY <1>1, <1>3, IdleFrame DEF FrameOK
  <1>5. call[t].fn # "mtrace"
    BY <1>1 DEF FrameOK, Places, Track!Hooks
  <1>6. ~Installing(call'[t])
    BY <1>4, <1>5 DEF Installing
  <1>7. QED
    BY <1>1, <1>3, <1>4, <1>6, Plain

\* What a call of the C library does to the blocks: what it returns was free or
\* is the block it was passed, and only the latter goes.
LEMMA LiveBlocks ==
  ASSUME mlLive \subseteq Addrs \cup MapBlocks, NEW fn \in Track!Hooks \cup {"mmap", "munmap"}, NEW ptr \in HookPtrs,
         NEW hdr \in Track!Results(fn, ptr), ptr = Null \/ ptr \in mlLive
  PROVE  /\ hdr \in HookPtrs /\ (hdr \in mlLive => hdr = ptr)
         /\ Track!Live(fn, ptr, hdr) \subseteq mlLive \cup ({hdr} \ {Null})
         /\ mlLive \ {ptr} \subseteq Track!Live(fn, ptr, hdr)
         /\ Track!Live(fn, ptr, hdr) \subseteq Addrs \cup MapBlocks
         /\ hdr # Null => hdr \in Track!Live(fn, ptr, hdr)
         /\ fn = "realloc" /\ hdr = Null => Track!Live(fn, ptr, hdr) = mlLive
  <1>1. hdr \in HookPtrs
    BY DEF Track!Results, HookPtrs, Track!Blocks, Track!Hooks
  <1>2. hdr \in mlLive => hdr = ptr
    BY HooksAssumption DEF Track!Results
  <1>3. QED
    BY <1>1, <1>2, HooksAssumption DEF Track!Live, HookPtrs

\* Steps that touch no block: what is in a call's hands stays there.
LEMMA KeepsBlocks ==
  ASSUME Apart, Track!HeldIsNoted, NEW t \in Threads, Others(t), UNCHANGED <<mlLive, mlHeld, tracked, relocated, late>>,
         Track!InHand(t)' \subseteq Track!InHand(t) \cup {Null}
  PROVE  Apart' /\ Track!HeldIsNoted'
  <1>1. \A u \in Threads \ {t} : Track!InHand(u)' = Track!InHand(u)
    BY DEF Others, Track!InHand
  <1>2. Track!HeldIsNoted'
    BY DEF Track!HeldIsNoted
  <1>3. Apart'
    BY <1>1 DEF Apart
  <1>4. QED
    BY <1>2, <1>3

\* A call moves on but not past the C library, or holds no block.
LEMMA SameHand ==
  ASSUME NEW t \in Threads,
         \/ /\ Same(call[t], call'[t]) /\ "app" \notin {call[t].pc, call'[t].pc}
            /\ call[t].pc \in {"restore", "note"} <=> call'[t].pc \in {"restore", "note"}
         \/ call'[t].ptr = Null /\ call'[t].hdr = Null
         \/ call'[t].pc = "app"
  PROVE  Track!InHand(t)' \subseteq Track!InHand(t) \cup {Null}
  <1>1. CASE /\ Same(call[t], call'[t]) /\ "app" \notin {call[t].pc, call'[t].pc}
             /\ call[t].pc \in {"restore", "note"} <=> call'[t].pc \in {"restore", "note"}
    <2>1. Track!InHand(t)' = Track!InHand(t)
      BY <1>1 DEF Track!InHand, Same
    <2>2. QED
      BY <2>1
  <1>2. CASE call'[t].ptr = Null /\ call'[t].hdr = Null
    BY <1>2 DEF Track!InHand
  <1>3. CASE call'[t].pc = "app"
    BY <1>3 DEF Track!InHand
  <1>4. QED
    BY <1>1, <1>2, <1>3

\* A call of the C library returns: the blocks in the hands of others are where
\* they were.
LEMMA Returns ==
  ASSUME HookTypeOK, Apart, Track!HeldIsNoted, NEW t \in Threads, call[t].pc \in {"old", "map"},
         call[t].fn \in Track!Hooks \cup {"mmap", "munmap"},
         NEW hdr \in Track!Results(call[t].fn, call[t].ptr),
         mlLive' = Track!Live(call[t].fn, call[t].ptr, hdr),
         NEW pc \in {"restore", "note"}, pc \in Places(call[t].fn),
         Track!Enter(t, [call[t] EXCEPT !.hdr = hdr, !.pc = pc]) \/ Track!Enter(t, Track!Idle),
         UNCHANGED <<mlHeld, tracked, relocated, late>>
  PROVE  mlLive' \subseteq Addrs \cup MapBlocks /\ Calls' /\ Apart' /\ Track!HeldIsNoted'
  <1> DEFINE c == call[t]
  <1>1. FrameOK(c) /\ c.hdr = Null /\ c.pc \notin {"app", "restore", "note"} /\ c.ptr \in HookPtrs
    BY DEF HookTypeOK, FrameOK, Before
  <1>2. Track!InHand(t) = {c.ptr, Null}
    BY <1>1 DEF Track!InHand
  <1>3. c.ptr = Null \/ c.ptr \in mlLive \ mlHeld
    BY <1>2 DEF Apart
  <1>4. /\ hdr \in HookPtrs /\ (hdr \in mlLive => hdr = c.ptr)
        /\ mlLive \ {c.ptr} \subseteq mlLive' /\ mlLive' \subseteq Addrs \cup MapBlocks
        /\ hdr # Null => hdr \in mlLive'
        /\ c.fn = "realloc" /\ hdr = Null => mlLive' = mlLive
    BY <1>1, <1>3, LiveBlocks DEF HookTypeOK
  <1>5. mlHeld \subseteq mlLive \ {c.ptr} /\ hdr \notin mlHeld
    <2>1. mlHeld \subseteq mlLive /\ Null \notin mlLive
      BY HooksAssumption DEF Apart, HookTypeOK
    <2>2. c.ptr \notin mlHeld
      BY <1>3, <2>1
    <2>3. QED
      BY <1>4, <2>1, <2>2
  <1> DEFINE d == [c EXCEPT !.hdr = hdr, !.pc = pc]
  <1>6. d.pc = pc /\ d.hdr = hdr /\ d.fn = c.fn /\ d.ptr = c.ptr /\ d.i = c.i /\ FrameOK(d)
    <2>1. d.pc = pc /\ d.hdr = hdr /\ d.fn = c.fn /\ d.ptr = c.ptr /\ d.i = c.i
      BY <1>1 DEF FrameOK
    <2>2. c.fn \notin {"none", "mtrace", "muntrace"} /\ pc \notin Before
      BY DEF Track!Hooks, Before
    <2>3. QED
      BY <1>1, <1>4, <2>1, <2>2 DEF FrameOK
  <1> HIDE DEF d
  <1>7. Calls' /\ Others(t) /\ (call'[t] = d \/ call'[t] = Track!Idle)
    <2>1. CASE Track!Enter(t, d)
      BY <1>6, <2>1, Frames DEF Calls, Others
    <2>2. CASE Track!Enter(t, Track!Idle)
      BY <2>2, IdleFrame, Frames DEF Calls, Others
    <2>3. QED
      BY <2>1, <2>2 DEF d
  <1>8. Track!InHand(t)' \subseteq {hdr, Null} \cup (IF c.fn = "realloc" /\ hdr = Null THEN {c.ptr} ELSE {})
    <2>1. CASE call'[t] = d
      <3>1. Track!InHand(t)' = IF d.fn # "realloc" \/ d.hdr # Null THEN {d.hdr} ELSE {d.ptr, d.hdr}
        BY <1>6, <2>1 DEF Track!InHand
      <3> HIDE DEF c
      <3>2. QED
        BY <1>6, <3>1
    <2>2. CASE call'[t] = Track!Idle
      BY <2>2, IdleFrame DEF Track!InHand
    <2>3. QED
      BY <1>7, <2>1, <2>2
  <1>9. \A u \in Threads \ {t} : Track!InHand(u)' = Track!InHand(u)
    BY <1>7 DEF Track!InHand, Others
  <1> HIDE DEF c
  <1>10. Track!InHand(t)' \ {Null} \subseteq mlLive' \ mlHeld
    BY <1>3, <1>4, <1>5, <1>8
  <1>11. ASSUME NEW u \in Threads \ {t}
         PROVE  /\ Track!InHand(u)' \ {Null} \subseteq mlLive' \ mlHeld
                /\ Track!InHand(t)' \cap Track!InHand(u)' \subseteq {Null}
    <2>1. Track!InHand(u) \ {Null} \subseteq mlLive \ mlHeld /\ Track!InHand(u) \cap Track!InHand(t) \subseteq {Null}
      BY DEF Apart
    <2>2. QED
      BY <1>2, <1>4, <1>8, <1>9, <2>1
  <1>12. mlHeld' \subseteq mlLive'
    BY <1>4, <1>5
  <1>13. Apart'
    <2>1. \A u \in Threads : Track!InHand(u)' \ {Null} \subseteq mlLive' \ mlHeld'
      BY <1>10, <1>11
    <2>2. \A u \in Threads, v \in Threads : u # v => Track!InHand(u)' \cap Track!InHand(v)' \subseteq {Null}
      BY <1>9, <1>11 DEF Apart
    <2>3. QED
      BY <1>12, <2>1, <2>2 DEF Apart
  <1>14. Track!HeldIsNoted'
    BY DEF Track!HeldIsNoted
  <1>15. QED
    BY <1>4, <1>7, <1>13, <1>14

\* The program calls: what it passes it no longer holds, and no call has it.
LEMMA CallStep ==
  ASSUME IInv, NEW t \in Threads, NEW fn \in Track!Hooks \cup {"mmap", "munmap"},
         NEW ptr \in HookPtrs, Track!Call(t, fn, ptr)
  PROVE  IInv'
  <1>1. /\ call[t].pc = "app" /\ mlHeld' = mlHeld \ {ptr} /\ relocated' = relocated \ {ptr}
        /\ UNCHANGED <<Track!trVars, tracked, late>>
        /\ ptr = Null \/ (ptr \in mlLive /\ \A u \in Threads : ptr \notin Track!InHand(u))
    BY DEF Track!Call, Track!At
  <1>2. Track!HeldIsNoted'
    BY <1>1 DEF IInv, Track!HeldIsNoted
  <1>3. CASE fn \in Track!Hooks /\ mlHook[fn] = "libc"
    <2>1. UNCHANGED <<call, raced>>
      BY <1>3 DEF Track!Call
    <2>2. PICK hdr \in Track!Results(fn, ptr) : mlLive' = Track!Live(fn, ptr, hdr)
      BY <1>3 DEF Track!Call
    <2>3. mlLive \ {ptr} \subseteq mlLive' /\ mlLive' \subseteq Addrs \cup MapBlocks
      BY <1>1, <2>2, LiveBlocks DEF IInv, HookTypeOK
    <2>4. \A u \in Threads : Track!InHand(u)' = Track!InHand(u)
      BY <2>1 DEF Track!InHand
    <2>5. HookTypeOK'
      BY <1>1, <2>1, <2>3 DEF IInv, HookTypeOK, Track!trVars
    <2>6. InOrder'
      BY <1>1, <2>1 DEF IInv, InOrder, Locked, Quiet, StaysOff, On, PutOut, Out, Alone, Track!trVars
    <2>7. Apart'
      BY <1>1, <2>1, <2>3, <2>4 DEF IInv, Apart
    <2>8. QED
      BY <1>2, <2>5, <2>6, <2>7 DEF IInv
  <1>4. CASE ~(fn \in Track!Hooks /\ mlHook[fn] = "libc")
    <2>1. Track!Enter(t, Track!Frame(fn, Track!FirstStep(fn), ptr)) /\ raced' = (raced \/ Track!Ending(t)) /\ UNCHANGED mlLive
      BY <1>4 DEF Track!Call
    <2>2. /\ HookTypeOK' /\ InOrder' /\ Others(t) /\ call'[t].ptr = ptr /\ call'[t].hdr = Null
          /\ call'[t].pc \in {"map", "forget", "lock"}
      BY <1>1, <1>4, <2>1, CallOrder DEF IInv
    <2>3. Track!InHand(t)' = {ptr, Null} /\ \A u \in Threads \ {t} : Track!InHand(u)' = Track!InHand(u)
      BY <2>2 DEF Track!InHand, Others
    <2>4. Apart'
      BY <1>1, <2>1, <2>3 DEF IInv, Apart
    <2>5. QED
      BY <1>2, <2>2, <2>4 DEF IInv
  <1>5. QED
    BY <1>3, <1>4

\* tr_freehook() drops the record of a block in its hands.
LEMMA ForgetStep ==
  ASSUME IInv, NEW t \in Threads, Track!Forget(t)
  PROVE  IInv'
  <1>1. /\ call[t].pc = "forget" /\ tracked' = tracked \ {call[t].ptr}
        /\ UNCHANGED <<mlLive, mlHeld, relocated, late>>
    BY DEF Track!Forget, Track!At
  <1>2. HookTypeOK' /\ InOrder' /\ Others(t) /\ Same(call[t], call'[t]) /\ call'[t].pc = "lock"
    BY ForgetOrder DEF IInv
  <1>3. \A u \in Threads : Track!InHand(u)' = Track!InHand(u)
    BY <1>1, <1>2 DEF Track!InHand, Others, Same
  <1>4. Apart'
    BY <1>1, <1>3 DEF IInv, Apart
  <1>5. call[t].ptr \notin mlHeld
    BY <1>1, HooksAssumption DEF IInv, HookTypeOK, Apart, Track!InHand
  <1>6. Track!HeldIsNoted'
    BY <1>1, <1>5 DEF IInv, Track!HeldIsNoted
  <1>7. QED
    BY <1>2, <1>4, <1>6 DEF IInv

\* Under the lock, the C library is called.
LEMMA CallOldStep ==
  ASSUME IInv, NEW t \in Threads, Track!CallOld(t)
  PROVE  IInv'
  <1>1. UNCHANGED <<mlHeld, tracked, relocated, late>>
    BY DEF Track!CallOld, Track!recorded
  <1>2. /\ Locked' /\ (~raced' => Quiet') /\ Others(t) /\ call[t].pc = "old" /\ call[t].fn \in Track!Hooks
        /\ UNCHANGED <<mlHook, mlOld, capture, raced>>
        /\ \/ call'[t].pc = "relock" /\ Same(call[t], call'[t]) /\ Calls' /\ UNCHANGED mlLive
           \/ \E hdr \in Track!Results(call[t].fn, call[t].ptr) :
                /\ mlLive' = Track!Live(call[t].fn, call[t].ptr, hdr)
                /\ Track!Enter(t, [call[t] EXCEPT !.hdr = hdr, !.pc = "restore"])
    BY CallOldOrder DEF IInv
  <1>3. CASE call'[t].pc = "relock" /\ Same(call[t], call'[t]) /\ Calls' /\ UNCHANGED mlLive
    <2>1. Track!InHand(t)' \subseteq Track!InHand(t) \cup {Null}
      BY <1>2, <1>3, SameHand
    <2>2. Apart' /\ Track!HeldIsNoted'
      BY <1>1, <1>2, <1>3, <2>1, KeepsBlocks DEF IInv
    <2>3. HookTypeOK'
      BY <1>2, <1>3 DEF IInv, HookTypeOK, Calls
    <2>4. QED
      BY <1>2, <2>2, <2>3 DEF IInv, InOrder
  <1>4. CASE \E hdr \in Track!Results(call[t].fn, call[t].ptr) :
               /\ mlLive' = Track!Live(call[t].fn, call[t].ptr, hdr)
               /\ Track!Enter(t, [call[t] EXCEPT !.hdr = hdr, !.pc = "restore"])
    <2>1. "restore" \in Places(call[t].fn)
      BY <1>2 DEF Places, Track!Hooks
    <2>2. mlLive' \subseteq Addrs \cup MapBlocks /\ Calls' /\ Apart' /\ Track!HeldIsNoted'
      BY <1>1, <1>2, <1>4, <2>1, Returns DEF IInv
    <2>3. HookTypeOK'
      BY <1>2, <2>2 DEF IInv, HookTypeOK, Calls
    <2>4. QED
      BY <1>2, <2>2, <2>3 DEF IInv, InOrder
  <1>5. QED
    BY <1>2, <1>3, <1>4

\* mmap() and munmap() go by no hook.
LEMMA MapStep ==
  ASSUME IInv, NEW t \in Threads, Track!Map(t)
  PROVE  IInv'
  <1>1. /\ FrameOK(call[t]) /\ call[t].pc = "map" /\ UNCHANGED <<tracked, mlHeld, relocated, late>>
    BY DEF Track!Map, Track!At, Track!recorded, IInv, HookTypeOK
  <1>2. call[t].fn \in {"mmap", "munmap"}
    BY <1>1 DEF FrameOK, Places, Track!Hooks
  <1>3. "note" \in Places(call[t].fn)
    BY <1>2 DEF Places, Track!Hooks
  <1>4. PICK hdr \in Track!Results(call[t].fn, call[t].ptr) :
          /\ mlLive' = Track!Live(call[t].fn, call[t].ptr, hdr)
          /\ Track!Enter(t, [call[t] EXCEPT !.hdr = hdr, !.pc = "note"]) \/ Track!Enter(t, Track!Idle)
    BY DEF Track!Map
  <1>5. mlLive' \subseteq Addrs \cup MapBlocks /\ Calls' /\ Apart' /\ Track!HeldIsNoted'
    BY <1>1, <1>2, <1>3, <1>4, Returns DEF IInv
  <1>6. HookTypeOK' /\ InOrder'
    BY <1>5, MapOrder DEF IInv
  <1>7. QED
    BY <1>5, <1>6 DEF IInv

\* A block that the program is given is on record now, or has moved; a record
\* that goes while its block is the program's leaves a late block behind.
LEMMA NoteStep ==
  ASSUME IInv, NEW t \in Threads, Track!Note(t)
  PROVE  IInv'
  <1> DEFINE c == call[t]
  <1>1. /\ c.pc = "note"
        /\ tracked' = (tracked \ Track!Gone(c)) \cup Track!New(c) /\ mlHeld' = mlHeld \cup Track!Given(c)
        /\ relocated' = relocated \cup (IF Track!Resized(c) /\ c.hdr # c.ptr THEN {c.hdr} ELSE {})
        /\ late' = (late \ Track!New(c)) \cup (IF c.fn = "munmap" THEN {c.ptr} \cap mlLive ELSE {})
        /\ UNCHANGED mlLive
    BY DEF Track!Note, Track!At
  <1>2. HookTypeOK' /\ InOrder' /\ Others(t) /\ call'[t].pc = "app"
    BY EndOrder DEF IInv
  <1>3. Track!InHand(t)' = {} /\ \A u \in Threads \ {t} : Track!InHand(u)' = Track!InHand(u)
    BY <1>2 DEF Track!InHand, Others
  <1>4. Track!Given(c) \subseteq Track!InHand(t) \ {Null}
    <2>1. CASE Track!Failed(c)
      BY <1>1, <2>1 DEF Track!Given, Track!Failed, Track!InHand
    <2>2. CASE ~Track!Failed(c)
      BY <1>1, <2>2 DEF Track!Given, Track!Failed, Track!InHand
    <2>3. QED
      BY <2>1, <2>2
  <1>5. Track!HeldIsNoted'
    <2>1. ASSUME NEW b \in mlHeld, b \notin relocated, b \notin tracked'
          PROVE  b \in late'
      <3>1. b \in mlLive /\ b \in tracked \cup late /\ b \notin Track!New(c) /\ b \notin Track!InHand(t) \ {Null}
        BY <1>1, <2>1 DEF IInv, Apart, Track!HeldIsNoted
      <3>2. b \in Track!Gone(c) => c.fn = "munmap" /\ b = c.ptr
        <4>1. b # Null
          BY <3>1, HooksAssumption DEF IInv, HookTypeOK
        <4>2. Track!Resized(c) => c.hdr \in Track!InHand(t) \ {Null}
          BY <1>1 DEF Track!Resized, Track!InHand
        <4>3. QED
          BY <3>1, <4>1, <4>2 DEF Track!Gone
      <3>3. QED
        BY <1>1, <2>1, <3>1, <3>2
    <2>2. ASSUME NEW b \in Track!Given(c), b \notin relocated'
          PROVE  b \in tracked'
      <3>1. CASE Track!Failed(c)
        <4>1. Track!Gone(c) = {} /\ b \in tracked
          BY <2>2, <3>1 DEF Track!Failed, Track!Given, Track!Gone, Track!Resized
        <4>2. QED
          BY <1>1, <4>1
      <3>2. CASE ~Track!Failed(c)
        <4>1. c.fn \notin {"free", "munmap"} /\ b = c.hdr
          BY <2>2, <3>2 DEF Track!Given
        <4>2. Track!Resized(c) => c.ptr = c.hdr
          BY <1>1, <2>2, <4>1
        <4>3. b \in Track!New(c)
          BY <3>2, <4>1, <4>2 DEF Track!New
        <4>4. QED
          BY <1>1, <4>3
      <3>3. QED
        BY <3>1, <3>2
    <2>3. QED
      BY <1>1, <2>1, <2>2 DEF Track!HeldIsNoted
  <1> HIDE DEF c
  <1>6. Apart'
    <2>1. mlHeld' \subseteq mlLive'
      BY <1>1, <1>4 DEF IInv, Apart
    <2>2. \A u \in Threads \ {t} : Track!InHand(u)' \ {Null} \subseteq mlLive' \ mlHeld'
      BY <1>1, <1>3, <1>4 DEF IInv, Apart
    <2>3. QED
      BY <1>3, <2>1, <2>2 DEF IInv, Apart
  <1>7. QED
    BY <1>2, <1>5, <1>6 DEF IInv

\* The lock, the stores of the hooks and the switch touch no block.
LEMMA SwitchStep ==
  ASSUME IInv, NEW t \in Threads,
         \/ Track!Lock(t) \/ Track!Swap(t) \/ Track!Restore(t) \/ Track!MtraceCall(t) \/ Track!Install(t)
         \/ Track!SwitchOn(t) \/ Track!Muntrace(t) \/ Track!Unhook(t) \/ Track!SwitchOff(t) \/ Track!Report(t)
  PROVE  IInv'
  <1>1. UNCHANGED <<mlLive, tracked, mlHeld, relocated, late>>
    BY DEF Track!Lock, Track!Swap, Track!Restore, Track!MtraceCall, Track!Install, Track!SwitchOn, Track!Muntrace, Track!Unhook, Track!SwitchOff, Track!Report, Track!recorded
  <1>2. HookTypeOK' /\ InOrder' /\ Others(t)
    BY LockOrder, SwapOrder, RestoreOrder, MtraceCallOrder, InstallOrder, SwitchOnOrder, SwitchOffOrder,
       EndOrder DEF IInv
  <1>3. FrameOK(call[t]) /\ FrameOK(call'[t])
    BY <1>2 DEF IInv, HookTypeOK, FrameOK
  <1>4. Track!InHand(t)' \subseteq Track!InHand(t) \cup {Null}
    <2>1. CASE Track!Lock(t)
      <3>1. call[t].pc = "lock" /\ Same(call[t], call'[t]) /\ call'[t].pc \in {"install", "swap"}
        BY <2>1, LockOrder DEF IInv, Track!Lock, Track!At
      <3>2. QED
        BY <3>1, SameHand
    <2>2. CASE Track!Swap(t)
      <3>1. call[t].pc = "swap" /\ Same(call[t], call'[t]) /\ call'[t].pc \in {"swap", "old", "unhook", "off"}
        BY <2>2, SwapOrder DEF IInv, Track!Swap, Track!At
      <3>2. QED
        BY <3>1, SameHand
    <2>3. CASE Track!Unhook(t)
      <3>1. call[t].pc = "unhook" /\ Same(call[t], call'[t]) /\ call'[t].pc \in {"swap", "old", "unhook", "off"}
        BY <2>3, SwapOrder DEF IInv, Track!Unhook, Track!At
      <3>2. QED
        BY <3>1, SameHand
    <2>4. CASE Track!Restore(t)
      <3>1. call[t].pc = "restore" /\ Same(call[t], call'[t]) /\ call'[t].pc \in {"restore", "note"}
        BY <2>4, RestoreOrder DEF IInv
      <3>2. QED
        BY <3>1, SameHand
    <2>5. CASE Track!MtraceCall(t) \/ Track!Muntrace(t) \/ Track!Install(t) \/ Track!SwitchOff(t)
      <3>1. call'[t].fn \in {"mtrace", "muntrace"}
        BY <2>5, MtraceCallOrder, InstallOrder, SwitchOffOrder DEF IInv
      <3>2. QED
        BY <1>3, <3>1, SameHand DEF FrameOK
    <2>6. CASE Track!SwitchOn(t) \/ Track!Report(t)
      <3>1. call'[t].pc = "app"
        BY <2>6, SwitchOnOrder, EndOrder DEF IInv
      <3>2. QED
        BY <3>1, SameHand
    <2>7. QED
      BY <2>1, <2>2, <2>3, <2>4, <2>5, <2>6
  <1>5. Apart' /\ Track!HeldIsNoted'
    BY <1>1, <1>2, <1>4, KeepsBlocks DEF IInv
  <1>6. QED
    BY <1>2, <1>5 DEF IInv

\* Every step keeps the inductive invariant.
LEMMA StepInv == IInv /\ [Track!Next]_(Track!vars) => IInv'
  <1> SUFFICES ASSUME IInv, [Track!Next]_(Track!vars) PROVE IInv'
    OBVIOUS
  <1>1. CASE Track!Stopped \/ UNCHANGED Track!vars
    <2>1. UNCHANGED <<mlHook, mlOld, capture, mlLock, raced, mlLive, call, mlHeld, tracked, relocated, late>>
      BY <1>1 DEF Track!Stopped, Track!vars, Track!trVars, Track!recorded
    <2>2. HookTypeOK' /\ Track!HeldIsNoted'
      BY <2>1 DEF IInv, HookTypeOK, Track!HeldIsNoted
    <2>3. InOrder'
      BY <2>1 DEF IInv, InOrder, Locked, Quiet, StaysOff, On, PutOut, Out, Alone
    <2>4. Apart'
      BY <2>1 DEF IInv, Apart, Track!InHand
    <2>5. QED
      BY <2>2, <2>3, <2>4 DEF IInv
  <1>2. ASSUME NEW t \in Threads, NEW fn \in Track!Hooks \cup {"mmap", "munmap"},
               NEW ptr \in Addrs \cup MapBlocks \cup {Null}, Track!Call(t, fn, ptr)
        PROVE  IInv'
    BY <1>2, CallStep DEF HookPtrs
  <1>3. ASSUME NEW t \in Threads, Track!Forget(t) \/ Track!CallOld(t) \/ Track!Map(t) \/ Track!Note(t)
        PROVE  IInv'
    BY <1>3, ForgetStep, CallOldStep, MapStep, NoteStep
  <1>4. ASSUME NEW t \in Threads,
               \/ Track!Lock(t) \/ Track!Swap(t) \/ Track!Restore(t) \/ Track!MtraceCall(t) \/ Track!Install(t)
               \/ Track!SwitchOn(t) \/ Track!Muntrace(t) \/ Track!Unhook(t) \/ Track!SwitchOff(t) \/ Track!Report(t)
        PROVE  IInv'
    BY <1>4, SwitchStep
  <1>5. QED
    BY <1>1, <1>2, <1>3, <1>4 DEF Track!Next

LEMMA Invariance == Track!Spec => []IInv
  <1>1. Track!Init => IInv
    BY InitInv
  <1>2. IInv /\ [Track!Next]_(Track!vars) => IInv'
    BY StepInv
  <1>3. QED
    BY <1>1, <1>2, PTL DEF Track!Spec

\* As long as the first mtrace() is one thread's and nothing overlaps muntrace(),
\* no thread waits for the lock it has, whatever the order of the stores to the
\* hooks, however many threads there are and however often tracing is switched.
THEOREM HooksNeverRelock == Track!Spec => []NeverRelocks
  <1>1. IInv => Track!NeverRelocks
    BY DEF IInv, InOrder, Quiet, PutOut, Track!NeverRelocks, Track!At
  <1>2. QED
    BY <1>1, Invariance, PTL DEF NeverRelocks

\* A block that the program was given under the hooks and has not given back is
\* on record, unless realloc() moved it or a munmap() noted late took its record.
THEOREM HeldOnRecord == Track!Spec => []HeldIsNoted
  <1>1. IInv => Track!HeldIsNoted
    BY DEF IInv
  <1>2. QED
    BY <1>1, Invariance, PTL DEF HeldIsNoted
================================================================================
