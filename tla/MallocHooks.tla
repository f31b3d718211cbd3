----------------------------- MODULE MallocHooks -----------------------------
(***************************************************************************)
(* libmemleak's front end of glibc's malloc hooks (mtrace_hooks.cpp):      *)
(* mtrace() puts the library's functions into __malloc_hook and the        *)
(* others, muntrace() takes them out, and each of them takes itself out    *)
(* while it calls what was there before.  Any thread calls any of them.    *)
(***************************************************************************)
EXTENDS Naturals, Sequences

CONSTANTS
  Threads,
  HeapBlocks,   \* addresses malloc() may return
  MapBlocks,    \* addresses mmap() may return
  Null,         \* nullptr, and MAP_FAILED
  NoThread,
  MaxCalls      \* bound: how many calls the program makes

VARIABLES
  hook,      \* __free_hook, ...: "libc" or "tr", the library's function
  old,       \* _tr_old_free_hook, ...
  capture,   \* _capture_on
  lock,      \* _hooks_lock: its holder
  live,      \* blocks the C library has given out
  tracked,   \* blocks the tracker has on record
  call,      \* each thread's call
  held,      \* history: blocks the program has whose allocation was recorded
  relocated, \* history: those that realloc() has moved
  late,      \* history: blocks whose record went after they were given out again
  raced,     \* history: two first mtrace() calls overlapped, or muntrace() and another call
  calls

trVars == <<hook, old, capture, lock>>
recorded == <<tracked, held, relocated, late>>
vars == <<trVars, live, recorded, call, raced, calls>>

Hooks == {"free", "malloc", "realloc", "memalign"}
Blocks(fn) == IF fn \in Hooks THEN HeapBlocks ELSE MapBlocks

\* The hooks each hook puts aside while it calls the old one, and those that
\* mtrace() and muntrace() set, in their order.
Swapped(fn) ==
  CASE fn = "realloc"  -> <<"free", "malloc", "realloc">>
    [] fn = "memalign" -> <<"memalign", "malloc">>
    [] fn \in {"mtrace", "muntrace"} -> <<"free", "malloc", "realloc", "memalign">>
    [] OTHER           -> <<fn>>

\* Those that the C library's function may go by.
Within(fn) ==
  CASE fn = "realloc"  -> {"free", "malloc"}
    [] fn = "memalign" -> {"malloc"}
    [] OTHER           -> {}

\* A call: where it is, the function, what it was passed and what it got, and
\* which hook is next.
Frame(fn, pc, ptr) == [pc |-> pc, fn |-> fn, ptr |-> ptr, hdr |-> Null, i |-> 1]
Idle == Frame("none", "app", Null)

Init ==
  /\ hook = [h \in Hooks |-> "libc"] /\ old = hook
  /\ capture = FALSE /\ lock = NoThread
  /\ live = {} /\ tracked = {} /\ held = {} /\ relocated = {} /\ late = {}
  /\ call = [t \in Threads |-> Idle]
  /\ raced = FALSE /\ calls = 0

At(t, pc) == call[t].pc = pc
Enter(t, frame) == call' = [call EXCEPT ![t] = frame]
Goto(t, pc) == Enter(t, [call[t] EXCEPT !.pc = pc, !.i = 1])
Return(t) == Enter(t, Idle)

\* The hook a thread is at, and the next one; the last leads on to pc.
This(t) == Swapped(call[t].fn)[call[t].i]
NextHook(t, pc) ==
  IF call[t].i < Len(Swapped(call[t].fn)) THEN Enter(t, [call[t] EXCEPT !.i = @ + 1]) ELSE Goto(t, pc)

\* Another thread is switching tracing off, or is in a call that the tracker
\* sees, whose own allocations go by the hooks as well.
Ending(t) == \E u \in Threads \ {t} : call[u].pc \in {"unhook", "off"}
Busy(t) == \E u \in Threads \ {t} : call[u].fn \notin {"none", "muntrace"}

-----------------------------------------------------------------------------
(***************************************************************************)
(* The program calls; what the C library and the tracker do.               *)
(***************************************************************************)

\* What a call may return: a new block or a failure, and realloc() may stay in
\* place.
Results(fn, ptr) ==
  CASE fn \in {"free", "munmap"} -> {Null}
    [] fn = "realloc"            -> (HeapBlocks \ live) \cup {Null, ptr}
    [] OTHER                     -> (Blocks(fn) \ live) \cup {Null}

Live(fn, ptr, hdr) ==
  IF fn = "realloc" /\ hdr = Null THEN live ELSE (live \ {ptr}) \cup ({hdr} \ {Null})

\* Where a hook, or mmap(), starts: the record of a freed block goes first.
FirstStep(fn) ==
  CASE fn \in {"mmap", "munmap"} -> "map"
    [] fn = "free"               -> "forget"
    [] OTHER                     -> "lock"

\* The blocks of a thread's call, which the program does not use meanwhile: what
\* it passed, until the C library has it back, and what it will be given.
InHand(t) ==
  LET c == call[t] IN
  IF c.pc = "app" THEN {}
  ELSE IF c.pc \in {"restore", "note"} /\ (c.fn # "realloc" \/ c.hdr # Null) THEN {c.hdr}
  ELSE {c.ptr, c.hdr}

\* malloc() and the others go by their hook; free(nullptr) does nothing there.
\* One whose hook is out may go by another's, as if the program had called that.
Call(t, fn, ptr) ==
  /\ At(t, "app") /\ calls < MaxCalls /\ calls' = calls + 1
  /\ \/ fn \in {"free", "realloc", "munmap"} /\ ptr \in live \cap Blocks(fn)
     \/ fn \notin {"free", "munmap"} /\ ptr = Null
  /\ \A u \in Threads : ptr # Null => ptr \notin InHand(u)
  /\ held' = held \ {ptr} /\ relocated' = relocated \ {ptr}
  /\ IF fn \in Hooks /\ hook[fn] = "libc"
     THEN /\ \E hdr \in Results(fn, ptr) : live' = Live(fn, ptr, hdr)
          /\ UNCHANGED <<call, raced>>
     ELSE /\ Enter(t, Frame(fn, FirstStep(fn), ptr))
          /\ raced' = (raced \/ Ending(t))
          /\ UNCHANGED live
  /\ UNCHANGED <<trVars, tracked, late>>

\* tr_freehook()'s libmemleak::free()
Forget(t) ==
  /\ At(t, "forget")
  /\ tracked' = tracked \ {call[t].ptr}
  /\ Goto(t, "lock")
  /\ UNCHANGED <<trVars, live, held, relocated, late, raced, calls>>

Lock(t) ==
  /\ At(t, "lock") /\ lock = NoThread
  /\ lock' = t
  /\ Goto(t, IF call[t].fn = "mtrace" THEN "install" ELSE "swap")
  /\ UNCHANGED <<hook, old, capture, live, recorded, raced, calls>>

\* __free_hook = _tr_old_free_hook; ...
Swap(t) ==
  /\ At(t, "swap")
  /\ hook' = [hook EXCEPT ![This(t)] = old[This(t)]]
  /\ NextHook(t, "old")
  /\ UNCHANGED <<old, capture, lock, live, recorded, raced, calls>>

\* The old hook is called, or the C library's function, which goes by the hooks
\* that are set now.  One of the library's own would wait for the lock its thread
\* has.
CallOld(t) ==
  LET c == call[t] IN
  /\ At(t, "old")
  /\ \/ /\ old[c.fn] = "tr" \/ \E h \in Within(c.fn) \cup {c.fn} : hook[h] = "tr"
        /\ Goto(t, "relock")
        /\ UNCHANGED live
     \/ /\ old[c.fn] = "libc" /\ hook[c.fn] = "libc"
        /\ \E hdr \in Results(c.fn, c.ptr) :
             /\ live' = Live(c.fn, c.ptr, hdr)
             /\ Enter(t, [c EXCEPT !.hdr = hdr, !.pc = "restore"])
  /\ UNCHANGED <<trVars, recorded, raced, calls>>

\* __free_hook = tr_freehook; ..., and the end of the lock's scope.
Restore(t) ==
  /\ At(t, "restore")
  /\ hook' = [hook EXCEPT ![This(t)] = "tr"]
  /\ NextHook(t, "note")
  /\ lock' = IF call[t].i < Len(Swapped(call[t].fn)) THEN lock ELSE NoThread
  /\ UNCHANGED <<old, capture, live, recorded, raced, calls>>

\* mmap() and munmap() call the C library's before anything else.
Map(t) ==
  LET c == call[t] IN
  /\ At(t, "map")
  /\ \E hdr \in Results(c.fn, c.ptr) :
       /\ live' = Live(c.fn, c.ptr, hdr)
       /\ Enter(t, IF capture THEN [c EXCEPT !.hdr = hdr, !.pc = "note"] ELSE Idle)
  /\ UNCHANGED <<trVars, recorded, raced, calls>>

\* realloc() of a block, and one that succeeds or fails.
Resized(c) == c.fn = "realloc" /\ Null \notin {c.ptr, c.hdr}
Failed(c) == c.fn = "realloc" /\ c.hdr = Null

\* Mutant: tr_freehook() drops the record when the block has gone.
GoneAfter(c) ==
  CASE c.fn \in {"free", "munmap"} -> {c.ptr} [] Resized(c) -> {c.hdr} [] OTHER -> {}

\* The record a call drops and the one it then makes.  libmemleak::realloc()
\* takes the new block first and is passed the old one first: it is a free() of
\* the new block and an alloc() of the old one.  A failed realloc() is only
\* reported; another failure is recorded as a block.
Gone(c) == CASE c.fn = "munmap" -> {c.ptr} [] Resized(c) -> {c.hdr} [] OTHER -> {}
New(c) ==
  CASE c.fn \in {"free", "munmap"} \/ Failed(c) -> {}
    [] Resized(c)                             -> {c.ptr}
    [] OTHER                                  -> {c.hdr}

\* What the program has afterwards: a failed realloc() leaves it its block.
Given(c) ==
  CASE c.fn \in {"free", "munmap"} -> {}
    [] Failed(c)                   -> ({c.ptr} \cap tracked) \ {Null}
    [] OTHER                       -> {c.hdr} \ {Null}

Note(t) ==
  LET c == call[t] IN
  /\ At(t, "note")
  /\ tracked' = (tracked \ Gone(c)) \cup New(c)
  /\ held' = held \cup Given(c)
  /\ relocated' = relocated \cup (IF Resized(c) /\ c.hdr # c.ptr THEN {c.hdr} ELSE {})
  /\ late' = (late \ New(c)) \cup (IF c.fn = "munmap" THEN {c.ptr} \cap live ELSE {})
  /\ Return(t)
  /\ UNCHANGED <<trVars, live, raced, calls>>

-----------------------------------------------------------------------------
(***************************************************************************)
(* mtrace() and muntrace().                                                *)
(***************************************************************************)

\* Mutant: mtrace() does not test _capture_on.
TestNot == "lock"

\* While it is on, mtrace() reports.
Test == IF capture THEN "report" ELSE "lock"

MtraceCall(t) ==
  /\ At(t, "app") /\ calls < MaxCalls /\ calls' = calls + 1
  /\ Enter(t, Frame("mtrace", Test, Null))
  /\ raced' = (raced \/ Ending(t) \/
                 (~capture /\ \E u \in Threads : call[u].fn = "mtrace" /\ ~At(u, "report")))
  /\ UNCHANGED <<trVars, live, recorded>>

\* _tr_old_free_hook = __free_hook; __free_hook = tr_freehook; ...
Install(t) ==
  /\ At(t, "install")
  /\ old' = [old EXCEPT ![This(t)] = hook[This(t)]]
  /\ hook' = [hook EXCEPT ![This(t)] = "tr"]
  /\ NextHook(t, "capture")
  /\ UNCHANGED <<capture, lock, live, recorded, raced, calls>>

\* _capture_on = true, and the end of the lock's scope.
SwitchOn(t) ==
  /\ At(t, "capture")
  /\ capture' = TRUE /\ lock' = NoThread
  /\ Return(t)
  /\ UNCHANGED <<hook, old, live, recorded, raced, calls>>

\* muntrace() waits for nobody.
Muntrace(t) ==
  /\ At(t, "app") /\ calls < MaxCalls /\ calls' = calls + 1
  /\ Enter(t, Frame("muntrace", "unhook", Null))
  /\ raced' = (raced \/ Busy(t))
  /\ UNCHANGED <<trVars, live, recorded>>

\* __free_hook = _tr_old_free_hook; ...
Unhook(t) ==
  /\ At(t, "unhook")
  /\ hook' = [hook EXCEPT ![This(t)] = old[This(t)]]
  /\ NextHook(t, "off")
  /\ UNCHANGED <<old, capture, lock, live, recorded, raced, calls>>

SwitchOff(t) ==
  /\ At(t, "off")
  /\ capture' = FALSE
  /\ Goto(t, "report")
  /\ UNCHANGED <<hook, old, lock, live, recorded, raced, calls>>

\* libmemleak::report(), which changes no record.
Report(t) ==
  /\ At(t, "report")
  /\ Return(t)
  /\ UNCHANGED <<trVars, live, recorded, raced, calls>>

\* The program's calls are used up, or a thread waits for itself.
Stopped ==
  /\ \/ calls = MaxCalls /\ \A t \in Threads : At(t, "app")
     \/ \E t \in Threads : At(t, "relock")
  /\ UNCHANGED vars

Next ==
  \/ \E t \in Threads :
       \/ \E fn \in Hooks \cup {"mmap", "munmap"}, ptr \in HeapBlocks \cup MapBlocks \cup {Null} : Call(t, fn, ptr)
       \/ Forget(t) \/ Lock(t) \/ Swap(t) \/ CallOld(t) \/ Restore(t) \/ Map(t) \/ Note(t)
       \/ MtraceCall(t) \/ Install(t) \/ SwitchOn(t)
       \/ Muntrace(t) \/ Unhook(t) \/ SwitchOff(t) \/ Report(t)
  \/ Stopped

Spec == Init /\ [][Next]_vars
-----------------------------------------------------------------------------

\* No hook calls itself and waits for the lock it holds, through the hook it
\* saved or through the C library, however the stores of the hooks interleave,
\* unless two threads made the first mtrace() call at once or muntrace() and
\* another thread's call overlapped.
NeverRelocks == (\E t \in Threads : At(t, "relock")) => raced

\* A block the program was given under the hooks is on record until it is given
\* back, though another thread is given its address at once: but for the blocks
\* that realloc() moved, only a munmap() noted after its mapping was given out
\* again takes the record of another's block.
HeldIsNoted == held \ relocated \subseteq tracked \cup late

\* "libmemleak::realloc(ptr/*old*/, hdr/*new*/, size)": so is a block that
\* realloc() moved.
MovedIsNoted == held \subseteq tracked \cup late
==============================================================================
