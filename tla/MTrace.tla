-------------------------------- MODULE MTrace --------------------------------
(***************************************************************************)
(* libmtrace (libmtrace/mtrace.cpp): an mtrace(3) that writes a line and a *)
(* call stack for every block, through glibc's malloc hooks.  A hook does  *)
(* what the program asked for by putting glibc's own function back for as  *)
(* long as it calls it, under _hooks_lock; the hooks are globals, so that  *)
(* other threads' calls go by untraced in the meantime.                    *)
(*                                                                         *)
(* A thread is a stack of calls, frames[t], the last one running: tracing  *)
(* allocates, and so enters the hooks again.  The program's own code is    *)
(* the empty stack.                                                        *)
(***************************************************************************)
EXTENDS Integers, FiniteSets, Sequences, SequencesExt

CONSTANTS
  Threads,    \* the threads of the traced program
  Addrs,      \* addresses libc may hand out
  Null,       \* nullptr
  Own,        \* any block of the tracer itself
  NoThread,   \* the mutex is free
  AppCalls,   \* which library calls the program makes
  LibcFails,  \* whether libc's calls may fail
  Restarts,   \* whether the program calls mtrace() while or after muntrace() runs
  MaxCalls    \* bound: how many library calls the program makes

ASSUME ConstantsAssumption ==
  /\ Null \notin Addrs /\ Own \notin Addrs /\ Null # Own
  /\ NoThread \notin Threads
  /\ LibcFails \in BOOLEAN /\ Restarts \in BOOLEAN
  /\ MaxCalls \in Nat

VARIABLES
  hook,       \* __free_hook ...: "libc" (nullptr) or "trace" (tr_freehook ...)
  old,        \* _tr_old_free_hook ...
  lock,       \* _hooks_lock: its holder
  inTrace,    \* _in_trace of each thread
  stream,     \* _mallstream: "none", "open", "closed" or "destroyed"
  live,       \* libc: addresses of the program's blocks now allocated
  held,       \* the program: addresses it was handed and may still free
  marked,     \* the trace: addresses whose last line is an allocation
  printed,    \* blocks whose allocation has been printed
  missed,     \* marked addresses released by calls that print no release
  ended,      \* muntrace() has closed the trace
  proc,       \* the process: "running" or "crashed"
  frames,     \* the library calls each thread is in
  calls       \* library calls the program has made

heapVars  == <<live, held, printed, missed>>
traceVars == <<stream, marked, ended>>
vars == <<hook, old, lock, inTrace, traceVars, heapVars, proc, frames, calls>>

-----------------------------------------------------------------------------

AllHooks == <<"free", "malloc", "realloc", "memalign">>

\* The hooks a function swaps or sets, in its order.
Swapped(fn) ==
  CASE fn \in {"free", "malloc"} -> <<fn>>
    [] fn = "realloc"  -> <<"free", "malloc", "realloc">>
    [] fn = "memalign" -> <<"memalign", "malloc">>
    [] fn \in {"mtrace", "muntrace"} -> AllHooks

\* A call: the function, where it is, its arguments (zero: realloc()'s size is
\* 0), what libc returned, what the program holds afterwards, and which hook is
\* next.
Frame(fn, pc, ptr, zero) ==
  [fn |-> fn, pc |-> pc, ptr |-> ptr, zero |-> zero, hdr |-> Null, owned |-> Null, i |-> 1]

\* tr_freehook() traces first, the others call libc first.
Hook(fn, ptr, zero) == Frame(fn, IF fn = "free" THEN "guard" ELSE "lock", ptr, zero)

Init ==
  /\ hook = [h \in ToSet(AllHooks) |-> "libc"]
  /\ old = [h \in ToSet(AllHooks) |-> "libc"]
  /\ lock = NoThread
  /\ inTrace = [t \in Threads |-> FALSE]
  /\ stream = "none" /\ ended = FALSE
  /\ live = {} /\ held = {} /\ marked = {} /\ printed = {} /\ missed = {}
  /\ proc = "running"
  /\ frames = [t \in Threads |-> << >>]
  /\ calls = 0

Top(t) == Last(frames[t])
In(t, pc) == proc = "running" /\ frames[t] # << >> /\ Top(t).pc = pc

Push(t, frame)   == frames' = [frames EXCEPT ![t] = Append(@, frame)]
SetTop(t, frame) == frames' = [frames EXCEPT ![t] = Append(Front(@), frame)]
Goto(t, pc)      == SetTop(t, [Top(t) EXCEPT !.pc = pc, !.i = 1])
Pop(t)           == frames' = [frames EXCEPT ![t] = Front(@)]

\* The call returns: to the program, which then holds the block, or to the
\* tracer's code.
Return(t) == Pop(t) /\ held' = held \cup ({Top(t).owned} \cap Addrs)

\* One more hook is done; the last one leads on to pc.
NextHook(t, pc) ==
  IF Top(t).i < Len(Swapped(Top(t).fn))
  THEN SetTop(t, [Top(t) EXCEPT !.i = @ + 1])
  ELSE Goto(t, pc)

-----------------------------------------------------------------------------
(***************************************************************************)
(* libc.                                                                   *)
(***************************************************************************)

\* What a call may return ...
Results(fn, ptr, zero) ==
  IF ptr = Own THEN {Own}
  ELSE IF fn = "free" \/ zero THEN {Null}
  ELSE (Addrs \ live) \cup (IF fn = "realloc" THEN {ptr} \ {Null} ELSE {})
         \cup (IF LibcFails \/ Addrs \subseteq live THEN {Null} ELSE {})

\* ... and the block it releases: the one freed, or the one moved or given up
\* by realloc().
Released(fn, ptr, zero, hdr) ==
  IF fn = "free" \/ (fn = "realloc" /\ (zero \/ hdr \notin {Null, ptr}))
  THEN {ptr} \cap Addrs ELSE {}

\* What the program holds when the call returns: a failed realloc() leaves it
\* the block it had.
Owned(fn, ptr, zero, hdr) ==
  IF fn = "realloc" /\ hdr = Null /\ ~zero THEN ptr ELSE hdr

LibcDoes(fn, ptr, zero, hdr) ==
  LET released == Released(fn, ptr, zero, hdr) IN
  /\ hdr \in Results(fn, ptr, zero)
  /\ live' = (live \ released) \cup ({hdr} \cap Addrs)
  /\ printed' = printed \ released

\* The program calls one of libc's functions: the hook, if there is one, or the
\* function itself, which prints nothing.
Enter(t, fn, ptr, zero) ==
  \/ /\ hook[fn] = "trace"
     /\ Push(t, Hook(fn, ptr, zero))
     /\ held' = held \ {ptr}
     /\ UNCHANGED <<live, printed, missed>>
  \/ /\ hook[fn] = "libc"
     /\ \E hdr \in Results(fn, ptr, zero) :
          /\ LibcDoes(fn, ptr, zero, hdr)
          /\ missed' = missed \cup (Released(fn, ptr, zero, hdr) \cap marked)
          /\ held' = (held \ {ptr}) \cup ({Owned(fn, ptr, zero, hdr)} \cap Addrs)
     /\ UNCHANGED frames

Calling(t, name) ==
  /\ proc = "running" /\ frames[t] = << >>
  /\ name \in AppCalls
  /\ calls < MaxCalls
  /\ calls' = calls + 1

Malloc(t) ==
  /\ Calling(t, "malloc")
  /\ Enter(t, "malloc", Null, FALSE)
  /\ UNCHANGED <<hook, old, lock, inTrace, traceVars, proc>>

Memalign(t) ==
  /\ Calling(t, "memalign")
  /\ Enter(t, "memalign", Null, FALSE)
  /\ UNCHANGED <<hook, old, lock, inTrace, traceVars, proc>>

Free(t) ==
  /\ Calling(t, "free")
  /\ \E ptr \in held : Enter(t, "free", ptr, FALSE)
  /\ UNCHANGED <<hook, old, lock, inTrace, traceVars, proc>>

Realloc(t) ==
  /\ Calling(t, "realloc")
  /\ \E ptr \in held \cup {Null}, zero \in BOOLEAN :
       /\ zero => ptr # Null
       /\ Enter(t, "realloc", ptr, zero)
  /\ UNCHANGED <<hook, old, lock, inTrace, traceVars, proc>>

\* Where the tracer's own code allocates and frees: while a line is written and
\* a stack is resolved, and where the stream is made, closed and deleted.
Nesting == {"mark", "mark_new", "dump", "open", "closing", "deleting"}

Nested(t) ==
  /\ \E pc \in Nesting : In(t, pc)
  /\ \E fn \in {"malloc", "free"} :
       /\ Top(t).pc \in {"closing", "deleting"} => fn = "free"
       /\ hook[fn] = "trace"
       /\ Push(t, Hook(fn, Own, FALSE))
  /\ UNCHANGED <<hook, old, lock, inTrace, traceVars, heapVars, proc, calls>>

-----------------------------------------------------------------------------
(***************************************************************************)
(* The hooks.                                                              *)
(***************************************************************************)

Lock(t) ==
  /\ In(t, "lock")
  /\ lock = NoThread
  /\ lock' = t
  /\ Goto(t, IF Top(t).fn = "mtrace" THEN "mtrace" ELSE "swap")
  /\ UNCHANGED <<hook, old, inTrace, traceVars, heapVars, proc, calls>>

\* Mutant: the old hook is called and not put back.
SwapNothing(t) ==
  /\ In(t, "swap")
  /\ NextHook(t, "call")
  /\ UNCHANGED <<hook, old, lock, inTrace, traceVars, heapVars, proc, calls>>

\* __free_hook = _tr_old_free_hook, ...
Swap(t) ==
  /\ In(t, "swap")
  /\ LET h == Swapped(Top(t).fn)[Top(t).i] IN hook' = [hook EXCEPT ![h] = old[h]]
  /\ NextHook(t, "call")
  /\ UNCHANGED <<old, lock, inTrace, traceVars, heapVars, proc, calls>>

\* The old hook, or libc's function, which looks at the hook that is set now.
\* Either is this hook again when it has been saved as its own old hook.
Call(t) ==
  /\ In(t, "call")
  /\ LET f == Top(t) IN
     \/ /\ old[f.fn] = "trace" \/ hook[f.fn] = "trace"
        /\ Push(t, Hook(f.fn, f.ptr, f.zero))
        /\ UNCHANGED <<live, printed, missed>>
     \/ /\ old[f.fn] = "libc" /\ hook[f.fn] = "libc"
        /\ \E hdr \in Results(f.fn, f.ptr, f.zero) :
             /\ LibcDoes(f.fn, f.ptr, f.zero, hdr)
             /\ missed' = missed \cup (IF f.zero THEN {f.ptr} \cap marked ELSE {})
             /\ SetTop(t, [f EXCEPT !.pc = "restore", !.hdr = hdr,
                                    !.owned = Owned(f.fn, f.ptr, f.zero, hdr)])
  /\ UNCHANGED <<hook, old, lock, inTrace, traceVars, held, proc, calls>>

\* Mutant: a hook sets itself only.
RestoreItself(t) ==
  /\ In(t, "restore")
  /\ hook' = [hook EXCEPT ![Top(t).fn] = "trace"]
  /\ Goto(t, "unlock")
  /\ UNCHANGED <<old, lock, inTrace, traceVars, heapVars, proc, calls>>

\* __free_hook = tr_freehook, ...
Restore(t) ==
  /\ In(t, "restore")
  /\ hook' = [hook EXCEPT ![Swapped(Top(t).fn)[Top(t).i]] = "trace"]
  /\ NextHook(t, "unlock")
  /\ UNCHANGED <<old, lock, inTrace, traceVars, heapVars, proc, calls>>

\* free() and mtrace() are done, the other hooks trace.
Unlock(t) ==
  /\ In(t, "unlock")
  /\ lock' = NoThread
  /\ IF Top(t).fn \in {"free", "mtrace"}
     THEN Return(t)
     ELSE Goto(t, "guard") /\ UNCHANGED held
  /\ UNCHANGED <<hook, old, inTrace, traceVars, live, printed, missed, proc, calls>>

\* After the trace: free() calls libc, the other hooks return.
Traced(t) ==
  IF Top(t).fn = "free" THEN Goto(t, "lock") /\ UNCHANGED held ELSE Return(t)

\* The compare-and-swap of _in_trace: the tracer's own calls are not traced.
Guard(t) ==
  /\ In(t, "guard")
  /\ IF inTrace[t]
     THEN Traced(t)
     ELSE Goto(t, "mark") /\ UNCHANGED held
  /\ inTrace' = [inTrace EXCEPT ![t] = TRUE]
  /\ UNCHANGED <<hook, old, lock, traceVars, live, printed, missed, proc, calls>>

\* A line of the trace: the addresses it says are allocated and released.  A
\* stream that is not there ends the process, one that is destroyed may.
Write(allocated, released) ==
  IF stream = "open"
  THEN /\ marked' = (marked \ released) \cup (allocated \cap Addrs)
       /\ printed' = printed \cup (allocated \cap Addrs)
       /\ missed' = missed \ (allocated \cup released)
       /\ UNCHANGED proc
  ELSE /\ proc' \in CASE stream = "none" -> {"crashed"}
                      [] stream = "destroyed" -> {"running", "crashed"}
                      [] stream = "closed" -> {"running"}
       /\ UNCHANGED <<marked, printed, missed>>

\* Mutant: realloc() prints the new block only.
MarkNewOnly(t) ==
  /\ In(t, "mark")
  /\ LET f == Top(t) IN
       Write(IF f.fn = "free" THEN {} ELSE {f.hdr}, IF f.fn = "free" THEN {f.ptr} ELSE {})
  /\ Goto(t, "dump")
  /\ UNCHANGED <<hook, old, lock, inTrace, stream, ended, live, held, calls>>

\* "-", "+", or for realloc() "!", "+" or "<", which ">" follows.
Mark(t) ==
  /\ In(t, "mark")
  /\ LET f == Top(t)
         moved == f.fn = "realloc" /\ f.hdr # Null /\ f.ptr # Null
     IN  /\ Write(IF f.fn = "free" \/ moved THEN {} ELSE {f.hdr},
                  IF f.fn = "free" \/ moved THEN {f.ptr} ELSE {})
         /\ Goto(t, IF moved THEN "mark_new" ELSE "dump")
  /\ UNCHANGED <<hook, old, lock, inTrace, stream, ended, live, held, calls>>

MarkNew(t) ==
  /\ In(t, "mark_new")
  /\ Write({Top(t).hdr}, {})
  /\ Goto(t, "dump")
  /\ UNCHANGED <<hook, old, lock, inTrace, stream, ended, live, held, calls>>

\* The call stack, and _in_trace is reset.
Dump(t) ==
  /\ In(t, "dump")
  /\ Write({}, {})
  /\ inTrace' = [inTrace EXCEPT ![t] = FALSE]
  /\ Traced(t)
  /\ UNCHANGED <<hook, old, lock, stream, ended, live, calls>>

-----------------------------------------------------------------------------
(***************************************************************************)
(* mtrace() and muntrace().                                                *)
(***************************************************************************)

Mtrace(t) ==
  /\ Calling(t, "mtrace")
  /\ ended => Restarts
  /\ Push(t, Frame("mtrace", "lock", Null, FALSE))
  /\ UNCHANGED <<hook, old, lock, inTrace, traceVars, heapVars, proc>>

\* "Don't panic if we're called more than once."
MtraceCheck(t) ==
  /\ In(t, "mtrace")
  /\ Goto(t, IF stream = "open" THEN "unlock" ELSE "open")
  /\ UNCHANGED <<hook, old, lock, inTrace, traceVars, heapVars, proc, calls>>

\* MALLOC_TRACE is set; its file may not open.
MtraceOpen(t) ==
  /\ In(t, "open")
  /\ \/ stream' = "open" /\ Goto(t, "install")
     \/ LibcFails /\ stream' = "closed" /\ Goto(t, "unlock")
  /\ UNCHANGED <<hook, old, lock, inTrace, marked, ended, heapVars, proc, calls>>

\* _tr_old_free_hook = __free_hook; __free_hook = tr_freehook; ...
Install(t) ==
  /\ In(t, "install")
  /\ LET h == AllHooks[Top(t).i] IN
       /\ old' = [old EXCEPT ![h] = hook[h]]
       /\ hook' = [hook EXCEPT ![h] = "trace"]
  /\ NextHook(t, "unlock")
  /\ UNCHANGED <<lock, inTrace, traceVars, heapVars, proc, calls>>

\* The program ends the trace from one thread at a time and, unless it restarts
\* it, after mtrace() has returned.
Muntrace(t) ==
  /\ Calling(t, "muntrace")
  /\ \A u \in Threads : \A i \in DOMAIN frames[u] : frames[u][i].fn # "muntrace"
  /\ Restarts \/ \A u \in Threads : \A i \in DOMAIN frames[u] : frames[u][i].fn # "mtrace"
  /\ stream = "open"
  /\ Push(t, Frame("muntrace", "closing", Null, FALSE))
  /\ stream' = "closed" /\ ended' = TRUE
  /\ UNCHANGED <<hook, old, lock, inTrace, marked, heapVars, proc>>

\* delete _mallstream: the destructor, then the memory ...
Destroy(t) ==
  /\ In(t, "closing")
  /\ stream' = "destroyed" /\ Goto(t, "deleting")
  /\ UNCHANGED <<hook, old, lock, inTrace, marked, ended, heapVars, proc, calls>>

Delete(t) ==
  /\ In(t, "deleting")
  /\ stream' = "none" /\ Goto(t, "unhook")
  /\ UNCHANGED <<hook, old, lock, inTrace, marked, ended, heapVars, proc, calls>>

\* ... and only then __free_hook = _tr_old_free_hook, ..., without the lock.
Unhook(t) ==
  /\ In(t, "unhook")
  /\ LET h == AllHooks[Top(t).i] IN hook' = [hook EXCEPT ![h] = old[h]]
  /\ IF Top(t).i < Len(AllHooks) THEN NextHook(t, "unhook") ELSE Pop(t)
  /\ UNCHANGED <<old, lock, inTrace, traceVars, heapVars, proc, calls>>

-----------------------------------------------------------------------------

\* The process has crashed, or the program makes no more calls.
Finished ==
  /\ \/ proc = "crashed"
     \/ calls = MaxCalls /\ \A t \in Threads : frames[t] = << >>
  /\ UNCHANGED vars

Next ==
  \/ \E t \in Threads :
       \/ Malloc(t) \/ Memalign(t) \/ Free(t) \/ Realloc(t) \/ Mtrace(t) \/ Muntrace(t)
       \/ Lock(t) \/ Swap(t) \/ Call(t) \/ Restore(t) \/ Unlock(t)
       \/ Guard(t) \/ Mark(t) \/ MarkNew(t) \/ Dump(t) \/ Nested(t)
       \/ MtraceCheck(t) \/ MtraceOpen(t) \/ Install(t)
       \/ Destroy(t) \/ Delete(t) \/ Unhook(t)
  \/ Finished

Spec == Init /\ [][Next]_vars
-----------------------------------------------------------------------------

Positions == {"guard", "mark", "mark_new", "dump", "lock", "swap", "call", "restore",
              "unlock", "mtrace", "open", "install", "closing", "deleting", "unhook"}

Ptrs == Addrs \cup {Null, Own}

FrameType ==
  [fn : ToSet(AllHooks) \cup {"mtrace", "muntrace"}, pc : Positions, ptr : Ptrs,
   zero : BOOLEAN, hdr : Ptrs, owned : Ptrs, i : DOMAIN AllHooks]

\* The types of mtrace.cpp's globals, of the trace and of the calls under way.
TypeOK ==
  /\ hook \in [ToSet(AllHooks) -> {"libc", "trace"}]
  /\ old \in [ToSet(AllHooks) -> {"libc", "trace"}]
  /\ lock \in Threads \cup {NoThread}
  /\ inTrace \in [Threads -> BOOLEAN]
  /\ stream \in {"none", "open", "closed", "destroyed"}
  /\ live \subseteq Addrs /\ held \subseteq Addrs
  /\ marked \subseteq Addrs /\ printed \subseteq Addrs /\ missed \subseteq Addrs
  /\ ended \in BOOLEAN /\ proc \in {"running", "crashed"} /\ calls \in Nat
  /\ frames \in [Threads -> Seq(FrameType)]

\* Until the trace is ended, the hooks are out only while the lock is held, by
\* a hook that swaps them or by mtrace(), and none was saved as its own old hook.
HooksInstalled ==
  ~ended /\ stream = "open" =>
    \A h \in ToSet(AllHooks) :
      /\ old[h] = "libc"
      /\ hook[h] = "libc" => lock # NoThread /\ h \in ToSet(Swapped(Top(lock).fn))

\* The thread that holds _hooks_lock does not ask for it again: the mutex is
\* not recursive.
NoRelock == \A t \in Threads : lock = t => ~In(t, "lock")

\* realloc() has released the block, and its "<" is on the way.
Late(a) ==
  \E t \in Threads : \E i \in DOMAIN frames[t] :
    /\ frames[t][i].fn = "realloc" /\ frames[t][i].ptr = a
    /\ frames[t][i].pc \in {"restore", "unlock", "guard", "mark"}

\* A block the trace leaves allocated is allocated, or was released by a call
\* that went by untraced or by realloc() to size 0, or its "<" is on the way.
NoFalseLeak ==
  ~ended => \A a \in marked \ live : a \in missed \/ Late(a)

\* A block whose allocation is in the trace and that the program still holds is
\* allocated as the trace has it: its release is not printed before it happens.
HeldIsMarked == ~ended => held \cap printed \subseteq marked
==============================================================================
