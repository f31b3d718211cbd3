------------------------------- MODULE MemLeak -------------------------------
(***************************************************************************)
(* libmemleak: an interposition library that records every heap block of   *)
(* the program it is preloaded into.  The hooks of api_hooks.cpp replace   *)
(* malloc(), free(), realloc(), memalign(), mmap() and munmap(); while     *)
(* capturing is on they hand each call to the tracker of report.cpp, which *)
(* keeps a map of the blocks and a map of the call stacks under one mutex  *)
(* and writes a report of both on demand.                                  *)
(*                                                                         *)
(* Threads run the hooks concurrently.  A thread's position in the code is *)
(* pc[t]; the application's own code is the position "app".                *)
(***************************************************************************)
EXTENDS Integers, FiniteSets, Functions

CONSTANTS
  Threads,      \* the threads of the traced program
  HeapAddrs,    \* addresses libc's malloc family may hand out
  MapAddrs,     \* addresses libc's mmap may hand out
  Keys,         \* keys (CRC-32 of the frames) of the call stacks that allocate
  NoKey,        \* the key 0, which free() uses for "no record found"
  Sizes,        \* the sizes the program asks for
  WordSize,     \* 2^w, w the width of memsize_type (unsigned long long)
  Null,         \* nullptr
  MapFailed,    \* MAP_FAILED
  NoThread,     \* the mutex is free
  AppCalls,     \* which library calls the program makes
  LibcFails,    \* whether libc's calls may fail
  MtraceInit,   \* MEMLEAK_CONFIG contains "mtraceinit"
  MaxCalls      \* bound: how many library calls the program makes

Addrs == HeapAddrs \cup MapAddrs
Ptrs  == Addrs \cup {Null, MapFailed}
Bytes == 0 .. WordSize - 1

ASSUME ConstantsAssumption ==
  /\ HeapAddrs \cap MapAddrs = {}
  /\ Null \notin Addrs /\ MapFailed \notin Addrs
  /\ NoThread \notin Threads
  /\ WordSize \in Nat \ {0}
  /\ Sizes \subseteq Bytes
  /\ LibcFails \in BOOLEAN /\ MtraceInit \in BOOLEAN
  /\ MaxCalls \in Nat

VARIABLES
  live,         \* libc: addresses of the blocks now allocated
  held,         \* the program: addresses it was handed and may still free
  proc,         \* the process: "running", "exiting" or "exited"
  handlers,     \* muntrace() registrations that exit() has still to run
  atexitSet,    \* mtrace()'s static _atexit
  captureOn,    \* _capture_on
  inTrace,      \* _in_trace of each thread
  lock,         \* _reporting_lock: its holder
  allocations,  \* _alloc_map: address -> [num_bytes, key]
  stacks,       \* _stack_map: key -> [num_bytes, num_allocs, prev_num_bytes]
  stats,        \* reporting_stats
  rptnum,       \* _rptnum, the number of reports written
  pc,           \* where each thread is
  cont,         \* where it goes when the tracker returns
  call,         \* the arguments and locals of the call it is in
  scan,         \* the locals of report()
  nest,         \* a hook entered from inside the tracker by its own malloc/free
  calls         \* library calls made so far

appVars     == <<live, held, proc, calls>>
captureVars == <<handlers, atexitSet, captureOn>>
dataVars    == <<allocations, stacks, stats, rptnum>>
vars == <<appVars, captureVars, inTrace, lock, dataVars, pc, cont, call, scan, nest>>

-----------------------------------------------------------------------------

\* std::map: operator[] assignment and erase.
Put(f, x, v) == [y \in DOMAIN f \cup {x} |-> IF y = x THEN v ELSE f[y]]
Drop(f, x)   == Restrict(f, DOMAIN f \ {x})

\* Arithmetic of memsize_type, and LMAX.
Wrap(n) == n % WordSize
LMax(a, b) == IF a < b THEN b ELSE a

\* The value a stack's statistics are constructed with.
NewStack == [num_bytes |-> 0, num_allocs |-> 1, prev_num_bytes |-> 0]

\* Mutant: a block's bytes are counted and it is not.
CountedBytesOnly(stack, size) == [stack EXCEPT !.num_bytes = Wrap(@ + size)]

\* One more block of `size' bytes on a stack, and one less.
Counted(stack, size) ==
  [stack EXCEPT !.num_allocs = @ + 1, !.num_bytes = Wrap(@ + size)]
Uncounted(stack, size) ==
  [stack EXCEPT !.num_allocs = @ - 1, !.num_bytes = Wrap(@ - size)]

\* What a call carries: the pointer the tracker works on, the one realloc()
\* records next, what the hook returns, what the program holds afterwards, the
\* size and call stack of the request, and the locals key and nfree of free().
NewCall(ptr, result, owned, size, key) ==
  [ptr |-> ptr, newptr |-> Null, result |-> result, owned |-> owned,
   size |-> size, key |-> key, fkey |-> NoKey, nfree |-> 0]
NoCall == NewCall(Null, Null, Null, 0, NoKey)
NoScan == [todo |-> {}, total |-> 0]

\* Positions between the guard's constructor and its destructor.
Tracing == {"alloc_lock", "alloc_stack", "alloc_record",
            "free_lock", "free_find", "free_stack",
            "report_lock", "report_scan", "report_mark", "unlock"}

\* Positions at which the thread owns _reporting_lock.
Locked == {"alloc_stack", "alloc_record", "free_find", "free_stack",
           "report_scan", "report_mark", "unlock"}

Positions == Tracing \cup
  {"app", "hook_alloc", "hook_free", "hook_realloc",
   "alloc_guard", "free_guard", "report_guard",
   "mtrace", "mtrace_store", "mtrace_check", "mtrace_set", "exit", "exited"}

Init ==
  /\ live = {} /\ held = {} /\ calls = 0
  /\ proc = "running"
  /\ handlers = IF MtraceInit THEN 2 ELSE 1
  /\ atexitSet = MtraceInit
  /\ captureOn = MtraceInit
  /\ inTrace = [t \in Threads |-> FALSE]
  /\ lock = NoThread
  /\ allocations = << >>
  /\ stacks = << >>
  /\ stats = [max_num_allocations |-> 0, max_num_stacks |-> 0, total_bytes |-> 0]
  /\ rptnum = 0
  /\ pc = [t \in Threads |-> "app"]
  /\ cont = [t \in Threads |-> "app"]
  /\ call = [t \in Threads |-> NoCall]
  /\ scan = [t \in Threads |-> NoScan]
  /\ nest = [t \in Threads |-> "none"]

\* Thread t is at position l of its own code: the process has not exited, and
\* it is not inside a hook called by the tracker itself.
At(t, l) == pc[t] = l /\ nest[t] = "none" /\ proc # "exited"

Goto(t, l) == pc' = [pc EXCEPT ![t] = l]

-----------------------------------------------------------------------------
(***************************************************************************)
(* The program calls the library.  Each call first does what libc does     *)
(* (an atomic step: libc's own locking is not this library's concern) and  *)
(* stops at the hook's test of _capture_on.                                *)
(***************************************************************************)

Calling(t, name) ==
  /\ At(t, "app")
  /\ name \in AppCalls
  /\ calls < MaxCalls
  /\ calls' = calls + 1

\* The real call gave `result', which the hook will hand back to the program.
LibcAlloc(t, region, failure) ==
  \E result \in (region \ live) \cup (IF LibcFails THEN {failure} ELSE {}), size \in Sizes, key \in Keys :
    /\ live' = live \cup ({result} \cap Addrs)
    /\ call' = [call EXCEPT ![t] = NewCall(result, result, result, size, key)]
    /\ Goto(t, "hook_alloc")
    /\ UNCHANGED <<held, proc, captureVars, inTrace, lock, dataVars, cont, scan, nest>>

Malloc(t)   == Calling(t, "malloc") /\ LibcAlloc(t, HeapAddrs, Null)
Memalign(t) == Calling(t, "memalign") /\ LibcAlloc(t, HeapAddrs, Null)
Mmap(t)     == Calling(t, "mmap") /\ LibcAlloc(t, MapAddrs, MapFailed)

\* The block is returned to libc before the tracker hears of it.  `freed' is
\* what libc released: nothing when munmap() fails or ptr is nullptr.
LibcFree(t, ptr, freed) ==
  /\ live' = live \ freed
  /\ held' = held \ freed
  /\ call' = [call EXCEPT ![t] = NewCall(ptr, Null, Null, 0, NoKey)]
  /\ Goto(t, "hook_free")
  /\ UNCHANGED <<proc, captureVars, inTrace, lock, dataVars, cont, scan, nest>>

Free(t) ==
  /\ Calling(t, "free")
  /\ \E ptr \in (held \cap HeapAddrs) \cup {Null} : LibcFree(t, ptr, {ptr} \cap Addrs)

Munmap(t) ==
  /\ Calling(t, "munmap")
  /\ \E ptr \in held \cap MapAddrs :
     \E freed \in {{ptr}} \cup (IF LibcFails THEN {{}} ELSE {}) : LibcFree(t, ptr, freed)

\* libc's realloc(): extends in place, moves, allocates when ptr is nullptr,
\* frees when size is 0 (returning nullptr), or fails and leaves ptr alone.
\* While the call runs the program holds neither block.
Realloc(t) ==
  /\ Calling(t, "realloc")
  /\ \E ptr \in (held \cap HeapAddrs) \cup {Null}, size \in Sizes, key \in Keys :
     \E result \in (HeapAddrs \ live) \cup {ptr, Null} :
       /\ size = 0 /\ ptr # Null => result = Null
       /\ result = Null => LibcFails \/ (size = 0 /\ ptr # Null)
       /\ live' = IF result = Null /\ size > 0
                  THEN live
                  ELSE (live \ {ptr}) \cup ({result} \cap Addrs)
       /\ held' = held \ {ptr}
       /\ LET owned == IF result = Null /\ size > 0 THEN ptr ELSE result
          IN  call' = [call EXCEPT ![t] = NewCall(ptr, result, owned, size, key)]
       /\ Goto(t, "hook_realloc")
       /\ UNCHANGED <<proc, captureVars, inTrace, lock, dataVars, cont, scan, nest>>
-----------------------------------------------------------------------------
(***************************************************************************)
(* The hooks, once libc has answered: they test _capture_on, which is a    *)
(* plain bool any thread may change, and call the tracker or return.       *)
(***************************************************************************)

\* The tracker has returned: realloc() goes on to its alloc(), a handler
\* returns to exit(), anything else to the program, which then holds the block.
Resume(t) ==
  \/ /\ cont[t] = "alloc_guard"
     /\ call' = [call EXCEPT ![t].ptr = call[t].newptr]
     /\ cont' = [cont EXCEPT ![t] = "app"]
     /\ Goto(t, "alloc_guard")
     /\ UNCHANGED held
  \/ /\ cont[t] = "exit"
     /\ Goto(t, "exit")
     /\ UNCHANGED <<held, call, cont>>
  \/ /\ cont[t] = "app"
     /\ held' = held \cup ({call[t].owned} \cap Addrs)
     /\ call' = [call EXCEPT ![t] = NoCall]
     /\ Goto(t, "app")
     /\ UNCHANGED cont

HookAlloc(t) ==
  /\ At(t, "hook_alloc")
  /\ \/ captureOn /\ Goto(t, "alloc_guard") /\ UNCHANGED <<held, call, cont>>
     \/ ~captureOn /\ Resume(t)
  /\ UNCHANGED <<live, proc, calls, captureVars, inTrace, lock, dataVars, scan, nest>>

HookFree(t) ==
  /\ At(t, "hook_free")
  /\ \/ captureOn /\ Goto(t, "free_guard") /\ UNCHANGED <<held, call, cont>>
     \/ ~captureOn /\ Resume(t)
  /\ UNCHANGED <<live, proc, calls, captureVars, inTrace, lock, dataVars, scan, nest>>

\* libmemleak::realloc(newptr, oldptr, size): free(oldptr), then alloc(newptr).
TrackerRealloc(t, newptr, oldptr) ==
  /\ call' = [call EXCEPT ![t].ptr = oldptr, ![t].newptr = newptr]
  /\ cont' = [cont EXCEPT ![t] = "alloc_guard"]
  /\ Goto(t, "free_guard")
  /\ UNCHANGED held

\* The hook passes the block it was given first and the one it got second.
HookRealloc(t) ==
  /\ At(t, "hook_realloc")
  /\ \/ ~captureOn /\ Resume(t)
     \/ captureOn /\ call[t].result = Null /\ Resume(t)
     \/ /\ captureOn /\ call[t].result # Null /\ call[t].ptr = Null
        /\ call' = [call EXCEPT ![t].ptr = call[t].result]
        /\ Goto(t, "alloc_guard")
        /\ UNCHANGED <<held, cont>>
     \/ /\ captureOn /\ call[t].result # Null /\ call[t].ptr # Null
        /\ TrackerRealloc(t, call[t].ptr, call[t].result)
  /\ UNCHANGED <<live, proc, calls, captureVars, inTrace, lock, dataVars, scan, nest>>

-----------------------------------------------------------------------------
(***************************************************************************)
(* The tracker.  alloc(), free() and report() open with the same two       *)
(* guards: _in_trace keeps a thread out of the tracker while it is in it,  *)
(* _reporting_lock keeps the others out.                                   *)
(***************************************************************************)

\* Mutant: _in_trace is tested and not set.
GuardNotSet(t, from, to) ==
  /\ At(t, from)
  /\ IF inTrace[t] THEN Resume(t) ELSE Goto(t, to) /\ UNCHANGED <<held, call, cont>>
  /\ UNCHANGED <<live, proc, calls, captureVars, inTrace, lock, dataVars, scan, nest>>

\* gnu_atomic_guard(&_in_trace, false, true): compare-and-swap.  The call
\* stack is captured next, before the lock is asked for.
Guard(t, from, to) ==
  /\ At(t, from)
  /\ inTrace' = [inTrace EXCEPT ![t] = TRUE]
  /\ IF inTrace[t] THEN Resume(t) ELSE Goto(t, to) /\ UNCHANGED <<held, call, cont>>
  /\ UNCHANGED <<live, proc, calls, captureVars, lock, dataVars, scan, nest>>

AllocGuard(t)  == Guard(t, "alloc_guard", "alloc_lock")
FreeGuard(t)   == Guard(t, "free_guard", "free_lock")
ReportGuard(t) == Guard(t, "report_guard", "report_lock")

\* Mutant: the lock is taken from whoever holds it.
LockNoWait(t, from, to) ==
  /\ At(t, from)
  /\ lock' = t
  /\ Goto(t, to)
  /\ UNCHANGED <<appVars, captureVars, inTrace, allocations, stacks, stats, cont, call, nest>>

\* std::unique_lock<std::mutex> lock(_reporting_lock)
Lock(t, from, to) ==
  /\ At(t, from)
  /\ lock = NoThread
  /\ lock' = t
  /\ Goto(t, to)
  /\ UNCHANGED <<appVars, captureVars, inTrace, allocations, stacks, stats, cont, call, nest>>

\* Mutants: free() and report() do their work without the lock.
FreeNoLock(t) ==
  /\ At(t, "free_lock")
  /\ Goto(t, "free_find")
  /\ UNCHANGED <<appVars, captureVars, inTrace, lock, dataVars, cont, call, scan, nest>>
ReportNoLock(t) ==
  /\ At(t, "report_lock")
  /\ Goto(t, IF DOMAIN stacks = {} THEN "report_mark" ELSE "report_scan")
  /\ rptnum' = rptnum + 1
  /\ scan' = [scan EXCEPT ![t] = [NoScan EXCEPT !.todo = DOMAIN stacks]]
  /\ UNCHANGED <<appVars, captureVars, inTrace, lock, allocations, stacks, stats, cont, call, nest>>

AllocLock(t) == Lock(t, "alloc_lock", "alloc_stack") /\ UNCHANGED <<rptnum, scan>>
FreeLock(t)  == Lock(t, "free_lock", "free_find") /\ UNCHANGED <<rptnum, scan>>
ReportLock(t) ==
  /\ Lock(t, "report_lock", IF DOMAIN stacks = {} THEN "report_mark" ELSE "report_scan")
  /\ rptnum' = rptnum + 1
  /\ scan' = [scan EXCEPT ![t] = [NoScan EXCEPT !.todo = DOMAIN stacks]]

\* Mutant: the guard's destructor does not reset _in_trace.
UnlockStaysInTrace(t) ==
  /\ At(t, "unlock")
  /\ lock' = NoThread
  /\ scan' = [scan EXCEPT ![t] = NoScan]
  /\ Resume(t)
  /\ UNCHANGED <<live, proc, calls, captureVars, inTrace, dataVars, nest>>

\* The destructors: the lock is released first, the guard second.
Unlock(t) ==
  /\ At(t, "unlock")
  /\ lock' = NoThread
  /\ inTrace' = [inTrace EXCEPT ![t] = FALSE]
  /\ scan' = [scan EXCEPT ![t] = NoScan]
  /\ Resume(t)
  /\ UNCHANGED <<live, proc, calls, captureVars, dataVars, nest>>

\* alloc(): a stack seen for the first time is stored as constructed, one seen
\* before counts the block.
AllocStack(t) ==
  /\ At(t, "alloc_stack")
  /\ LET key == call[t].key
     IN  stacks' = IF key \notin DOMAIN stacks
                   THEN Put(stacks, key, NewStack)
                   ELSE [stacks EXCEPT ![key] = Counted(@, call[t].size)]
  /\ Goto(t, "alloc_record")
  /\ UNCHANGED <<appVars, captureVars, inTrace, lock, allocations, stats, rptnum,
                 cont, call, scan, nest>>

\* alloc(): the block's record replaces whatever the address had before.
AllocRecord(t) ==
  /\ At(t, "alloc_record")
  /\ allocations' = Put(allocations, call[t].ptr,
                        [num_bytes |-> call[t].size, key |-> call[t].key])
  /\ stats' = [stats EXCEPT
                 !.max_num_allocations = LMax(@, Cardinality(DOMAIN allocations')),
                 !.max_num_stacks = LMax(@, Cardinality(DOMAIN stacks))]
  /\ Goto(t, "unlock")
  /\ UNCHANGED <<appVars, captureVars, inTrace, lock, stacks, rptnum, cont, call, scan, nest>>

\* Mutant: the record is read and not erased.
FreeFindKeeps(t) ==
  /\ At(t, "free_find")
  /\ LET ptr == call[t].ptr
     IN  IF ptr \notin DOMAIN allocations
         THEN Goto(t, "unlock") /\ UNCHANGED call
         ELSE LET record == allocations[ptr]
              IN  /\ call' = [call EXCEPT ![t].fkey = record.key,
                                          ![t].nfree = record.num_bytes]
                  /\ Goto(t, IF record.key = NoKey THEN "unlock" ELSE "free_stack")
  /\ UNCHANGED <<appVars, captureVars, inTrace, lock, dataVars, cont, scan, nest>>

\* free(): take the block's record out; an unknown address is only an error
\* message, and so is everything after it when the record's key is 0.
FreeFind(t) ==
  /\ At(t, "free_find")
  /\ LET ptr == call[t].ptr
     IN  IF ptr \notin DOMAIN allocations
         THEN Goto(t, "unlock") /\ UNCHANGED <<allocations, call>>
         ELSE LET record == allocations[ptr]
              IN  /\ allocations' = Drop(allocations, ptr)
                  /\ call' = [call EXCEPT ![t].fkey = record.key,
                                          ![t].nfree = record.num_bytes]
                  /\ Goto(t, IF record.key = NoKey THEN "unlock" ELSE "free_stack")
  /\ UNCHANGED <<appVars, captureVars, inTrace, lock, stacks, stats, rptnum,
                 cont, scan, nest>>

\* Mutant: the stack of the last block freed stays in the map.
FreeStackKeeps(t) ==
  /\ At(t, "free_stack")
  /\ LET key == call[t].fkey
     IN  stacks' = IF key \notin DOMAIN stacks
                   THEN stacks
                   ELSE [stacks EXCEPT ![key] = Uncounted(@, call[t].nfree)]
  /\ Goto(t, "unlock")
  /\ UNCHANGED <<appVars, captureVars, inTrace, lock, allocations, stats, rptnum,
                 cont, call, scan, nest>>

\* free(): uncount the block, and forget a stack nothing is allocated on.
FreeStack(t) ==
  /\ At(t, "free_stack")
  /\ LET key == call[t].fkey
     IN  stacks' = IF key \notin DOMAIN stacks
                   THEN stacks
                   ELSE IF stacks[key].num_allocs - 1 = 0
                        THEN Drop(stacks, key)
                        ELSE [stacks EXCEPT ![key] = Uncounted(@, call[t].nfree)]
  /\ Goto(t, "unlock")
  /\ UNCHANGED <<appVars, captureVars, inTrace, lock, allocations, stats, rptnum,
                 cont, call, scan, nest>>

\* Mutant: the iterator does not move on.
ReportScanStays(t) ==
  /\ At(t, "report_scan")
  /\ \E key \in scan[t].todo :
       scan' = [scan EXCEPT ![t].total = Wrap(@ + stacks[key].num_bytes)]
  /\ UNCHANGED <<appVars, captureVars, inTrace, lock, dataVars, pc, cont, call, nest>>

\* report(), first loop: add up the stacks; the list of those whose
\* bytes changed is text and left out.
ReportScan(t) ==
  /\ At(t, "report_scan")
  /\ \E key \in scan[t].todo :
       /\ scan' = [scan EXCEPT
                     ![t].todo = @ \ {key},
                     ![t].total = Wrap(@ + stacks[key].num_bytes)]
       /\ Goto(t, IF scan[t].todo = {key} THEN "report_mark" ELSE "report_scan")
  /\ UNCHANGED <<appVars, captureVars, inTrace, lock, dataVars, cont, call, nest>>

\* report(), the rest: the totals and the stacks become the previous report.
ReportMark(t) ==
  /\ At(t, "report_mark")
  /\ stats' = [stats EXCEPT !.total_bytes = scan[t].total]
  /\ stacks' = [key \in DOMAIN stacks |->
                  [stacks[key] EXCEPT !.prev_num_bytes = stacks[key].num_bytes]]
  /\ Goto(t, "unlock")
  /\ UNCHANGED <<appVars, captureVars, inTrace, lock, allocations, rptnum,
                 cont, call, scan, nest>>

\* The tracker's own maps, lists, strings and streams call malloc() and free()
\* too, and so come back through the hooks.
NestedCall(t) ==
  /\ pc[t] \in Tracing /\ nest[t] = "none" /\ proc # "exited"
  /\ nest' = [nest EXCEPT ![t] = "hook"]
  /\ UNCHANGED <<appVars, captureVars, inTrace, lock, dataVars, pc, cont, call, scan>>

\* The nested hook tests _capture_on and the guard; were both to let it in, it
\* would go on to ask for _reporting_lock.
NestedHook(t) ==
  /\ nest[t] = "hook" /\ proc # "exited"
  /\ nest' = [nest EXCEPT ![t] = IF captureOn /\ ~inTrace[t] THEN "lock" ELSE "none"]
  /\ UNCHANGED <<appVars, captureVars, inTrace, lock, dataVars, pc, cont, call, scan>>

-----------------------------------------------------------------------------
(***************************************************************************)
(* mtrace(), muntrace() and the handlers exit() runs.                      *)
(***************************************************************************)

Mtrace(t) ==
  /\ Calling(t, "mtrace")
  /\ Goto(t, "mtrace")
  /\ UNCHANGED <<live, held, proc, captureVars, inTrace, lock, dataVars, cont, call, scan, nest>>

\* Load _atexit and, unless it is set, register muntrace() ...
MtraceAtexit(t) ==
  /\ At(t, "mtrace")
  /\ handlers' = IF atexitSet THEN handlers ELSE handlers + 1
  /\ Goto(t, IF atexitSet THEN "mtrace_check" ELSE "mtrace_store")
  /\ UNCHANGED <<appVars, atexitSet, captureOn, inTrace, lock, dataVars, cont, call, scan, nest>>

\* ... and only then set it.
MtraceStore(t) ==
  /\ At(t, "mtrace_store")
  /\ atexitSet' = TRUE
  /\ Goto(t, "mtrace_check")
  /\ UNCHANGED <<appVars, handlers, captureOn, inTrace, lock, dataVars, cont, call, scan, nest>>

\* The first call switches capturing on, the later ones report.
MtraceCheck(t) ==
  /\ At(t, "mtrace_check")
  /\ Goto(t, IF captureOn THEN "report_guard" ELSE "mtrace_set")
  /\ UNCHANGED <<appVars, captureVars, inTrace, lock, dataVars, cont, call, scan, nest>>

MtraceSet(t) ==
  /\ At(t, "mtrace_set")
  /\ captureOn' = TRUE
  /\ Resume(t)
  /\ UNCHANGED <<live, proc, calls, handlers, atexitSet, inTrace, lock, dataVars, scan, nest>>

\* Mutant: muntrace() only reports.
UntraceReportsOnly(t) ==
  /\ Goto(t, "report_guard")
  /\ UNCHANGED <<live, held, proc, atexitSet, captureOn, inTrace, lock, dataVars, call, scan, nest>>

\* muntrace(): capturing stops, whoever is still inside the tracker.
Untrace(t) ==
  /\ captureOn' = FALSE
  /\ Goto(t, "report_guard")
  /\ UNCHANGED <<live, held, proc, atexitSet, inTrace, lock, dataVars, call, scan, nest>>

Muntrace(t) ==
  /\ Calling(t, "muntrace")
  /\ Untrace(t)
  /\ UNCHANGED <<handlers, cont>>

\* exit(): run the handlers, each of which is muntrace(); other threads run on
\* until the last one has returned.
Exit(t) ==
  /\ Calling(t, "exit")
  /\ proc = "running"
  /\ proc' = "exiting"
  /\ cont' = [cont EXCEPT ![t] = "exit"]
  /\ Goto(t, "exit")
  /\ UNCHANGED <<live, held, captureVars, inTrace, lock, dataVars, call, scan, nest>>

ExitHandler(t) ==
  /\ At(t, "exit")
  /\ handlers > 0
  /\ handlers' = handlers - 1
  /\ Untrace(t)
  /\ UNCHANGED <<calls, cont>>

ExitDone(t) ==
  /\ At(t, "exit")
  /\ handlers = 0
  /\ proc' = "exited"
  /\ Goto(t, "exited")
  /\ UNCHANGED <<live, held, calls, captureVars, inTrace, lock, dataVars, cont, call, scan, nest>>

-----------------------------------------------------------------------------

\* What the program's own code does, and what the library does for it.
Program(t) == Malloc(t) \/ Memalign(t) \/ Mmap(t) \/ Free(t) \/ Munmap(t)
              \/ Realloc(t) \/ Mtrace(t) \/ Muntrace(t) \/ Exit(t)

Library(t) ==
  \/ HookAlloc(t) \/ HookFree(t) \/ HookRealloc(t)
  \/ AllocGuard(t) \/ AllocLock(t) \/ AllocStack(t) \/ AllocRecord(t)
  \/ FreeGuard(t) \/ FreeLock(t) \/ FreeFind(t) \/ FreeStack(t)
  \/ ReportGuard(t) \/ ReportLock(t) \/ ReportScan(t) \/ ReportMark(t)
  \/ Unlock(t)
  \/ MtraceAtexit(t) \/ MtraceStore(t) \/ MtraceCheck(t) \/ MtraceSet(t)
  \/ ExitHandler(t) \/ ExitDone(t)

\* The process has exited, or the program makes no more calls.
Finished ==
  /\ \/ proc = "exited"
     \/ calls = MaxCalls /\ \A t \in Threads : pc[t] = "app"
  /\ UNCHANGED vars

Next ==
  \/ \E t \in Threads : Program(t) \/ Library(t) \/ NestedCall(t) \/ NestedHook(t)
  \/ Finished

Spec == Init /\ [][Next]_vars
-----------------------------------------------------------------------------
(***************************************************************************)
(* Properties.                                                             *)
(***************************************************************************)

AllKeys == Keys \cup {NoKey}

Record == [num_bytes : Bytes, key : AllKeys]
Stack  == [num_bytes : Bytes, num_allocs : Int, prev_num_bytes : Bytes]
Stats  == [max_num_allocations : Nat, max_num_stacks : Nat, total_bytes : Bytes]
Call   == [ptr : Ptrs, newptr : Ptrs, result : Ptrs, owned : Ptrs,
           size : Bytes, key : AllKeys, fkey : AllKeys, nfree : Bytes]
Scan   == [todo : SUBSET AllKeys, total : Bytes]

\* The types of the library's globals and of each thread's locals (report.cpp
\* and api_hooks.cpp).
TypeOK ==
  /\ live \subseteq Addrs /\ held \subseteq Addrs
  /\ proc \in {"running", "exiting", "exited"}
  /\ handlers \in Nat /\ calls \in Nat /\ rptnum \in Nat
  /\ atexitSet \in BOOLEAN /\ captureOn \in BOOLEAN
  /\ inTrace \in [Threads -> BOOLEAN]
  /\ lock \in Threads \cup {NoThread}
  /\ DOMAIN allocations \subseteq Ptrs /\ IsFiniteSet(DOMAIN allocations)
  /\ allocations \in [DOMAIN allocations -> Record]
  /\ DOMAIN stacks \subseteq AllKeys /\ IsFiniteSet(DOMAIN stacks)
  /\ stacks \in [DOMAIN stacks -> Stack]
  /\ stats \in Stats
  /\ pc \in [Threads -> Positions]
  /\ cont \in [Threads -> {"app", "alloc_guard", "exit"}]
  /\ call \in [Threads -> Call]
  /\ scan \in [Threads -> Scan]
  /\ nest \in [Threads -> {"none", "hook", "lock"}]

\* The two maps and the statistics are touched by the owner of _reporting_lock
\* only, and every thread inside the tracker has its own _in_trace set.
Exclusion ==
  \A t \in Threads : /\ pc[t] \in Locked <=> lock = t
                     /\ pc[t] \in Tracing <=> inTrace[t]
                     /\ nest[t] # "none" => pc[t] \in Tracing

\* A thread inside the tracker never asks for _reporting_lock again: the mutex
\* is not recursive and the allocation the tracker is making would never end.
NoRelock == \A t \in Threads : nest[t] # "lock"

\* report() walks the stacks step by step: none it has yet to visit is erased
\* under it, which would leave its iterator dangling.
ScanValid ==
  \A t \in Threads : pc[t] = "report_scan" => scan[t].todo \subseteq DOMAIN stacks

RecordsOf(k) == {ptr \in DOMAIN allocations : allocations[ptr].key = k}
CountOf(k)   == IF k \in DOMAIN stacks THEN stacks[k].num_allocs ELSE 0

\* What the lock's owner has counted and not yet recorded, or taken out of the
\* records and not yet uncounted.
Pending(k) ==
  IF /\ lock # NoThread
     /\ \/ pc[lock] = "alloc_record" /\ call[lock].key = k
        \/ pc[lock] = "free_stack" /\ call[lock].fkey = k
  THEN 1 ELSE 0

\* No stack counts fewer blocks than are recorded under its key.
StacksCover ==
  \A k \in AllKeys : Cardinality(RecordsOf(k)) + Pending(k) <= CountOf(k)

\* free()'s assertion on num_allocs holds and its "Internal error" is not
\* reached: the stack of a recorded block is there and counts it.
FreeAssert ==
  \A t \in Threads : pc[t] = "free_stack" =>
     /\ call[t].fkey \in DOMAIN stacks
     /\ stacks[call[t].fkey].num_allocs - 1 >= 0

\* While capturing is on and blocks are never resized, a recorded block is one
\* the program has not freed, or one whose free() is still on its way to the
\* tracker: nothing freed is reported as a leak.
NoFalseLeak ==
  proc = "running" => \A a \in DOMAIN allocations \cap Addrs :
     \/ a \in live
     \/ \E t \in Threads : /\ pc[t] \in {"hook_free", "free_guard", "free_lock", "free_find"}
                          /\ call[t].ptr = a

InApp == \A t \in Threads : pc[t] = "app"

\* While capturing is never off, every block the program holds is recorded:
\* no leak is missing from the reports.
HeldIsRecorded == InApp => held \subseteq DOMAIN allocations

SumOf(k) == SumFunction([ptr \in RecordsOf(k) |-> allocations[ptr].num_bytes])

\* Each stack counts exactly the blocks recorded under its key, and is there as
\* long as there are any: alloc() and free() leave no stack without a block.  The
\* key 0 is excepted: free() takes it for "no record" and leaves such a stack as
\* it is, blocks and bytes.
CountIsExact ==
  InApp => \A k \in Keys \ {NoKey} :
    /\ CountOf(k) = Cardinality(RecordsOf(k))
    /\ k \in DOMAIN stacks <=> RecordsOf(k) # {}

\* "Current total allocated on this stack": a stack's bytes are those of its
\* blocks.
BytesExact == InApp => \A k \in DOMAIN stacks : stacks[k].num_bytes = Wrap(SumOf(k))

\* The final report: once the handlers have run, capturing is off and the last
\* report's total is the total of the stacks.
FinalReport ==
  proc = "exited" =>
    /\ ~captureOn
    /\ stats.total_bytes =
         Wrap(SumFunction([k \in DOMAIN stacks |-> stacks[k].num_bytes]))

\* The operating system runs every thread, the tracker makes finitely many
\* allocations of its own, and a thread asking for a mutex that is free again
\* and again gets it.
Fairness ==
  \A t \in Threads : /\ SF_vars(Library(t))
                     /\ WF_vars(NestedHook(t))

LiveSpec == Spec /\ Fairness

\* Every library call returns, whatever the other threads do, unless the
\* process exits first; and exit() ends.
CallsReturn ==
  \A t \in Threads : pc[t] # "app" ~> (pc[t] = "app" \/ proc = "exited")
==============================================================================
