---------------------------- MODULE MemLeakProofs ----------------------------
(***************************************************************************)
(* Proofs about MemLeak for any set of threads, addresses, stacks and      *)
(* sizes, and any number of calls.                                         *)
(***************************************************************************)
EXTENDS MemLeakRefinement, SumTheorems, TLAPS

-----------------------------------------------------------------------------
(* Type correctness.                                                       *)

\* Storing an element in a map adds its key and leaves the rest alone.
LEMMA PutType ==
  ASSUME NEW D, NEW R, NEW f, f \in [DOMAIN f -> R], DOMAIN f \subseteq D,
         NEW x \in D, NEW v \in R
  PROVE  /\ DOMAIN Put(f, x, v) = DOMAIN f \cup {x}
         /\ DOMAIN Put(f, x, v) \subseteq D
         /\ Put(f, x, v) \in [DOMAIN Put(f, x, v) -> R]
         /\ IsFiniteSet(DOMAIN f) => IsFiniteSet(DOMAIN Put(f, x, v))
  BY FS_AddElement DEF Put

\* Erasing an element removes its key and leaves the rest alone.
LEMMA DropType ==
  ASSUME NEW D, NEW R, NEW f, f \in [DOMAIN f -> R], DOMAIN f \subseteq D, NEW x
  PROVE  /\ DOMAIN Drop(f, x) = DOMAIN f \ {x}
         /\ DOMAIN Drop(f, x) \subseteq D
         /\ Drop(f, x) \in [DOMAIN Drop(f, x) -> R]
         /\ IsFiniteSet(DOMAIN f) => IsFiniteSet(DOMAIN Drop(f, x))
  BY FS_RemoveElement DEF Drop, Restrict

\* memsize_type is closed under the arithmetic done on it.
LEMMA WrapType == ASSUME NEW n \in Int PROVE Wrap(n) \in Bytes
  BY ConstantsAssumption DEF Wrap, Bytes

\* The record of a call whose arguments are well typed.
LEMMA NewCallType ==
  ASSUME NEW ptr \in Ptrs, NEW result \in Ptrs, NEW owned \in Ptrs,
         NEW size \in Bytes, NEW key \in AllKeys
  PROVE  NewCall(ptr, result, owned, size, key) \in Call
  BY ConstantsAssumption DEF NewCall, Call, Ptrs, Bytes, AllKeys

\* The two special pointers are pointers, and a size is a number of bytes.
LEMMA ConstantTypes ==
  /\ Null \in Ptrs /\ MapFailed \in Ptrs /\ Addrs \subseteq Ptrs
  /\ 0 \in Bytes /\ Sizes \subseteq Bytes
  /\ NoCall \in Call /\ NewStack \in Stack
  BY ConstantsAssumption, NewCallType DEF Ptrs, Bytes, NoCall, AllKeys, NewStack, Stack

\* The library starts well typed: its maps are empty.
LEMMA InitType == Init => TypeOK
  <1> USE ConstantsAssumption
  <1> SUFFICES ASSUME Init PROVE TypeOK
    OBVIOUS
  <1>1. NoScan \in Scan
    BY ConstantTypes DEF NoScan, Scan
  <1>2. QED
    BY <1>1, ConstantTypes, FS_EmptySet DEF Init, TypeOK, Stats, Record, Stack, Positions

\* A thread that moves stays at a position of the code.
LEMMA GotoType ==
  ASSUME TypeOK, NEW t \in Threads, NEW l \in Positions, Goto(t, l)
  PROVE  pc' \in [Threads -> Positions]
  BY DEF TypeOK, Goto

\* A thread the tracker returns to keeps its types.
LEMMA ResumeType ==
  ASSUME TypeOK, NEW t \in Threads, Resume(t)
  PROVE  /\ held' \subseteq Addrs
         /\ call' \in [Threads -> Call]
         /\ cont' \in [Threads -> {"app", "alloc_guard", "exit"}]
         /\ pc' \in [Threads -> Positions]
  <1> USE DEF TypeOK
  <1>1. CASE cont[t] = "alloc_guard"
    <2>1. call[t] \in Call /\ call[t].newptr \in Ptrs
      BY DEF Call
    <2>2. [call[t] EXCEPT !.ptr = call[t].newptr] \in Call
      BY <2>1 DEF Call
    <2>3. call' = [call EXCEPT ![t] = [call[t] EXCEPT !.ptr = call[t].newptr]]
      BY <1>1 DEF Resume
    <2>4. QED
      BY <1>1, <2>2, <2>3 DEF Resume, Goto, Positions
  <1>2. CASE cont[t] = "exit"
    BY <1>2 DEF Resume, Goto, Positions
  <1>3. CASE cont[t] = "app"
    BY <1>3, ConstantTypes DEF Resume, Goto, Positions
  <1>4. QED
    BY <1>1, <1>2, <1>3

\* The calls of the program.
LEMMA ProgramType ==
  ASSUME TypeOK, NEW t \in Threads, Program(t)
  PROVE  TypeOK'
  <1> USE DEF appVars, captureVars, dataVars
  <1>a. /\ "hook_alloc" \in Positions /\ "hook_free" \in Positions
        /\ "hook_realloc" \in Positions /\ "mtrace" \in Positions
        /\ "report_guard" \in Positions /\ "exit" \in Positions
    BY DEF Positions
  <1>b. calls' \in Nat
    BY DEF TypeOK, Program, Malloc, Memalign, Mmap, Free, Munmap, Realloc, Mtrace,
           Muntrace, Exit, Calling
  <1>1. ASSUME NEW region \in SUBSET Addrs, NEW failure \in {Null, MapFailed},
               LibcAlloc(t, region, failure)
        PROVE  TypeOK'
    <2>1. PICK result \in region \cup {failure}, size \in Sizes, key \in Keys :
            /\ live' = live \cup ({result} \cap Addrs)
            /\ call' = [call EXCEPT ![t] = NewCall(result, result, result, size, key)]
      BY <1>1 DEF LibcAlloc
    <2>2. NewCall(result, result, result, size, key) \in Call
      BY ConstantTypes, NewCallType DEF AllKeys
    <2>3. call' \in [Threads -> Call]
      BY <2>1, <2>2 DEF TypeOK
    <2>4. pc' \in [Threads -> Positions]
      BY <1>a, <1>1, GotoType DEF LibcAlloc
    <2>5. QED
      BY <1>b, <1>1, <2>1, <2>3, <2>4 DEF LibcAlloc, TypeOK
  <1>2. ASSUME NEW ptr \in Ptrs, NEW freed, LibcFree(t, ptr, freed)
        PROVE  TypeOK'
    <2>1. call' \in [Threads -> Call]
      <3>1. NewCall(ptr, Null, Null, 0, NoKey) \in Call
        BY ConstantTypes, NewCallType DEF AllKeys
      <3>2. QED
        BY <1>2, <3>1 DEF LibcFree, TypeOK
    <2>2. pc' \in [Threads -> Positions]
      BY <1>a, <1>2, GotoType DEF LibcFree
    <2>3. QED
      BY <1>b, <1>2, <2>1, <2>2 DEF LibcFree, TypeOK
  <1>3. CASE Malloc(t) \/ Memalign(t) \/ Mmap(t)
    BY <1>1, <1>3 DEF Malloc, Memalign, Mmap, Addrs
  <1>4. CASE Free(t) \/ Munmap(t)
    BY <1>2, <1>4 DEF Free, Munmap, Ptrs, Addrs
  <1>5. CASE Realloc(t)
    <2>1. PICK ptr \in (held \cap HeapAddrs) \cup {Null}, size \in Sizes, key \in Keys :
            \E result \in (HeapAddrs \ live) \cup {ptr, Null} :
              /\ live' = IF result = Null /\ size > 0
                         THEN live
                         ELSE (live \ {ptr}) \cup ({result} \cap Addrs)
              /\ held' = held \ {ptr}
              /\ LET owned == IF result = Null /\ size > 0 THEN ptr ELSE result
                 IN  call' = [call EXCEPT ![t] = NewCall(ptr, result, owned, size, key)]
      BY <1>5 DEF Realloc
    <2>2. ptr \in Ptrs
      BY ConstantTypes DEF Addrs
    <2>3. PICK result \in Ptrs, owned \in Ptrs :
              /\ live' = IF result = Null /\ size > 0
                         THEN live
                         ELSE (live \ {ptr}) \cup ({result} \cap Addrs)
              /\ call' = [call EXCEPT ![t] = NewCall(ptr, result, owned, size, key)]
      BY <2>1, <2>2, ConstantTypes DEF Addrs
    <2>4. call' \in [Threads -> Call]
      <3>1. NewCall(ptr, result, owned, size, key) \in Call
        BY <2>2, ConstantTypes, NewCallType DEF AllKeys
      <3>2. QED
        BY <2>3, <3>1 DEF TypeOK
    <2>5. pc' \in [Threads -> Positions]
      BY <1>a, <1>5, GotoType DEF Realloc
    <2>6. live' \subseteq Addrs /\ held' \subseteq Addrs
      BY <2>1, <2>3 DEF TypeOK
    <2>7. QED
      BY <1>b, <1>5, <2>4, <2>5, <2>6 DEF Realloc, TypeOK
  <1>6. CASE Mtrace(t)
    BY <1>a, <1>b, <1>6, GotoType DEF Mtrace, TypeOK
  <1>7. CASE Muntrace(t)
    BY <1>a, <1>b, <1>7, GotoType DEF Muntrace, Untrace, TypeOK
  <1>8. CASE Exit(t)
    BY <1>a, <1>b, <1>8, GotoType DEF Exit, TypeOK
  <1>9. QED
    BY <1>3, <1>4, <1>5, <1>6, <1>7, <1>8 DEF Program
\* The hooks, the guards and the lock.
LEMMA EntryType ==
  ASSUME TypeOK, NEW t \in Threads,
         \/ HookAlloc(t) \/ HookFree(t) \/ HookRealloc(t)
         \/ AllocGuard(t) \/ FreeGuard(t) \/ ReportGuard(t)
         \/ AllocLock(t) \/ FreeLock(t) \/ ReportLock(t) \/ Unlock(t)
  PROVE  TypeOK'
  <1> USE DEF appVars, captureVars, dataVars
  <1>a. /\ "alloc_guard" \in Positions /\ "free_guard" \in Positions
        /\ "alloc_lock" \in Positions /\ "free_lock" \in Positions
        /\ "report_lock" \in Positions /\ "alloc_stack" \in Positions
        /\ "free_find" \in Positions /\ "report_scan" \in Positions
        /\ "report_mark" \in Positions
    BY DEF Positions, Tracing
  <1>1. CASE HookAlloc(t)
    BY <1>a, <1>1, GotoType, ResumeType DEF HookAlloc, TypeOK
  <1>2. CASE HookFree(t)
    BY <1>a, <1>2, GotoType, ResumeType DEF HookFree, TypeOK
  <1>3. CASE HookRealloc(t)
    <2>0. call[t] \in Call /\ call[t].ptr \in Ptrs /\ call[t].result \in Ptrs
      BY DEF TypeOK, Call
    <2>1. [call[t] EXCEPT !.ptr = call[t].result] \in Call
      BY <2>0 DEF Call
    <2>2. [[call[t] EXCEPT !.ptr = call[t].result] EXCEPT !.newptr = call[t].ptr] \in Call
      BY <2>0, <2>1 DEF Call
    <2>3. CASE Resume(t)
      BY <1>3, <2>3, ResumeType DEF HookRealloc, TypeOK
    <2>4. CASE /\ call' = [call EXCEPT ![t].ptr = call[t].result]
               /\ Goto(t, "alloc_guard")
               /\ UNCHANGED <<held, cont>>
      <3>1. call' \in [Threads -> Call]
        BY <2>1, <2>4 DEF TypeOK
      <3>2. QED
        BY <1>a, <1>3, <2>4, <3>1, GotoType DEF HookRealloc, TypeOK
    <2>5. CASE TrackerRealloc(t, call[t].ptr, call[t].result)
      <3>1. call' = [call EXCEPT ![t] =
                       [[call[t] EXCEPT !.ptr = call[t].result] EXCEPT !.newptr = call[t].ptr]]
        BY <2>5 DEF TrackerRealloc, TypeOK
      <3>2. call' \in [Threads -> Call]
        BY <2>2, <3>1 DEF TypeOK
      <3>3. QED
        BY <1>a, <1>3, <2>5, <3>2, GotoType DEF HookRealloc, TrackerRealloc, TypeOK
    <2>6. QED
      BY <1>3, <2>3, <2>4, <2>5 DEF HookRealloc
  <1>4. ASSUME NEW from, NEW to \in Positions, Guard(t, from, to)
        PROVE  TypeOK'
    BY <1>4, GotoType, ResumeType DEF Guard, TypeOK
  <1>5. CASE AllocGuard(t) \/ FreeGuard(t) \/ ReportGuard(t)
    BY <1>a, <1>4, <1>5 DEF AllocGuard, FreeGuard, ReportGuard
  <1>6. CASE AllocLock(t) \/ FreeLock(t)
    BY <1>a, <1>6, GotoType DEF AllocLock, FreeLock, Lock, TypeOK
  <1>7. CASE ReportLock(t)
    <2>1. [NoScan EXCEPT !.todo = DOMAIN stacks] \in Scan
      BY ConstantTypes DEF NoScan, Scan, TypeOK
    <2>2. QED
      BY <1>a, <1>7, <2>1, GotoType DEF ReportLock, Lock, TypeOK
  <1>8. CASE Unlock(t)
    <2>1. NoScan \in Scan
      BY ConstantTypes DEF NoScan, Scan
    <2>2. QED
      BY <1>8, <2>1, ResumeType DEF Unlock, TypeOK
  <1>9. QED
    BY <1>1, <1>2, <1>3, <1>5, <1>6, <1>7, <1>8

\* The statistics of a stack after alloc(), after free() and after report().
LEMMA StackUpdateType ==
  ASSUME NEW stack \in Stack, NEW size \in Bytes
  PROVE  /\ Counted(stack, size) \in Stack
         /\ Uncounted(stack, size) \in Stack
         /\ [stack EXCEPT !.prev_num_bytes = stack.num_bytes] \in Stack
  <1>1. stack.num_bytes \in Int /\ size \in Int
    BY ConstantsAssumption DEF Stack, Bytes
  <1>2. Wrap(stack.num_bytes + size) \in Bytes /\ Wrap(stack.num_bytes - size) \in Bytes
    BY <1>1, WrapType
  <1>3. ASSUME NEW n \in Int, NEW b \in Bytes
        PROVE  /\ [stack EXCEPT !.num_allocs = n, !.num_bytes = b] \in Stack
               /\ [stack EXCEPT !.prev_num_bytes = b] \in Stack
    BY DEF Stack
  <1>4. /\ stack.num_allocs + 1 \in Int /\ stack.num_allocs - 1 \in Int
        /\ stack.num_bytes \in Bytes
    BY DEF Stack
  <1>5. QED
    BY <1>2, <1>3, <1>4 DEF Counted, Uncounted

\* The tracker's work under the lock.
LEMMA TrackerType ==
  ASSUME TypeOK, ScanValid, NEW t \in Threads,
         \/ AllocStack(t) \/ AllocRecord(t) \/ FreeFind(t) \/ FreeStack(t)
         \/ ReportScan(t) \/ ReportMark(t)
  PROVE  TypeOK'
  <1> USE DEF appVars, captureVars
  <1>a. /\ "alloc_record" \in Positions /\ "free_stack" \in Positions
        /\ "report_scan" \in Positions /\ "report_mark" \in Positions
        /\ "unlock" \in Positions
    BY DEF Positions, Tracing
  <1>b. /\ call[t] \in Call /\ call[t].ptr \in Ptrs /\ call[t].size \in Bytes
        /\ call[t].key \in AllKeys /\ call[t].nfree \in Bytes
    BY DEF TypeOK, Call
  <1>1. CASE AllocStack(t)
    <2>1. PICK key : key = call[t].key
      OBVIOUS
    <2>2. /\ DOMAIN stacks' \subseteq AllKeys /\ stacks' \in [DOMAIN stacks' -> Stack]
          /\ IsFiniteSet(DOMAIN stacks')
      <3>1. CASE key \notin DOMAIN stacks
        <4>1. stacks' = Put(stacks, key, NewStack)
          BY <1>1, <2>1, <3>1 DEF AllocStack
        <4>2. /\ stacks \in [DOMAIN stacks -> Stack] /\ DOMAIN stacks \subseteq AllKeys
              /\ IsFiniteSet(DOMAIN stacks)
              /\ key \in AllKeys /\ NewStack \in Stack
          BY <1>b, <2>1, ConstantTypes DEF TypeOK
        <4>3. QED
          BY <4>1, <4>2, PutType
      <3>2. CASE key \in DOMAIN stacks
        <4>1. stacks' = [stacks EXCEPT ![key] = Counted(@, call[t].size)]
          BY <1>1, <2>1, <3>2 DEF AllocStack
        <4>2. Counted(stacks[key], call[t].size) \in Stack
          BY <1>b, <3>2, StackUpdateType DEF TypeOK
        <4>3. QED
          BY <3>2, <4>1, <4>2 DEF TypeOK
      <3>3. QED
        BY <3>1, <3>2
    <2>3. QED
      BY <1>1, <1>a, <2>2, GotoType DEF AllocStack, TypeOK
  <1>2. CASE AllocRecord(t)
    <2>1. [num_bytes |-> call[t].size, key |-> call[t].key] \in Record
      BY <1>b DEF Record
    <2>2. /\ DOMAIN allocations' \subseteq Ptrs
          /\ allocations' \in [DOMAIN allocations' -> Record]
          /\ IsFiniteSet(DOMAIN allocations')
      <3>1. /\ allocations \in [DOMAIN allocations -> Record] /\ DOMAIN allocations \subseteq Ptrs
            /\ IsFiniteSet(DOMAIN allocations)
        BY DEF TypeOK
      <3>2. PICK record \in Record, ptr \in Ptrs : allocations' = Put(allocations, ptr, record)
        BY <1>2, <1>b, <2>1 DEF AllocRecord
      <3>3. QED
        BY <3>1, <3>2, PutType
    <2>3. stats' \in Stats
      <3>1. PICK m \in Nat, n \in Nat :
              stats' = [stats EXCEPT !.max_num_allocations = m, !.max_num_stacks = n]
        <4>1. /\ Cardinality(DOMAIN allocations') \in Nat /\ Cardinality(DOMAIN stacks) \in Nat
              /\ stats.max_num_allocations \in Nat /\ stats.max_num_stacks \in Nat
          BY <2>2, FS_CardinalityType DEF TypeOK, Stats
        <4>2. \A a, b \in Nat : LMax(a, b) \in Nat
          BY DEF LMax
        <4>3. QED
          BY <1>2, <4>1, <4>2 DEF AllocRecord
      <3>2. QED
        BY <3>1 DEF TypeOK, Stats
    <2>4. QED
      BY <1>2, <1>a, <2>2, <2>3, GotoType DEF AllocRecord, TypeOK
  <1>3. CASE FreeFind(t)
    <2>1. CASE call[t].ptr \notin DOMAIN allocations
      BY <1>3, <1>a, <2>1, GotoType DEF FreeFind, TypeOK
    <2>2. CASE call[t].ptr \in DOMAIN allocations
      <3>1. PICK record \in Record : record = allocations[call[t].ptr]
        BY <2>2 DEF TypeOK
      <3>2. /\ DOMAIN Drop(allocations, call[t].ptr) \subseteq Ptrs
            /\ Drop(allocations, call[t].ptr)
                 \in [DOMAIN Drop(allocations, call[t].ptr) -> Record]
            /\ IsFiniteSet(DOMAIN Drop(allocations, call[t].ptr))
        BY DropType DEF TypeOK
      <3>3. [[call[t] EXCEPT !.fkey = record.key] EXCEPT !.nfree = record.num_bytes] \in Call
        BY <1>b DEF Record, Call
      <3>4. call' = [call EXCEPT ![t] =
                       [[call[t] EXCEPT !.fkey = record.key] EXCEPT !.nfree = record.num_bytes]]
        BY <1>3, <2>2, <3>1 DEF FreeFind, TypeOK
      <3>5. call' \in [Threads -> Call]
        BY <3>3, <3>4 DEF TypeOK
      <3>6. pc' \in [Threads -> Positions]
        BY <1>3, <1>a, <2>2, GotoType DEF FreeFind
      <3>7. allocations' = Drop(allocations, call[t].ptr)
        BY <1>3, <2>2 DEF FreeFind
      <3>8. QED
        BY <1>3, <3>2, <3>5, <3>6, <3>7 DEF FreeFind, TypeOK
    <2>3. QED
      BY <2>1, <2>2
  <1>4. CASE FreeStack(t)
    <2>1. PICK key : key = call[t].fkey
      OBVIOUS
    <2>2. /\ DOMAIN stacks' \subseteq AllKeys /\ stacks' \in [DOMAIN stacks' -> Stack]
          /\ IsFiniteSet(DOMAIN stacks')
      <3>1. CASE key \notin DOMAIN stacks
        BY <1>4, <2>1, <3>1 DEF FreeStack, TypeOK
      <3>2. CASE key \in DOMAIN stacks /\ stacks[key].num_allocs - 1 = 0
        <4>1. stacks' = Drop(stacks, key)
          BY <1>4, <2>1, <3>2 DEF FreeStack
        <4>2. /\ stacks \in [DOMAIN stacks -> Stack] /\ DOMAIN stacks \subseteq AllKeys
              /\ IsFiniteSet(DOMAIN stacks)
          BY DEF TypeOK
        <4>3. QED
          BY <4>1, <4>2, DropType
      <3>3. CASE key \in DOMAIN stacks /\ stacks[key].num_allocs - 1 # 0
        <4>1. stacks' = [stacks EXCEPT ![key] = Uncounted(@, call[t].nfree)]
          BY <1>4, <2>1, <3>3 DEF FreeStack
        <4>2. Uncounted(stacks[key], call[t].nfree) \in Stack
          BY <1>b, <3>3, StackUpdateType DEF TypeOK
        <4>3. QED
          BY <3>3, <4>1, <4>2 DEF TypeOK
      <3>4. QED
        BY <3>1, <3>2, <3>3
    <2>3. QED
      BY <1>4, <1>a, <2>2, GotoType DEF FreeStack, TypeOK
  <1>5. CASE ReportScan(t)
    <2>1. PICK key \in scan[t].todo :
            scan' = [scan EXCEPT
                      ![t].todo = @ \ {key},
                      ![t].total = Wrap(@ + stacks[key].num_bytes)]
      BY <1>5 DEF ReportScan
    <2>2. scan[t] \in Scan /\ key \in AllKeys /\ key \in DOMAIN stacks
      BY <1>5, <2>1 DEF ReportScan, At, ScanValid, TypeOK, Scan
    <2>3. PICK total \in Bytes, todo \in SUBSET AllKeys :
            scan' = [scan EXCEPT ![t].todo = todo, ![t].total = total]
      <3>1. stacks[key].num_bytes \in Bytes /\ scan[t].total \in Bytes
        BY <2>2 DEF TypeOK, Stack, Scan
      <3>2. Wrap(scan[t].total + stacks[key].num_bytes) \in Bytes
        BY <3>1, WrapType, ConstantsAssumption DEF Bytes
      <3>3. scan[t].todo \ {key} \in SUBSET AllKeys
        BY <2>2 DEF Scan
      <3>4. QED
        BY <2>1, <3>2, <3>3 DEF TypeOK
    <2>4. [scan[t] EXCEPT !.todo = todo, !.total = total] \in Scan
      BY <2>2 DEF Scan
    <2>5. scan' \in [Threads -> Scan]
      BY <2>3, <2>4 DEF TypeOK
    <2>6. QED
      BY <1>5, <1>a, <2>5, GotoType DEF ReportScan, TypeOK, dataVars
  <1>6. CASE ReportMark(t)
    <2>1. stats' \in Stats
      BY <1>6 DEF ReportMark, TypeOK, Stats, Scan
    <2>2. DOMAIN stacks' = DOMAIN stacks
      BY <1>6 DEF ReportMark
    <2>3. ASSUME NEW key \in DOMAIN stacks PROVE stacks'[key] \in Stack
      <3>1. stacks'[key] = [stacks[key] EXCEPT !.prev_num_bytes = stacks[key].num_bytes]
        BY <1>6 DEF ReportMark
      <3>2. stacks[key] \in Stack
        BY DEF TypeOK
      <3>3. QED
        BY <3>1, <3>2, <1>b, StackUpdateType
    <2>4. stacks' \in [DOMAIN stacks' -> Stack]
      BY <1>6, <2>2, <2>3 DEF ReportMark
    <2>5. QED
      BY <1>6, <1>a, <2>1, <2>2, <2>4, GotoType DEF ReportMark, TypeOK
  <1>7. QED
    BY <1>1, <1>2, <1>3, <1>4, <1>5, <1>6
\* mtrace(), muntrace(), exit() and the hooks the tracker itself enters.
LEMMA ControlType ==
  ASSUME TypeOK, NEW t \in Threads,
         \/ MtraceAtexit(t) \/ MtraceStore(t) \/ MtraceCheck(t) \/ MtraceSet(t)
         \/ ExitHandler(t) \/ ExitDone(t) \/ NestedCall(t) \/ NestedHook(t)
  PROVE  TypeOK'
  <1> USE DEF appVars, captureVars, dataVars
  <1>a. /\ "mtrace_check" \in Positions /\ "mtrace_store" \in Positions
        /\ "mtrace_set" \in Positions /\ "report_guard" \in Positions
        /\ "exited" \in Positions
    BY DEF Positions
  <1>1. CASE MtraceAtexit(t)
    BY <1>a, <1>1, GotoType DEF MtraceAtexit, TypeOK
  <1>2. CASE MtraceStore(t)
    BY <1>a, <1>2, GotoType DEF MtraceStore, TypeOK
  <1>3. CASE MtraceCheck(t)
    BY <1>a, <1>3, GotoType DEF MtraceCheck, TypeOK
  <1>4. CASE MtraceSet(t)
    BY <1>4, ResumeType DEF MtraceSet, TypeOK
  <1>5. CASE ExitHandler(t)
    <2>1. handlers' \in Nat
      BY <1>5 DEF ExitHandler, TypeOK
    <2>2. pc' \in [Threads -> Positions]
      BY <1>a, <1>5, GotoType DEF ExitHandler, Untrace
    <2>3. QED
      BY <1>5, <2>1, <2>2 DEF ExitHandler, Untrace, TypeOK
  <1>6. CASE ExitDone(t)
    BY <1>a, <1>6, GotoType DEF ExitDone, TypeOK
  <1>7. CASE NestedCall(t)
    BY <1>7 DEF NestedCall, TypeOK
  <1>8. CASE NestedHook(t)
    BY <1>8 DEF NestedHook, TypeOK
  <1>9. QED
    BY <1>1, <1>2, <1>3, <1>4, <1>5, <1>6, <1>7, <1>8

\* No step breaks the types; report() needs its iterator to be valid.
LEMMA NextType == TypeOK /\ ScanValid /\ [Next]_vars => TypeOK'
  <1> SUFFICES ASSUME TypeOK, ScanValid, [Next]_vars PROVE TypeOK'
    OBVIOUS
  <1>1. ASSUME NEW t \in Threads, Program(t) PROVE TypeOK'
    BY <1>1, ProgramType
  <1>2. ASSUME NEW t \in Threads, Library(t) PROVE TypeOK'
    BY <1>2, EntryType, TrackerType, ControlType DEF Library
  <1>3. ASSUME NEW t \in Threads, NestedCall(t) \/ NestedHook(t) PROVE TypeOK'
    BY <1>3, ControlType
  <1>4. CASE UNCHANGED vars
    BY <1>4 DEF TypeOK, vars, appVars, captureVars, dataVars
  <1>5. QED
    BY <1>1, <1>2, <1>3, <1>4 DEF Next, Finished

-----------------------------------------------------------------------------
(* Mutual exclusion and the guard against re-entering the tracker.         *)

\* A thread that moves between positions outside the tracker, or between
\* positions at which it owns the lock, keeps the lock and the guard as they are.
LEMMA MoveExclusion ==
  ASSUME TypeOK, Exclusion, NEW t \in Threads, NEW l \in Positions,
         \/ pc[t] \notin Tracing /\ l \notin Tracing
         \/ pc[t] \in Locked /\ l \in Locked,
         pc' = [pc EXCEPT ![t] = l], UNCHANGED <<lock, inTrace, nest>>
  PROVE  Exclusion'
  BY DEF TypeOK, Exclusion, Locked, Tracing

\* Where a thread goes when the tracker returns.
LEMMA ResumeMoves ==
  ASSUME TypeOK, NEW t \in Threads, Resume(t)
  PROVE  \E l \in {"alloc_guard", "exit", "app"} : pc' = [pc EXCEPT ![t] = l]
  BY DEF TypeOK, Resume, Goto

\* The steps a thread takes outside the tracker.
Outside(t) ==
  \/ Program(t) \/ HookAlloc(t) \/ HookFree(t) \/ HookRealloc(t)
  \/ MtraceAtexit(t) \/ MtraceStore(t) \/ MtraceCheck(t) \/ MtraceSet(t)
  \/ ExitHandler(t) \/ ExitDone(t)

\* A step outside the tracker touches neither its maps, nor its lock, nor the
\* guards, and leaves every other thread where it was.
LEMMA OutsideStep ==
  ASSUME TypeOK, NEW t \in Threads, Outside(t)
  PROVE  /\ UNCHANGED <<allocations, stacks, lock, inTrace, scan, nest>>
         /\ pc[t] \notin Tracing
         /\ \E l \in Positions \ Tracing : pc' = [pc EXCEPT ![t] = l]
         /\ \A u \in Threads \ {t} : call'[u] = call[u]
  <1> USE DEF appVars, captureVars, dataVars
  <1>1. CASE Program(t)
    <2>1. /\ UNCHANGED <<allocations, stacks, lock, inTrace, scan, nest>>
          /\ pc[t] = "app"
          /\ \E l \in {"hook_alloc", "hook_free", "hook_realloc", "mtrace", "report_guard",
                       "exit"} : pc' = [pc EXCEPT ![t] = l]
      BY <1>1 DEF Program, Malloc, Memalign, Mmap, LibcAlloc, Free, Munmap, LibcFree, Realloc,
                  Mtrace, Muntrace, Untrace, Exit, Calling, At, Goto
    <2>2. \A u \in Threads \ {t} : call'[u] = call[u]
      BY <1>1 DEF Program, Malloc, Memalign, Mmap, LibcAlloc, Free, Munmap, LibcFree, Realloc,
                  Mtrace, Muntrace, Untrace, Exit, TypeOK
    <2>3. QED
      BY <2>1, <2>2 DEF Tracing, Positions
  <1>2. CASE HookAlloc(t) \/ HookFree(t) \/ HookRealloc(t)
    <2>1. /\ UNCHANGED <<allocations, stacks, lock, inTrace, scan, nest>>
          /\ pc[t] \in {"hook_alloc", "hook_free", "hook_realloc"}
      BY <1>2 DEF HookAlloc, HookFree, HookRealloc, At
    <2>2. \E l \in {"alloc_guard", "free_guard", "exit", "app"} : pc' = [pc EXCEPT ![t] = l]
      BY <1>2, ResumeMoves DEF HookAlloc, HookFree, HookRealloc, TrackerRealloc, Goto
    <2>3. \A u \in Threads \ {t} : call'[u] = call[u]
      BY <1>2 DEF HookAlloc, HookFree, HookRealloc, TrackerRealloc, Resume, TypeOK
    <2>4. QED
      BY <2>1, <2>2, <2>3 DEF Tracing, Positions
  <1>3. CASE \/ MtraceAtexit(t) \/ MtraceStore(t) \/ MtraceCheck(t) \/ MtraceSet(t)
             \/ ExitHandler(t) \/ ExitDone(t)
    <2>1. /\ UNCHANGED <<allocations, stacks, lock, inTrace, scan, nest>>
          /\ pc[t] \in {"mtrace", "mtrace_store", "mtrace_check", "mtrace_set", "exit"}
      BY <1>3 DEF MtraceAtexit, MtraceStore, MtraceCheck, MtraceSet, ExitHandler, ExitDone,
                  Untrace, At
    <2>2. \E l \in {"mtrace_check", "mtrace_store", "mtrace_set", "report_guard", "exited",
                    "alloc_guard", "exit", "app"} : pc' = [pc EXCEPT ![t] = l]
      BY <1>3, ResumeMoves DEF MtraceAtexit, MtraceStore, MtraceCheck, MtraceSet, ExitHandler,
                               ExitDone, Untrace, Goto
    <2>3. \A u \in Threads \ {t} : call'[u] = call[u]
      BY <1>3 DEF MtraceAtexit, MtraceStore, MtraceCheck, MtraceSet, ExitHandler, ExitDone,
                  Untrace, Resume, TypeOK
    <2>4. QED
      BY <2>1, <2>2, <2>3 DEF Tracing, Positions
  <1>4. QED
    BY <1>1, <1>2, <1>3 DEF Outside

\* No step lets a second thread in, or one thread in twice.
LEMMA ExclusionStep ==
  ASSUME TypeOK, Exclusion, NoRelock, Next
  PROVE  Exclusion' /\ NoRelock'
  <1> USE DEF appVars, captureVars, dataVars
  <1>1. ASSUME NEW t \in Threads, Outside(t)
        PROVE  Exclusion' /\ NoRelock'
    BY <1>1, OutsideStep, MoveExclusion DEF NoRelock
  <1>2. ASSUME NEW t \in Threads,
               NEW from \in {"alloc_guard", "free_guard", "report_guard"},
               NEW to \in {"alloc_lock", "free_lock", "report_lock"}, Guard(t, from, to)
        PROVE  Exclusion' /\ NoRelock'
    <2>1. ~inTrace[t] /\ pc[t] \notin Tracing
      BY <1>2 DEF Guard, At, Exclusion, Tracing
    <2>2. pc' = [pc EXCEPT ![t] = to] /\ inTrace' = [inTrace EXCEPT ![t] = TRUE]
      BY <1>2, <2>1 DEF Guard, Goto
    <2>3. QED
      BY <1>2, <2>1, <2>2 DEF Guard, TypeOK, Exclusion, NoRelock, Tracing, Locked
  <1>3. ASSUME NEW t \in Threads, NEW from \in {"alloc_lock", "free_lock", "report_lock"},
               NEW to \in Locked, Lock(t, from, to)
        PROVE  Exclusion' /\ NoRelock'
    BY <1>3, ConstantsAssumption DEF Lock, At, Goto, TypeOK, Exclusion, NoRelock, Tracing, Locked
  <1>4. ASSUME NEW t \in Threads, Unlock(t)
        PROVE  Exclusion' /\ NoRelock'
    <2>1. PICK l \in {"alloc_guard", "exit", "app"} : pc' = [pc EXCEPT ![t] = l]
      BY <1>4, ResumeMoves DEF Unlock
    <2>2. lock = t /\ lock' = NoThread /\ inTrace' = [inTrace EXCEPT ![t] = FALSE]
          /\ nest[t] = "none" /\ UNCHANGED nest
      BY <1>4 DEF Unlock, At, Exclusion, Locked
    <2>3. QED
      BY <2>1, <2>2, ConstantsAssumption DEF TypeOK, Exclusion, NoRelock, Tracing, Locked
  <1>5. ASSUME NEW t \in Threads,
               \/ AllocStack(t) \/ AllocRecord(t) \/ FreeFind(t) \/ FreeStack(t)
               \/ ReportScan(t) \/ ReportMark(t)
        PROVE  Exclusion' /\ NoRelock'
    <2>1. UNCHANGED <<lock, inTrace, nest>>
      BY <1>5 DEF AllocStack, AllocRecord, FreeFind, FreeStack, ReportScan, ReportMark
    <2>2. pc[t] \in Locked
      BY <1>5 DEF AllocStack, AllocRecord, FreeFind, FreeStack, ReportScan, ReportMark, At, Locked
    <2>3. \E l \in Locked : pc' = [pc EXCEPT ![t] = l]
      BY <1>5 DEF AllocStack, AllocRecord, FreeFind, FreeStack, ReportScan, ReportMark, Goto, Locked
    <2>4. Locked \subseteq Positions
      BY DEF Locked, Positions, Tracing
    <2>5. QED
      BY <2>1, <2>2, <2>3, <2>4, MoveExclusion DEF NoRelock
  <1>6. ASSUME NEW t \in Threads, NestedCall(t) \/ NestedHook(t)
        PROVE  Exclusion' /\ NoRelock'
    BY <1>6 DEF NestedCall, NestedHook, TypeOK, Exclusion, NoRelock
  <1>7. CASE UNCHANGED vars
    BY <1>7 DEF Exclusion, NoRelock, vars
  <1>8. ASSUME NEW t \in Threads, Library(t)
        PROVE  Exclusion' /\ NoRelock'
    <2>1. CASE AllocGuard(t) \/ FreeGuard(t) \/ ReportGuard(t)
      BY <1>2, <2>1 DEF AllocGuard, FreeGuard, ReportGuard
    <2>2. CASE AllocLock(t) \/ FreeLock(t) \/ ReportLock(t)
      BY <1>3, <2>2 DEF AllocLock, FreeLock, ReportLock, Locked
    <2>3. QED
      BY <1>1, <1>4, <1>5, <1>8, <2>1, <2>2 DEF Library, Outside
  <1>9. QED
    BY <1>1, <1>6, <1>7, <1>8 DEF Next, Finished, Outside
-----------------------------------------------------------------------------
(* The records, the stacks and report()'s iterator.                        *)

\* What the counts and the records of a stack are.
LEMMA CoverTypes ==
  ASSUME TypeOK, NEW k \in AllKeys
  PROVE  /\ IsFiniteSet(RecordsOf(k)) /\ Cardinality(RecordsOf(k)) \in Nat
         /\ CountOf(k) \in Int
         /\ Pending(k) \in {0, 1}
  <1>1. IsFiniteSet(RecordsOf(k))
    BY FS_Subset DEF TypeOK, RecordsOf
  <1>2. CountOf(k) \in Int
    BY DEF TypeOK, CountOf, Stack
  <1>3. QED
    BY <1>1, <1>2, FS_CardinalityType DEF Pending

\* A thread that passes a guard only moves.
LEMMA GuardStep ==
  ASSUME TypeOK, Exclusion, NEW t \in Threads,
         AllocGuard(t) \/ FreeGuard(t) \/ ReportGuard(t)
  PROVE  /\ UNCHANGED <<allocations, stacks, lock, scan, call>>
         /\ pc[t] \notin Tracing
         /\ \E l \in {"alloc_lock", "free_lock", "report_lock"} : pc' = [pc EXCEPT ![t] = l]
  <1> USE DEF dataVars
  <1>1. ASSUME NEW from \in {"alloc_guard", "free_guard", "report_guard"},
               NEW to \in {"alloc_lock", "free_lock", "report_lock"}, Guard(t, from, to)
        PROVE  /\ UNCHANGED <<allocations, stacks, lock, scan, call>>
               /\ pc[t] \notin Tracing
               /\ pc' = [pc EXCEPT ![t] = to]
    <2>1. ~inTrace[t] /\ pc[t] \notin Tracing
      BY <1>1 DEF Guard, At, Exclusion, Tracing
    <2>2. QED
      BY <1>1, <2>1 DEF Guard, Goto
  <1>2. QED
    BY <1>1 DEF AllocGuard, FreeGuard, ReportGuard

\* report() sees every stack it has yet to visit, because only the owner of the
\* lock changes the stacks.
LEMMA ScanValidStep ==
  ASSUME TypeOK, Exclusion, ScanValid, Next
  PROVE  ScanValid'
  <1> USE DEF appVars, captureVars, dataVars
  <1>1. ASSUME NEW t \in Threads, NEW l \in Positions \ {"report_scan"},
               pc' = [pc EXCEPT ![t] = l], UNCHANGED stacks,
               \A u \in Threads \ {t} : scan'[u] = scan[u]
        PROVE  ScanValid'
    BY <1>1 DEF ScanValid, TypeOK
  <1>2. ASSUME NEW t \in Threads, NEW l \in Positions \ {"report_scan"},
               pc[t] \in Locked, pc' = [pc EXCEPT ![t] = l]
        PROVE  ScanValid'
    BY <1>2 DEF ScanValid, TypeOK, Exclusion, Locked
  <1>3. ASSUME NEW t \in Threads, Outside(t) PROVE ScanValid'
    BY <1>1, <1>3, OutsideStep DEF Tracing
  <1>4. ASSUME NEW t \in Threads, AllocGuard(t) \/ FreeGuard(t) \/ ReportGuard(t)
        PROVE  ScanValid'
    BY <1>1, <1>4, GuardStep DEF Positions, Tracing
  <1>5. ASSUME NEW t \in Threads, AllocLock(t) \/ FreeLock(t) PROVE ScanValid'
    BY <1>1, <1>5 DEF AllocLock, FreeLock, Lock, Goto, Positions, Tracing
  <1>6. ASSUME NEW t \in Threads, ReportLock(t) PROVE ScanValid'
    <2>1. scan'[t].todo = DOMAIN stacks
      BY <1>6 DEF ReportLock, TypeOK, NoScan
    <2>2. /\ \A u \in Threads \ {t} : scan'[u] = scan[u] /\ pc'[u] = pc[u]
          /\ UNCHANGED stacks
      BY <1>6 DEF ReportLock, Lock, Goto, TypeOK
    <2>3. QED
      BY <2>1, <2>2 DEF ScanValid
  <1>7. ASSUME NEW t \in Threads, Unlock(t) PROVE ScanValid'
    <2>1. \A u \in Threads \ {t} : scan'[u] = scan[u]
      BY <1>7 DEF Unlock, TypeOK
    <2>2. UNCHANGED stacks
      BY <1>7 DEF Unlock
    <2>3. PICK l \in {"alloc_guard", "exit", "app"} : pc' = [pc EXCEPT ![t] = l]
      BY <1>7, ResumeMoves DEF Unlock
    <2>4. QED
      BY <1>1, <2>1, <2>2, <2>3 DEF Positions
  <1>8. ASSUME NEW t \in Threads,
               AllocStack(t) \/ AllocRecord(t) \/ FreeFind(t) \/ FreeStack(t) \/ ReportMark(t)
        PROVE  ScanValid'
    <2>1. pc[t] \in Locked
      BY <1>8 DEF AllocStack, AllocRecord, FreeFind, FreeStack, ReportMark, At, Locked
    <2>2. \E l \in {"alloc_record", "free_stack", "unlock"} : pc' = [pc EXCEPT ![t] = l]
      BY <1>8 DEF AllocStack, AllocRecord, FreeFind, FreeStack, ReportMark, Goto
    <2>3. QED
      BY <1>2, <2>1, <2>2 DEF Positions, Tracing
  <1>9. ASSUME NEW t \in Threads, ReportScan(t) PROVE ScanValid'
    <2>1. scan'[t].todo \subseteq scan[t].todo
      BY <1>9 DEF ReportScan, TypeOK, Scan
    <2>2. /\ \A u \in Threads \ {t} : scan'[u] = scan[u] /\ pc'[u] = pc[u]
          /\ pc[t] = "report_scan" /\ UNCHANGED stacks
      BY <1>9 DEF ReportScan, At, Goto, TypeOK
    <2>3. QED
      BY <2>1, <2>2 DEF ScanValid
  <1>10. ASSUME NEW t \in Threads, NestedCall(t) \/ NestedHook(t) PROVE ScanValid'
    BY <1>10 DEF NestedCall, NestedHook, ScanValid
  <1>11. CASE UNCHANGED vars
    BY <1>11 DEF ScanValid, vars
  <1>12. QED
    BY <1>3, <1>4, <1>5, <1>6, <1>7, <1>8, <1>9, <1>10, <1>11 DEF Next, Finished, Library, Outside

\* A thread that moves between positions at which it owes the counts nothing
\* leaves what the lock's owner owes as it was.
LEMMA PendingKeep ==
  ASSUME TypeOK, Exclusion, NEW t \in Threads, NEW l \in Positions,
         pc[t] \notin {"alloc_record", "free_stack"}, l \notin {"alloc_record", "free_stack"},
         pc' = [pc EXCEPT ![t] = l], \A u \in Threads \ {t} : call'[u] = call[u],
         \/ lock' = lock
         \/ lock = NoThread /\ lock' = t
         \/ lock = t /\ lock' = NoThread,
         UNCHANGED <<allocations, stacks>>, StacksCover
  PROVE  StacksCover'
  <1>1. \A k \in AllKeys : Pending(k)' = Pending(k)
    BY ConstantsAssumption DEF Pending, TypeOK
  <1>2. \A k \in AllKeys : RecordsOf(k)' = RecordsOf(k) /\ CountOf(k)' = CountOf(k)
    BY DEF RecordsOf, CountOf
  <1>3. QED
    BY <1>1, <1>2 DEF StacksCover

\* alloc() counts the block first ...
LEMMA AllocStackCover ==
  ASSUME TypeOK, TypeOK', Exclusion, StacksCover, NEW t \in Threads, AllocStack(t)
  PROVE  StacksCover'
  <1>1. /\ lock = t /\ lock' = t /\ pc[t] = "alloc_stack" /\ pc'[t] = "alloc_record"
        /\ UNCHANGED <<allocations, call>>
    BY DEF AllocStack, At, Goto, Exclusion, Locked, TypeOK
  <1>2. SUFFICES ASSUME NEW k \in AllKeys
                 PROVE  Cardinality(RecordsOf(k))' + Pending(k)' <= CountOf(k)'
    BY DEF StacksCover
  <1>3. Cardinality(RecordsOf(k))' = Cardinality(RecordsOf(k))
    BY <1>1 DEF RecordsOf
  <1>4. Cardinality(RecordsOf(k)) + Pending(k) <= CountOf(k)
    BY DEF StacksCover
  <1>5. Pending(k) = 0 /\ Pending(k)' = IF call[t].key = k THEN 1 ELSE 0
    BY <1>1, ConstantsAssumption DEF Pending
  <1>6. call[t].key \in AllKeys /\ call[t].size \in Bytes
    BY DEF TypeOK, Call
  <1>7. CountOf(k)' = IF call[t].key = k THEN CountOf(k) + 1 ELSE CountOf(k)
    <2>1. CASE call[t].key \notin DOMAIN stacks
      <3>1. stacks' = Put(stacks, call[t].key, NewStack)
        BY <2>1 DEF AllocStack
      <3>2. QED
        BY <2>1, <3>1 DEF Put, NewStack, CountOf
    <2>2. CASE call[t].key \in DOMAIN stacks
      <3>1. stacks' = [stacks EXCEPT ![call[t].key] = Counted(stacks[call[t].key], call[t].size)]
        BY <2>2 DEF AllocStack
      <3>2. \A s \in Stack : Counted(s, call[t].size).num_allocs = s.num_allocs + 1
        BY DEF Counted, Stack
      <3>3. stacks[call[t].key] \in Stack
        BY <2>2 DEF TypeOK
      <3>4. QED
        BY <2>2, <3>1, <3>2, <3>3 DEF CountOf, TypeOK
    <2>3. QED
      BY <2>1, <2>2
  <1>8. QED
    BY <1>3, <1>4, <1>5, <1>7, CoverTypes

\* ... and records it second.
LEMMA AllocRecordCover ==
  ASSUME TypeOK, Exclusion, StacksCover, NEW t \in Threads, AllocRecord(t)
  PROVE  StacksCover'
  <1>1. /\ lock = t /\ lock' = t /\ pc[t] = "alloc_record" /\ pc'[t] = "unlock"
        /\ UNCHANGED <<stacks, call>>
    BY DEF AllocRecord, At, Goto, Exclusion, Locked, TypeOK
  <1>2. SUFFICES ASSUME NEW k \in AllKeys
                 PROVE  Cardinality(RecordsOf(k))' + Pending(k)' <= CountOf(k)'
    BY DEF StacksCover
  <1>3. CountOf(k)' = CountOf(k)
    BY <1>1 DEF CountOf
  <1>4. Cardinality(RecordsOf(k)) + Pending(k) <= CountOf(k)
    BY DEF StacksCover
  <1>5. Pending(k)' = 0 /\ Pending(k) = IF call[t].key = k THEN 1 ELSE 0
    BY <1>1, ConstantsAssumption DEF Pending
  <1>6. allocations' = Put(allocations, call[t].ptr,
                           [num_bytes |-> call[t].size, key |-> call[t].key])
    BY DEF AllocRecord
  <1>7. CASE call[t].key = k
    <2>1. RecordsOf(k)' = RecordsOf(k) \cup {call[t].ptr}
      BY <1>6, <1>7 DEF RecordsOf, Put
    <2>2. Cardinality(RecordsOf(k))' <= Cardinality(RecordsOf(k)) + 1
          /\ Cardinality(RecordsOf(k))' \in Nat
      <3>1. /\ IsFiniteSet(RecordsOf(k)) /\ Cardinality(RecordsOf(k)) \in Nat
        BY CoverTypes
      <3>2. /\ Cardinality(RecordsOf(k) \cup {call[t].ptr}) <= Cardinality(RecordsOf(k)) + 1
            /\ Cardinality(RecordsOf(k) \cup {call[t].ptr}) \in Nat
        <4>1. Cardinality(RecordsOf(k) \cup {call[t].ptr})
                \in {Cardinality(RecordsOf(k)), Cardinality(RecordsOf(k)) + 1}
          BY <3>1, FS_AddElement
        <4>2. QED
          BY <3>1, <4>1
      <3>3. QED
        BY <2>1, <3>2
    <2>3. QED
      BY <1>3, <1>4, <1>5, <1>7, <2>2, CoverTypes
  <1>8. CASE call[t].key # k
    <2>1. RecordsOf(k)' \subseteq RecordsOf(k)
      BY <1>6, <1>8 DEF RecordsOf, Put
    <2>2. Cardinality(RecordsOf(k))' <= Cardinality(RecordsOf(k))
          /\ Cardinality(RecordsOf(k))' \in Nat
      BY <2>1, CoverTypes, FS_Subset, FS_CardinalityType
    <2>3. QED
      BY <1>3, <1>4, <1>5, <1>8, <2>2, CoverTypes
  <1>9. QED
    BY <1>7, <1>8

\* free() takes the record out first ...
LEMMA FreeFindCover ==
  ASSUME TypeOK, Exclusion, StacksCover, NEW t \in Threads, FreeFind(t)
  PROVE  StacksCover'
  <1>1. /\ lock = t /\ lock' = t /\ pc[t] = "free_find" /\ UNCHANGED stacks
    BY DEF FreeFind, At, Exclusion, Locked
  <1>2. CASE call[t].ptr \notin DOMAIN allocations
    <2>1. pc' = [pc EXCEPT ![t] = "unlock"] /\ UNCHANGED <<allocations, call>>
      BY <1>2 DEF FreeFind, Goto
    <2>2. "unlock" \in Positions
      BY DEF Positions, Tracing
    <2>3. QED
      BY <1>1, <2>1, <2>2, PendingKeep
  <1>3. CASE call[t].ptr \in DOMAIN allocations
    <2>1. PICK record \in Record : record = allocations[call[t].ptr]
      BY <1>3 DEF TypeOK
    <2>2. SUFFICES ASSUME NEW k \in AllKeys
                   PROVE  Cardinality(RecordsOf(k))' + Pending(k)' <= CountOf(k)'
      BY DEF StacksCover
    <2>3. CountOf(k)' = CountOf(k)
      BY <1>1 DEF CountOf
    <2>4. Cardinality(RecordsOf(k)) + Pending(k) <= CountOf(k)
      BY DEF StacksCover
    <2>5. allocations' = Drop(allocations, call[t].ptr)
      BY <1>3 DEF FreeFind
    <2>6. RecordsOf(k)' = RecordsOf(k) \ {call[t].ptr}
      BY <2>5 DEF RecordsOf, Drop, Restrict
    <2>7. Pending(k) = 0
      BY <1>1, ConstantsAssumption DEF Pending
    <2>8. CASE record.key = k
      <3>1. call[t].ptr \in RecordsOf(k)
        BY <1>3, <2>1, <2>8 DEF RecordsOf
      <3>2. Cardinality(RecordsOf(k))' = Cardinality(RecordsOf(k)) - 1
        <4>1. IsFiniteSet(RecordsOf(k))
          BY CoverTypes
        <4>2. Cardinality(RecordsOf(k) \ {call[t].ptr}) = Cardinality(RecordsOf(k)) - 1
          BY <3>1, <4>1, FS_RemoveElement
        <4>3. QED
          BY <2>6, <4>2
      <3>3. Pending(k)' \in {0, 1}
        BY DEF Pending
      <3>4. QED
        BY <2>3, <2>4, <2>7, <3>2, <3>3, CoverTypes
    <2>9. CASE record.key # k
      <3>1. call[t].ptr \notin RecordsOf(k)
        BY <2>1, <2>9 DEF RecordsOf
      <3>2. Cardinality(RecordsOf(k))' = Cardinality(RecordsOf(k))
        <4>1. RecordsOf(k)' = RecordsOf(k)
          BY <2>6, <3>1
        <4>2. QED
          BY <4>1
      <3>3. Pending(k)' = 0
        <4>1. /\ call'[t].fkey = record.key
              /\ pc'[t] \in {"unlock", "free_stack"}
          <5>1. call' = [call EXCEPT ![t] =
                  [[call[t] EXCEPT !.fkey = record.key] EXCEPT !.nfree = record.num_bytes]]
            BY <1>3, <2>1 DEF FreeFind, TypeOK
          <5>2. call[t] \in Call
            BY DEF TypeOK
          <5>3. \A c \in Call : [[c EXCEPT !.fkey = record.key]
                                    EXCEPT !.nfree = record.num_bytes].fkey = record.key
            BY DEF Call
          <5>4. call'[t].fkey = record.key
            BY <5>1, <5>2, <5>3 DEF TypeOK
          <5>5. QED
            BY <1>3, <5>4 DEF FreeFind, Goto, TypeOK
        <4>2. QED
          BY <1>1, <2>9, <4>1 DEF Pending
      <3>4. QED
        BY <2>3, <2>4, <2>7, <3>2, <3>3, CoverTypes
    <2>10. QED
      BY <2>8, <2>9
  <1>4. QED
    BY <1>2, <1>3

\* ... and uncounts the block second.
LEMMA FreeStackCover ==
  ASSUME TypeOK, Exclusion, StacksCover, NEW t \in Threads, FreeStack(t)
  PROVE  StacksCover'
  <1>1. /\ lock = t /\ lock' = t /\ pc[t] = "free_stack" /\ pc'[t] = "unlock"
        /\ UNCHANGED <<allocations, call>>
    BY DEF FreeStack, At, Goto, Exclusion, Locked, TypeOK
  <1>2. SUFFICES ASSUME NEW k \in AllKeys
                 PROVE  Cardinality(RecordsOf(k))' + Pending(k)' <= CountOf(k)'
    BY DEF StacksCover
  <1>3. Cardinality(RecordsOf(k))' = Cardinality(RecordsOf(k))
    BY <1>1 DEF RecordsOf
  <1>4. Cardinality(RecordsOf(k)) + Pending(k) <= CountOf(k)
    BY DEF StacksCover
  <1>5. Pending(k)' = 0 /\ Pending(k) = IF call[t].fkey = k THEN 1 ELSE 0
    BY <1>1, ConstantsAssumption DEF Pending
  <1>6. CountOf(k)' = IF call[t].fkey = k /\ k \in DOMAIN stacks
                      THEN CountOf(k) - 1 ELSE CountOf(k)
    <2>1. CASE call[t].fkey \notin DOMAIN stacks
      BY <2>1 DEF FreeStack, CountOf
    <2>2. CASE call[t].fkey \in DOMAIN stacks /\ stacks[call[t].fkey].num_allocs - 1 = 0
      <3>1. stacks' = Drop(stacks, call[t].fkey)
        BY <2>2 DEF FreeStack
      <3>2. stacks[call[t].fkey].num_allocs \in Int
        BY <2>2 DEF TypeOK, Stack
      <3>3. QED
        BY <2>2, <3>1, <3>2 DEF Drop, Restrict, CountOf
    <2>3. CASE call[t].fkey \in DOMAIN stacks /\ stacks[call[t].fkey].num_allocs - 1 # 0
      <3>1. stacks' = [stacks EXCEPT ![call[t].fkey] =
                         Uncounted(stacks[call[t].fkey], call[t].nfree)]
        BY <2>3 DEF FreeStack
      <3>2. \A s \in Stack : Uncounted(s, call[t].nfree).num_allocs = s.num_allocs - 1
        BY DEF Uncounted, Stack
      <3>3. stacks[call[t].fkey] \in Stack
        BY <2>3 DEF TypeOK
      <3>4. QED
        BY <2>3, <3>1, <3>2, <3>3 DEF CountOf, TypeOK
    <2>4. QED
      BY <2>1, <2>2, <2>3
  <1>7. QED
    BY <1>3, <1>4, <1>5, <1>6, CoverTypes DEF CountOf

\* No step leaves a stack counting fewer blocks than are recorded under its key.
LEMMA StacksCoverStep ==
  ASSUME TypeOK, TypeOK', Exclusion, StacksCover, Next
  PROVE  StacksCover'
  <1> USE DEF appVars, captureVars, dataVars
  <1>1. ASSUME NEW t \in Threads, Outside(t) PROVE StacksCover'
    BY <1>1, OutsideStep, PendingKeep DEF Tracing
  <1>2. ASSUME NEW t \in Threads, AllocGuard(t) \/ FreeGuard(t) \/ ReportGuard(t)
        PROVE  StacksCover'
    BY <1>2, GuardStep, PendingKeep DEF Tracing, Positions
  <1>3. ASSUME NEW t \in Threads, AllocLock(t) \/ FreeLock(t) \/ ReportLock(t)
        PROVE  StacksCover'
    <2>1. /\ UNCHANGED <<allocations, stacks, call>>
          /\ lock = NoThread /\ lock' = t
          /\ pc[t] \in {"alloc_lock", "free_lock", "report_lock"}
      BY <1>3 DEF AllocLock, FreeLock, ReportLock, Lock, At
    <2>2. \E l \in {"alloc_stack", "free_find", "report_scan", "report_mark"} :
             pc' = [pc EXCEPT ![t] = l]
      BY <1>3 DEF AllocLock, FreeLock, ReportLock, Lock, Goto
    <2>3. QED
      BY <2>1, <2>2, PendingKeep DEF Positions, Tracing
  <1>4. ASSUME NEW t \in Threads, Unlock(t) PROVE StacksCover'
    <2>1. /\ UNCHANGED <<allocations, stacks>>
          /\ lock = t /\ lock' = NoThread /\ pc[t] = "unlock"
      BY <1>4 DEF Unlock, At, Exclusion, Locked
    <2>2. \E l \in {"alloc_guard", "exit", "app"} : pc' = [pc EXCEPT ![t] = l]
      BY <1>4, ResumeMoves DEF Unlock
    <2>3. \A u \in Threads \ {t} : call'[u] = call[u]
      BY <1>4 DEF Unlock, Resume, TypeOK
    <2>4. QED
      BY <2>1, <2>2, <2>3, PendingKeep DEF Positions, Tracing
  <1>5. ASSUME NEW t \in Threads, ReportScan(t) PROVE StacksCover'
    <2>1. /\ UNCHANGED <<allocations, stacks, call, lock>> /\ pc[t] = "report_scan"
          /\ \E l \in {"report_scan", "report_mark"} : pc' = [pc EXCEPT ![t] = l]
      BY <1>5 DEF ReportScan, At, Goto
    <2>2. QED
      BY <2>1, PendingKeep DEF Positions, Tracing
  <1>6. ASSUME NEW t \in Threads, ReportMark(t) PROVE StacksCover'
    <2>1. /\ lock = t /\ lock' = t /\ pc[t] = "report_mark" /\ pc'[t] = "unlock"
          /\ UNCHANGED allocations
      BY <1>6 DEF ReportMark, At, Goto, Exclusion, Locked, TypeOK
    <2>2. \A k \in AllKeys : Pending(k) = 0 /\ Pending(k)' = 0
      BY <2>1 DEF Pending
    <2>3. \A k \in AllKeys : RecordsOf(k)' = RecordsOf(k)
      BY <2>1 DEF RecordsOf
    <2>4. \A k \in AllKeys : CountOf(k)' = CountOf(k)
      <3>1. \A s \in Stack :
               [s EXCEPT !.prev_num_bytes = s.num_bytes].num_allocs = s.num_allocs
        BY DEF Stack
      <3>2. \A k \in DOMAIN stacks : stacks[k] \in Stack
        BY DEF TypeOK
      <3>3. stacks' = [k \in DOMAIN stacks |->
                         [stacks[k] EXCEPT !.prev_num_bytes = stacks[k].num_bytes]]
        BY <1>6 DEF ReportMark
      <3>4. QED
        BY <3>1, <3>2, <3>3 DEF CountOf
    <2>5. QED
      BY <2>2, <2>3, <2>4 DEF StacksCover
  <1>7. ASSUME NEW t \in Threads, NestedCall(t) \/ NestedHook(t) PROVE StacksCover'
    BY <1>7 DEF NestedCall, NestedHook, StacksCover, RecordsOf, CountOf, Pending
  <1>8. CASE UNCHANGED vars
    BY <1>8 DEF StacksCover, RecordsOf, CountOf, Pending, vars
  <1>9. QED
    BY <1>1, <1>2, <1>3, <1>4, <1>5, <1>6, <1>7, <1>8,
       AllocStackCover, AllocRecordCover, FreeFindCover, FreeStackCover
    DEF Next, Finished, Library, Outside

-----------------------------------------------------------------------------
(* The inductive invariant and the theorems.                               *)

\* Each part needs those before it: a map is touched by the lock's owner only,
\* so report() erases nothing under its own iterator, so what it reads is well
\* typed; and only one thread at a time may owe a stack a count.
IInv == TypeOK /\ Exclusion /\ NoRelock /\ ScanValid /\ StacksCover

\* Nothing is recorded, locked or traced when the library has been loaded.
LEMMA InitInv == Init => IInv
  <1> SUFFICES ASSUME Init PROVE IInv
    OBVIOUS
  <1>1. Exclusion /\ NoRelock /\ ScanValid
    BY ConstantsAssumption DEF Init, Exclusion, NoRelock, ScanValid, Locked, Tracing
  <1>2. StacksCover
    <2>1. ASSUME NEW k \in AllKeys
          PROVE  Cardinality(RecordsOf(k)) + Pending(k) <= CountOf(k)
      <3>1. RecordsOf(k) = {} /\ Pending(k) = 0 /\ CountOf(k) = 0
        BY DEF Init, RecordsOf, Pending, CountOf
      <3>2. QED
        BY <3>1, FS_EmptySet
    <2>2. QED
      BY <2>1 DEF StacksCover
  <1>3. QED
    BY <1>1, <1>2, InitType DEF IInv

\* Every step keeps the invariant.
LEMMA NextInv == IInv /\ [Next]_vars => IInv'
  <1> SUFFICES ASSUME IInv, [Next]_vars PROVE IInv'
    OBVIOUS
  <1>1. TypeOK'
    BY NextType DEF IInv
  <1>2. CASE Next
    BY <1>1, <1>2, ExclusionStep, ScanValidStep, StacksCoverStep DEF IInv
  <1>3. CASE UNCHANGED vars
    <2>1. Exclusion' /\ NoRelock' /\ ScanValid'
      BY <1>3 DEF IInv, Exclusion, NoRelock, ScanValid, vars, dataVars
    <2>2. StacksCover'
      BY <1>3 DEF IInv, StacksCover, RecordsOf, CountOf, Pending, vars, dataVars
    <2>3. QED
      BY <1>1, <2>1, <2>2 DEF IInv
  <1>4. QED
    BY <1>2, <1>3

\* The inductive invariant holds of every behaviour of the library.
THEOREM Invariance == Spec => []IInv
  BY InitInv, NextInv, PTL DEF Spec

\* The library's globals and every thread's locals keep their types; in
\* particular report() never reads a stack that is not in the map.
THEOREM TypeCorrect == Spec => []TypeOK
  <1>1. IInv => TypeOK
    BY DEF IInv
  <1>2. QED
    BY <1>1, Invariance, PTL

\* One thread at a time is between lock and unlock in alloc(), free() and
\* report(), and a thread inside the tracker has its _in_trace set.
THEOREM MutualExclusion == Spec => []Exclusion
  <1>1. IInv => Exclusion
    BY DEF IInv
  <1>2. QED
    BY <1>1, Invariance, PTL

\* The tracker's own allocations never make it ask for _reporting_lock while it
\* is inside: _in_trace turns them away, even while mtrace() and muntrace()
\* switch capturing on and off.
THEOREM NoSelfDeadlock == Spec => []NoRelock
  <1>1. IInv => NoRelock
    BY DEF IInv
  <1>2. QED
    BY <1>1, Invariance, PTL

\* No stack that report()'s loop has yet to visit is erased under it.
THEOREM ScanIsValid == Spec => []ScanValid
  <1>1. IInv => ScanValid
    BY DEF IInv
  <1>2. QED
    BY <1>1, Invariance, PTL

\* No stack counts fewer blocks than are recorded under its key, although
\* alloc() and free() change the two maps in separate statements.
THEOREM CoverIsKept == Spec => []StacksCover
  <1>1. IInv => StacksCover
    BY DEF IInv
  <1>2. QED
    BY <1>1, Invariance, PTL

\* free()'s assertion on num_allocs never fails and its "Internal error" is
\* never reached.
THEOREM AssertionHolds == Spec => []FreeAssert
  <1>1. IInv => FreeAssert
    <2>1. SUFFICES ASSUME IInv, NEW t \in Threads, pc[t] = "free_stack"
                   PROVE  /\ call[t].fkey \in DOMAIN stacks
                          /\ stacks[call[t].fkey].num_allocs - 1 >= 0
      BY DEF FreeAssert
    <2>2. PICK k \in AllKeys : k = call[t].fkey
      BY <2>1 DEF IInv, TypeOK, Call
    <2>3. Pending(k) = 1
      BY <2>1, <2>2, ConstantsAssumption DEF IInv, Exclusion, Locked, Pending
    <2>4. Cardinality(RecordsOf(k)) \in Nat /\ CountOf(k) \in Int
      BY <2>1, CoverTypes DEF IInv
    <2>5. Cardinality(RecordsOf(k)) + Pending(k) <= CountOf(k)
      BY <2>1 DEF IInv, StacksCover
    <2>6. CountOf(k) >= 1
      BY <2>3, <2>4, <2>5
    <2>7. k \in DOMAIN stacks /\ stacks[k].num_allocs >= 1
      BY <2>6 DEF CountOf
    <2>8. stacks[k].num_allocs \in Int
      BY <2>1, <2>7 DEF IInv, TypeOK, Stack
    <2>9. QED
      BY <2>2, <2>7, <2>8
  <1>2. QED
    BY <1>1, Invariance, PTL

-----------------------------------------------------------------------------
(***************************************************************************)
(* Nothing freed is reported.                                              *)
(***************************************************************************)

\* The positions of a call that gives the program a block, up to its record,
\* and those of a call that takes one back, up to the record's end.
AllocPath == {"hook_alloc", "alloc_guard", "alloc_lock", "alloc_stack", "alloc_record"}
FreePath == {"hook_free", "free_guard", "free_lock", "free_find"}

\* The program's calls when it neither resizes blocks nor calls muntrace().
Plain == "realloc" \notin AppCalls /\ "muntrace" \notin AppCalls

\* The block a call will hand to the program.
Owned(t) == {call[t].owned} \cap Addrs

\* A live block is held, on its way to the program in one call, or neither.
Possession ==
  /\ held \subseteq live
  /\ \A t \in Threads : Owned(t) \subseteq live \ held
  /\ \A t, u \in Threads : t # u => Owned(t) \cap Owned(u) = {}

\* What is recorded is the block that is handed over, and only exit() switches
\* capturing off.
Paths ==
  \A t \in Threads :
    /\ pc[t] \in AllocPath => call[t].ptr = call[t].owned
    /\ cont[t] # "alloc_guard" /\ pc[t] # "hook_realloc"
    /\ pc[t] = "exit" \/ cont[t] = "exit" => proc # "running"

\* Before capturing is switched on nothing is recorded.
NotYetOn ==
  proc = "running" /\ ~captureOn =>
    DOMAIN allocations = {} /\ \A t \in Threads : pc[t] \notin AllocPath \ {"hook_alloc"}

LeakInv == Possession /\ Paths /\ NotYetOn /\ NoFalseLeak

LEMMA LeakInit == Init => LeakInv
  <1> SUFFICES ASSUME Init PROVE LeakInv
    OBVIOUS
  <1>1. \A t \in Threads : call[t].owned = Null
    BY DEF Init, NoCall, NewCall
  <1>2. QED
    BY <1>1, ConstantsAssumption
    DEF Init, LeakInv, Possession, Paths, NotYetOn, NoFalseLeak, Owned, AllocPath

\* A step that moves a thread along its path.
LEMMA MoveLeak ==
  ASSUME TypeOK, LeakInv, NEW t \in Threads, NEW l, pc' = [pc EXCEPT ![t] = l],
         UNCHANGED <<live, held, allocations>>,
         \A u \in Threads : call'[u].owned = call[u].owned /\ (call'[u].ptr = call[u].ptr),
         \A u \in Threads : cont'[u] = cont[u] \/ (cont'[u] = "exit" /\ proc' # "running"),
         proc # "running" => proc' # "running",
         captureOn' = captureOn \/ captureOn' \/ proc' # "running",
         pc[t] \in FreePath => l \in FreePath,
         l \in AllocPath => pc[t] \in AllocPath /\ (pc[t] # "hook_alloc" \/ captureOn'),
         l # "hook_realloc", l = "exit" => proc' # "running"
  PROVE  LeakInv'
  <1>1. pc'[t] = l /\ \A u \in Threads \ {t} : pc'[u] = pc[u]
    BY DEF TypeOK
  <1>2. Possession'
    BY DEF LeakInv, Possession, Owned
  <1>3. Paths'
    BY <1>1 DEF LeakInv, Paths
  <1>4. NotYetOn'
    BY <1>1 DEF LeakInv, NotYetOn
  <1>5. NoFalseLeak'
    BY <1>1 DEF LeakInv, NoFalseLeak, FreePath
  <1>6. QED
    BY <1>2, <1>3, <1>4, <1>5 DEF LeakInv

\* The tracker's return: to exit(), or to the program with its block.
LEMMA ResumeLeak ==
  ASSUME TypeOK, LeakInv, NEW t \in Threads, Resume(t), UNCHANGED <<live, allocations, proc>>,
         captureOn' = captureOn \/ captureOn',
         pc[t] \notin FreePath \/ (~captureOn /\ captureOn' = captureOn)
  PROVE  LeakInv'
  <1>1. cont[t] # "alloc_guard"
    BY DEF LeakInv, Paths
  <1>2. CASE cont[t] = "exit"
    <2>1. pc' = [pc EXCEPT ![t] = "exit"] /\ UNCHANGED <<held, call, cont>> /\ proc # "running"
      BY <1>2 DEF Resume, Goto, LeakInv, Paths
    <2>2. pc'[t] = "exit" /\ \A u \in Threads \ {t} : pc'[u] = pc[u]
      BY <2>1 DEF TypeOK
    <2>3. QED
      BY <2>1, <2>2 DEF LeakInv, Possession, Owned, Paths, NotYetOn, NoFalseLeak, AllocPath
  <1>3. CASE cont[t] = "app"
    <2>1. /\ held' = held \cup Owned(t) /\ call' = [call EXCEPT ![t] = NoCall]
          /\ pc' = [pc EXCEPT ![t] = "app"] /\ UNCHANGED cont
      BY <1>3 DEF Resume, Goto, Owned
    <2>2. /\ pc'[t] = "app" /\ call'[t].owned = Null
          /\ \A u \in Threads \ {t} : pc'[u] = pc[u] /\ call'[u] = call[u]
      BY <2>1 DEF TypeOK, NoCall, NewCall
    <2>3. Owned(t)' = {} /\ \A u \in Threads \ {t} : Owned(u)' = Owned(u)
      BY <2>2, ConstantsAssumption DEF Owned
    <2>4. Possession'
      BY <2>1, <2>3 DEF LeakInv, Possession
    <2>5. Paths'
      BY <2>1, <2>2 DEF LeakInv, Paths, AllocPath
    <2>6. NotYetOn'
      BY <2>2 DEF LeakInv, NotYetOn, AllocPath
    <2>7. NoFalseLeak'
      BY <2>2 DEF LeakInv, NoFalseLeak, NotYetOn, FreePath
    <2>8. QED
      BY <2>4, <2>5, <2>6, <2>7 DEF LeakInv
  <1>4. QED
    BY <1>1, <1>2, <1>3 DEF TypeOK

\* A block libc hands out was not live.
LEMMA LibcAllocLeak ==
  ASSUME TypeOK, LeakInv, NEW t \in Threads, NEW region \in SUBSET Addrs, NEW failure, failure \notin Addrs,
         LibcAlloc(t, region, failure), pc[t] = "app"
  PROVE  LeakInv'
  <1>1. PICK result, size, key :
          /\ result \in region \ live \/ result = failure
          /\ live' = live \cup ({result} \cap Addrs)
          /\ call' = [call EXCEPT ![t] = NewCall(result, result, result, size, key)]
    BY DEF LibcAlloc
  <1>2. /\ pc' = [pc EXCEPT ![t] = "hook_alloc"] /\ UNCHANGED <<held, proc, captureOn, allocations, cont>>
    BY DEF LibcAlloc, Goto, captureVars, dataVars
  <1>3. /\ pc'[t] = "hook_alloc" /\ call'[t].owned = result /\ call'[t].ptr = result
        /\ \A u \in Threads \ {t} : pc'[u] = pc[u] /\ call'[u] = call[u]
    BY <1>1, <1>2 DEF TypeOK, NewCall
  <1>4. Owned(t)' = {result} \cap Addrs /\ \A u \in Threads \ {t} : Owned(u)' = Owned(u)
    BY <1>3 DEF Owned
  <1>5. {result} \cap Addrs \cap live = {}
    BY <1>1
  <1>6. Possession'
    BY <1>1, <1>2, <1>4, <1>5 DEF LeakInv, Possession
  <1>7. Paths'
    BY <1>2, <1>3 DEF LeakInv, Paths
  <1>8. NotYetOn'
    BY <1>2, <1>3 DEF LeakInv, NotYetOn
  <1>9. NoFalseLeak'
    BY <1>1, <1>2, <1>3 DEF LeakInv, NoFalseLeak
  <1>10. QED
    BY <1>6, <1>7, <1>8, <1>9 DEF LeakInv

\* A block that is returned to libc has been held, and its free() is under way.
LEMMA LibcFreeLeak ==
  ASSUME TypeOK, LeakInv, NEW t \in Threads, NEW ptr, NEW freed, freed \subseteq {ptr} \cap held,
         LibcFree(t, ptr, freed), pc[t] = "app"
  PROVE  LeakInv'
  <1>1. /\ live' = live \ freed /\ held' = held \ freed
        /\ call' = [call EXCEPT ![t] = NewCall(ptr, Null, Null, 0, NoKey)]
        /\ pc' = [pc EXCEPT ![t] = "hook_free"] /\ UNCHANGED <<proc, captureOn, allocations, cont>>
    BY DEF LibcFree, Goto, captureVars, dataVars
  <1>2. /\ pc'[t] = "hook_free" /\ call'[t].owned = Null /\ call'[t].ptr = ptr
        /\ \A u \in Threads \ {t} : pc'[u] = pc[u] /\ call'[u] = call[u]
    BY <1>1 DEF TypeOK, NewCall
  <1>3. Owned(t)' = {} /\ \A u \in Threads \ {t} : Owned(u)' = Owned(u)
    BY <1>2, ConstantsAssumption DEF Owned
  <1>4. Possession'
    BY <1>1, <1>3 DEF LeakInv, Possession
  <1>5. Paths'
    BY <1>1, <1>2 DEF LeakInv, Paths, AllocPath
  <1>6. NotYetOn'
    BY <1>1, <1>2 DEF LeakInv, NotYetOn, AllocPath
  <1>7. NoFalseLeak'
    BY <1>1, <1>2 DEF LeakInv, NoFalseLeak
  <1>8. QED
    BY <1>4, <1>5, <1>6, <1>7 DEF LeakInv

\* A block is recorded while it is live.
LEMMA RecordLeak ==
  ASSUME TypeOK, LeakInv, NEW t \in Threads, AllocRecord(t)
  PROVE  LeakInv'
  <1>1. /\ DOMAIN allocations' = DOMAIN allocations \cup {call[t].ptr} /\ pc[t] = "alloc_record"
        /\ pc' = [pc EXCEPT ![t] = "unlock"] /\ UNCHANGED <<live, held, proc, captureOn, call, cont>>
    BY DEF AllocRecord, At, Goto, Put, appVars, captureVars
  <1>2. pc'[t] = "unlock" /\ \A u \in Threads \ {t} : pc'[u] = pc[u]
    BY <1>1 DEF TypeOK
  <1>3. {call[t].ptr} \cap Addrs \subseteq live
    BY <1>1 DEF LeakInv, Paths, AllocPath, Possession, Owned
  <1>4. ~(proc = "running" /\ ~captureOn)
    BY <1>1 DEF LeakInv, NotYetOn, AllocPath
  <1>5. QED
    BY <1>1, <1>2, <1>3, <1>4 DEF LeakInv, Possession, Owned, Paths, NotYetOn, NoFalseLeak, AllocPath

\* A record is taken out when its free() reaches the tracker.
LEMMA FindLeak ==
  ASSUME TypeOK, LeakInv, NEW t \in Threads, FreeFind(t)
  PROVE  LeakInv'
  <1>1. PICK l \in {"unlock", "free_stack"} : pc' = [pc EXCEPT ![t] = l]
    BY DEF FreeFind, Goto
  <1>2. pc'[t] \in {"unlock", "free_stack"} /\ pc[t] = "free_find" /\ \A u \in Threads \ {t} : pc'[u] = pc[u]
    BY <1>1 DEF TypeOK, FreeFind, At
  <1>3. UNCHANGED <<live, held, proc, captureOn, cont>>
    BY DEF FreeFind, appVars, captureVars
  <1>4. DOMAIN allocations' = DOMAIN allocations \ {call[t].ptr}
    <2>1. CASE call[t].ptr \notin DOMAIN allocations
      BY <2>1 DEF FreeFind
    <2>2. CASE call[t].ptr \in DOMAIN allocations
      BY <2>2 DEF FreeFind, Drop, Restrict
    <2>3. QED
      BY <2>1, <2>2
  <1>5. \A u \in Threads : call'[u].ptr = call[u].ptr /\ call'[u].owned = call[u].owned
    <2>1. CASE call[t].ptr \notin DOMAIN allocations
      BY <2>1 DEF FreeFind
    <2>2. CASE call[t].ptr \in DOMAIN allocations
      <3>1. PICK record : record = allocations[call[t].ptr]
        OBVIOUS
      <3>2. call' = [call EXCEPT ![t] =
                       [[call[t] EXCEPT !.fkey = record.key] EXCEPT !.nfree = record.num_bytes]]
        BY <2>2, <3>1 DEF FreeFind, TypeOK
      <3>3. \A c \in Call :
              /\ [[c EXCEPT !.fkey = record.key] EXCEPT !.nfree = record.num_bytes].ptr = c.ptr
              /\ [[c EXCEPT !.fkey = record.key] EXCEPT !.nfree = record.num_bytes].owned = c.owned
        BY DEF Call
      <3>4. QED
        BY <3>2, <3>3 DEF TypeOK
    <2>3. QED
      BY <2>1, <2>2
  <1>6. QED
    BY <1>2, <1>3, <1>4, <1>5 DEF LeakInv, Possession, Owned, Paths, NotYetOn, NoFalseLeak, AllocPath

LEMMA ProgramLeak ==
  ASSUME Plain, TypeOK, LeakInv, NEW t \in Threads, Program(t)
  PROVE  LeakInv'
  <1>1. CASE Malloc(t) \/ Memalign(t) \/ Mmap(t)
    BY <1>1, LibcAllocLeak, ConstantsAssumption DEF Malloc, Memalign, Mmap, Calling, At, Addrs
  <1>2. CASE Free(t) \/ Munmap(t)
    <2>1. PICK ptr, freed : LibcFree(t, ptr, freed) /\ freed \subseteq {ptr} \cap held /\ pc[t] = "app"
      BY <1>2, ConstantsAssumption DEF Free, Munmap, Calling, At, Addrs
    <2>2. QED
      BY <2>1, LibcFreeLeak
  <1>3. CASE Realloc(t) \/ Muntrace(t)
    BY <1>3 DEF Realloc, Muntrace, Calling, Plain
  <1>4. CASE Mtrace(t)
    BY <1>4, MoveLeak DEF Mtrace, Calling, At, Goto, captureVars, dataVars, AllocPath, FreePath
  <1>5. CASE Exit(t)
    <2>1. /\ pc' = [pc EXCEPT ![t] = "exit"] /\ UNCHANGED <<live, held, allocations, call>>
          /\ proc' # "running" /\ pc[t] = "app" /\ cont' = [cont EXCEPT ![t] = "exit"]
      BY <1>5 DEF Exit, Calling, At, Goto, dataVars
    <2>2. \A u \in Threads : cont'[u] = cont[u] \/ (cont'[u] = "exit" /\ proc' # "running")
      BY <2>1 DEF TypeOK
    <2>3. QED
      BY <2>1, <2>2, MoveLeak DEF AllocPath, FreePath
  <1>6. QED
    BY <1>1, <1>2, <1>3, <1>4, <1>5 DEF Program

LEMMA LibraryLeak ==
  ASSUME Plain, TypeOK, Exclusion, LeakInv, NEW t \in Threads, Library(t)
  PROVE  LeakInv'
  <1> USE DEF appVars, captureVars, dataVars
  <1>1. CASE HookAlloc(t)
    <2>1. CASE captureOn /\ Goto(t, "alloc_guard") /\ UNCHANGED <<held, call, cont>>
      BY <1>1, <2>1, MoveLeak DEF HookAlloc, At, Goto, AllocPath, FreePath
    <2>2. CASE ~captureOn /\ Resume(t)
      BY <1>1, <2>2, ResumeLeak DEF HookAlloc, At, FreePath
    <2>3. QED
      BY <1>1, <2>1, <2>2 DEF HookAlloc
  <1>2. CASE HookFree(t)
    <2>1. CASE captureOn /\ Goto(t, "free_guard") /\ UNCHANGED <<held, call, cont>>
      BY <1>2, <2>1, MoveLeak DEF HookFree, At, Goto, AllocPath, FreePath
    <2>2. CASE ~captureOn /\ Resume(t)
      BY <1>2, <2>2, ResumeLeak DEF HookFree
    <2>3. QED
      BY <1>2, <2>1, <2>2 DEF HookFree
  <1>3. CASE HookRealloc(t)
    BY <1>3 DEF HookRealloc, At, LeakInv, Paths
  <1>4. ASSUME NEW from, NEW to, NEW path \in {AllocPath, FreePath, {"report_guard", "report_lock"}},
               from \in path, to \in path, from \notin Tracing, from # "hook_alloc", Guard(t, from, to)
        PROVE  LeakInv'
    <2>1. ~inTrace[t]
      BY <1>4 DEF Guard, At, Exclusion
    <2>2. /\ pc[t] = from /\ pc' = [pc EXCEPT ![t] = to]
          /\ UNCHANGED <<live, held, proc, captureOn, allocations, call, cont>>
      BY <1>4, <2>1 DEF Guard, At, Goto
    <2>3. QED
      BY <1>4, <2>2, MoveLeak DEF AllocPath, FreePath
  <1>5. CASE AllocGuard(t) \/ FreeGuard(t) \/ ReportGuard(t)
    BY <1>4, <1>5 DEF AllocGuard, FreeGuard, ReportGuard, AllocPath, FreePath, Tracing
  <1>6. CASE AllocLock(t) \/ FreeLock(t) \/ ReportLock(t)
    <2>1. UNCHANGED <<live, held, proc, captureOn, allocations, call, cont>>
      BY <1>6 DEF AllocLock, FreeLock, ReportLock, Lock
    <2>2. \/ pc[t] = "alloc_lock" /\ pc' = [pc EXCEPT ![t] = "alloc_stack"]
          \/ pc[t] = "free_lock" /\ pc' = [pc EXCEPT ![t] = "free_find"]
          \/ pc[t] = "report_lock" /\ \E l \in {"report_mark", "report_scan"} : pc' = [pc EXCEPT ![t] = l]
      BY <1>6 DEF AllocLock, FreeLock, ReportLock, Lock, At, Goto
    <2>3. QED
      BY <2>1, <2>2, MoveLeak DEF AllocPath, FreePath
  <1>7. CASE AllocStack(t) \/ FreeStack(t) \/ ReportScan(t) \/ ReportMark(t)
    <2>1. UNCHANGED <<live, held, proc, captureOn, allocations, call, cont>>
      BY <1>7 DEF AllocStack, FreeStack, ReportScan, ReportMark
    <2>2. \/ pc[t] = "alloc_stack" /\ pc' = [pc EXCEPT ![t] = "alloc_record"]
          \/ /\ pc[t] \in {"free_stack", "report_scan", "report_mark"}
             /\ \E l \in {"report_mark", "report_scan", "unlock"} : pc' = [pc EXCEPT ![t] = l]
      BY <1>7 DEF AllocStack, FreeStack, ReportScan, ReportMark, At, Goto
    <2>3. QED
      BY <2>1, <2>2, MoveLeak DEF AllocPath, FreePath
  <1>8. CASE Unlock(t)
    BY <1>8, ResumeLeak DEF Unlock, At, FreePath
  <1>9. CASE MtraceAtexit(t) \/ MtraceStore(t) \/ MtraceCheck(t)
    <2>1. UNCHANGED <<live, held, proc, captureOn, allocations, call, cont>>
      BY <1>9 DEF MtraceAtexit, MtraceStore, MtraceCheck
    <2>2. /\ pc[t] \in {"mtrace", "mtrace_store", "mtrace_check"}
          /\ \E l \in {"mtrace_check", "mtrace_store", "report_guard", "mtrace_set"} : pc' = [pc EXCEPT ![t] = l]
      BY <1>9 DEF MtraceAtexit, MtraceStore, MtraceCheck, At, Goto
    <2>3. QED
      BY <2>1, <2>2, MoveLeak DEF AllocPath, FreePath
  <1>10. CASE MtraceSet(t)
    BY <1>10, ResumeLeak DEF MtraceSet, At, FreePath
  <1>11. CASE ExitHandler(t) \/ ExitDone(t)
    <2>1. pc[t] = "exit" /\ proc # "running" /\ proc' \in {proc, "exited"}
      BY <1>11 DEF ExitHandler, ExitDone, Untrace, At, LeakInv, Paths
    <2>2. UNCHANGED <<live, held, allocations, call, cont>>
      BY <1>11 DEF ExitHandler, ExitDone, Untrace
    <2>3. \E l \in {"report_guard", "exited"} : pc' = [pc EXCEPT ![t] = l]
      BY <1>11 DEF ExitHandler, ExitDone, Untrace, Goto
    <2>4. QED
      BY <2>1, <2>2, <2>3, MoveLeak DEF AllocPath, FreePath
  <1>12. QED
    BY <1>1, <1>2, <1>3, <1>5, <1>6, <1>7, <1>8, <1>9, <1>10, <1>11, RecordLeak, FindLeak DEF Library

LEMMA LeakStep ==
  ASSUME Plain, TypeOK, Exclusion, LeakInv, [Next]_vars
  PROVE  LeakInv'
  <1>1. ASSUME NEW t \in Threads, Program(t) PROVE LeakInv'
    BY <1>1, ProgramLeak
  <1>2. ASSUME NEW t \in Threads, Library(t) PROVE LeakInv'
    BY <1>2, LibraryLeak
  <1>3. CASE UNCHANGED <<live, held, proc, captureOn, allocations, pc, cont, call>>
    BY <1>3 DEF LeakInv, Possession, Owned, Paths, NotYetOn, NoFalseLeak
  <1>4. ASSUME NEW t \in Threads, NestedCall(t) \/ NestedHook(t) PROVE LeakInv'
    BY <1>3, <1>4 DEF NestedCall, NestedHook, appVars, captureVars, dataVars
  <1>5. QED
    BY <1>1, <1>2, <1>3, <1>4 DEF Next, Finished, vars, appVars, captureVars, dataVars

\* When the program neither resizes its blocks nor switches capturing off
\* itself, no block it has freed is recorded, whichever threads allocate and
\* free at the same time.
THEOREM FreedIsNotRecorded ==
  ASSUME Plain
  PROVE  Spec => []NoFalseLeak
  <1>1. Init => LeakInv
    BY LeakInit
  <1>2. TypeOK /\ Exclusion /\ LeakInv /\ [Next]_vars => LeakInv'
    BY LeakStep
  <1>3. LeakInv => NoFalseLeak
    BY DEF LeakInv
  <1>4. Spec => []TypeOK /\ []Exclusion
    BY TypeCorrect, MutualExclusion, PTL
  <1>5. QED
    BY <1>1, <1>2, <1>3, <1>4, PTL DEF Spec

-----------------------------------------------------------------------------
(***************************************************************************)
(* Arithmetic of memsize_type.                                             *)
(***************************************************************************)

\* A remainder is the only one.
LEMMA ModUnique ==
  ASSUME NEW w \in Nat \ {0}, NEW p \in Int, NEW q \in Int, NEW r \in 0 .. w - 1, NEW s \in 0 .. w - 1,
         w * p + r = w * q + s
  PROVE  r = s
  <1>1. CASE p = q
    BY <1>1
  <1>2. CASE p > q
    <2>1. PICK d \in Nat : p = q + 1 + d
      <3>1. p - q - 1 \in Nat /\ p = q + 1 + (p - q - 1)
        BY <1>2
      <3>2. QED
        BY <3>1
    <2>2. w * p = w * q + w + w * d
      BY <2>1
    <2>3. w * d >= 0
      OBVIOUS
    <2>4. QED
      BY <2>2, <2>3
  <1>3. CASE q > p
    <2>1. PICK d \in Nat : q = p + 1 + d
      <3>1. q - p - 1 \in Nat /\ q = p + 1 + (q - p - 1)
        BY <1>3
      <3>2. QED
        BY <3>1
    <2>2. w * q = w * p + w + w * d
      BY <2>1
    <2>3. w * d >= 0
      OBVIOUS
    <2>4. QED
      BY <2>2, <2>3
  <1>4. QED
    BY <1>1, <1>2, <1>3

\* Taking the remainder before or after an addition.
LEMMA ModDef ==
  ASSUME NEW w \in Nat \ {0}, NEW a \in Int
  PROVE  a % w \in 0 .. w - 1 /\ a \div w \in Int /\ a = w * (a \div w) + (a % w)
  OBVIOUS

LEMMA ModAdd ==
  ASSUME NEW w \in Nat \ {0}, NEW a \in Int, NEW b \in Int
  PROVE  ((a % w) + b) % w = (a + b) % w
  <1>1. PICK r, p : r = a % w /\ p = a \div w
    OBVIOUS
  <1>2. r \in 0 .. w - 1 /\ p \in Int /\ a = w * p + r
    BY <1>1, ModDef
  <1>3. PICK s, q : s = (r + b) % w /\ q = (r + b) \div w
    OBVIOUS
  <1>4. s \in 0 .. w - 1 /\ q \in Int /\ r + b = w * q + s
    <2>1. r + b \in Int
      BY <1>2
    <2>2. QED
      BY <1>3, <2>1, ModDef
  <1>5. PICK u, v : u = (a + b) % w /\ v = (a + b) \div w
    OBVIOUS
  <1>6. u \in 0 .. w - 1 /\ v \in Int /\ a + b = w * v + u
    <2>1. a + b \in Int
      OBVIOUS
    <2>2. QED
      BY <1>5, <2>1, ModDef
  <1>7. w * (p + q) + s = w * v + u
    <2>1. w * (p + q) = w * p + w * q
      BY <1>2, <1>4
    <2>2. QED
      BY <1>2, <1>4, <1>6, <2>1
  <1>8. s = u
    <2>1. PICK x \in Int : x = p + q
      BY <1>2, <1>4
    <2>2. w * x + s = w * v + u
      BY <1>7, <2>1
    <2>3. QED
      BY <1>4, <1>6, <2>2, ModUnique
  <1>9. QED
    BY <1>1, <1>3, <1>5, <1>8

LEMMA ModZero == ASSUME NEW w \in Nat \ {0} PROVE 0 % w = 0
  OBVIOUS

LEMMA WrapAdd ==
  ASSUME NEW a \in Int, NEW b \in Int
  PROVE  Wrap(Wrap(a) + b) = Wrap(a + b)
  BY ModAdd, ConstantsAssumption DEF Wrap

LEMMA WrapZero == Wrap(0) = 0
  BY ModZero, ConstantsAssumption DEF Wrap

-----------------------------------------------------------------------------
(***************************************************************************)
(* The last report of a program with one thread.                           *)
(***************************************************************************)

\* The program has one thread.
OneThread == \E main : Threads = {main}

\* exit() is the last call of the only thread, which then is in a handler.
ExitPath == {"exit", "exited", "report_guard", "report_lock", "report_scan", "report_mark", "unlock"}

Leaving ==
  /\ \A t \in Threads :
       /\ proc # "running" <=> cont[t] = "exit"
       /\ proc # "running" => pc[t] \in ExitPath
       /\ pc[t] = "exit" => proc = "exiting"
       /\ proc = "exited" => pc[t] = "exited"

\* The bytes of the stacks S of the map m.
BytesOf(m, S) == SumFunctionOnSet([k \in DOMAIN m |-> m[k].num_bytes], S)

Reported == ~captureOn /\ stats.total_bytes = Wrap(BytesOf(stacks, DOMAIN stacks))

Summed ==
  \A t \in Threads :
    /\ pc[t] = "report_scan" => scan[t].total = Wrap(BytesOf(stacks, DOMAIN stacks \ scan[t].todo))
    /\ pc[t] = "report_mark" => scan[t].total = Wrap(BytesOf(stacks, DOMAIN stacks))

LastReport ==
  /\ proc = "running" => handlers > 0
  /\ \A t \in Threads :
       proc # "running" =>
         /\ pc[t] # "exit" => ~captureOn
         /\ pc[t] = "exit" => handlers > 0 \/ Reported
         /\ pc[t] \in {"unlock", "exited"} => Reported

FinalInv == Leaving /\ Summed /\ LastReport

LEMMA LeavingInit == Init => Leaving
  BY DEF Init, Leaving

\* Steps that neither begin nor end the exit.
LEMMA LeavingMove ==
  ASSUME OneThread, TypeOK, Leaving, NEW t \in Threads, proc # "exited", proc' = proc,
         cont'[t] = "exit" <=> cont[t] = "exit",
         proc # "running" => pc'[t] \in ExitPath, pc'[t] = "exit" => proc # "running"
  PROVE  Leaving'
  BY DEF OneThread, TypeOK, Leaving

LEMMA LeavingStep ==
  ASSUME OneThread, TypeOK, Exclusion, Leaving, [Next]_vars
  PROVE  Leaving'
  <1> USE DEF appVars, captureVars, dataVars
  <1>1. ASSUME NEW t \in Threads, Program(t) PROVE Leaving'
    <2>1. pc[t] = "app" /\ proc = "running" /\ cont[t] # "exit"
      BY <1>1 DEF Leaving, ExitPath, Program, Malloc, Memalign, Mmap, Free, Munmap, Realloc, Mtrace, Muntrace,
                  Exit, Calling, At
    <2>2. CASE Exit(t)
      <3>1. proc' = "exiting" /\ cont'[t] = "exit" /\ pc'[t] = "exit"
        BY <2>2 DEF Exit, Goto, TypeOK
      <3>2. QED
        BY <3>1 DEF OneThread, Leaving, ExitPath
    <2>3. CASE ~Exit(t)
      <3>1. UNCHANGED <<proc, cont>>
        BY <1>1, <2>3 DEF Program, Malloc, Memalign, Mmap, LibcAlloc, Free, Munmap, LibcFree, Realloc,
                          Mtrace, Muntrace, Untrace
      <3>2. pc'[t] \in {"hook_alloc", "hook_free", "hook_realloc", "mtrace", "report_guard"}
        BY <1>1, <2>3 DEF Program, Malloc, Memalign, Mmap, LibcAlloc, Free, Munmap, LibcFree, Realloc,
                          Mtrace, Muntrace, Untrace, Goto, TypeOK
      <3>3. QED
        BY <2>1, <3>1, <3>2, LeavingMove
    <2>4. QED
      BY <2>2, <2>3
  <1>2. ASSUME NEW t \in Threads, Resume(t), proc # "exited", proc' = proc PROVE Leaving'
    <2>1. \/ cont[t] = "alloc_guard" /\ cont'[t] = "app" /\ pc'[t] = "alloc_guard"
          \/ cont[t] = "exit" /\ cont'[t] = "exit" /\ pc'[t] = "exit"
          \/ cont[t] = "app" /\ cont'[t] = "app" /\ pc'[t] = "app"
      BY <1>2 DEF Resume, Goto, TypeOK
    <2>2. QED
      BY <1>2, <2>1, LeavingMove DEF Leaving, ExitPath
  <1>3. ASSUME NEW t \in Threads, HookAlloc(t) \/ HookFree(t) \/ HookRealloc(t) \/ MtraceSet(t) \/ Unlock(t)
        PROVE  Leaving'
    <2>1. proc' = proc /\ proc # "exited"
      BY <1>3 DEF HookAlloc, HookFree, HookRealloc, MtraceSet, Unlock, At
    <2>2. CASE Resume(t)
      BY <1>2, <2>1, <2>2
    <2>3. CASE ~Resume(t)
      <3>1. /\ pc[t] \notin ExitPath /\ cont'[t] \in {cont[t], "alloc_guard"}
            /\ pc'[t] \in {"alloc_guard", "free_guard"}
        BY <1>3, <2>3 DEF HookAlloc, HookFree, HookRealloc, MtraceSet, Unlock, At, Goto, TrackerRealloc, TypeOK, ExitPath
      <3>2. proc = "running" /\ cont[t] # "exit"
        BY <3>1 DEF Leaving
      <3>3. QED
        BY <2>1, <3>1, <3>2, LeavingMove
    <2>4. QED
      BY <2>2, <2>3
  <1>4. ASSUME NEW t \in Threads, AllocGuard(t) \/ FreeGuard(t) \/ ReportGuard(t) PROVE Leaving'
    <2>1. ~inTrace[t]
      BY <1>4 DEF AllocGuard, FreeGuard, ReportGuard, Guard, At, Exclusion, Tracing
    <2>2. /\ UNCHANGED <<proc, cont>> /\ proc # "exited"
          /\ \/ pc[t] \in {"alloc_guard", "free_guard"} /\ pc'[t] \in {"alloc_lock", "free_lock"}
             \/ pc[t] = "report_guard" /\ pc'[t] = "report_lock"
      BY <1>4, <2>1 DEF AllocGuard, FreeGuard, ReportGuard, Guard, At, Goto, TypeOK
    <2>3. QED
      BY <2>2, LeavingMove DEF Leaving, ExitPath
  <1>5. ASSUME NEW t \in Threads,
               \/ AllocLock(t) \/ FreeLock(t) \/ ReportLock(t) \/ AllocStack(t) \/ AllocRecord(t)
               \/ FreeFind(t) \/ FreeStack(t) \/ ReportScan(t) \/ ReportMark(t)
               \/ MtraceAtexit(t) \/ MtraceStore(t) \/ MtraceCheck(t)
        PROVE  Leaving'
    <2>1. UNCHANGED <<proc, cont>> /\ proc # "exited"
      BY <1>5 DEF AllocLock, FreeLock, ReportLock, Lock, AllocStack, AllocRecord, FreeFind, FreeStack, ReportScan,
                  ReportMark, MtraceAtexit, MtraceStore, MtraceCheck, At
    <2>2. pc'[t] \in ExitPath \ {"exit"} \/ (pc[t] \notin ExitPath /\ pc'[t] # "exit")
      BY <1>5 DEF AllocLock, FreeLock, ReportLock, Lock, AllocStack, AllocRecord, FreeFind, FreeStack, ReportScan,
                  ReportMark, MtraceAtexit, MtraceStore, MtraceCheck, At, Goto, TypeOK, ExitPath
    <2>3. QED
      BY <2>1, <2>2, LeavingMove DEF Leaving
  <1>6. ASSUME NEW t \in Threads, ExitHandler(t) PROVE Leaving'
    <2>1. UNCHANGED <<proc, cont>> /\ proc # "exited" /\ pc'[t] = "report_guard"
      BY <1>6 DEF ExitHandler, Untrace, At, Goto, TypeOK
    <2>2. QED
      BY <2>1, LeavingMove DEF ExitPath
  <1>7. ASSUME NEW t \in Threads, ExitDone(t) PROVE Leaving'
    <2>1. /\ UNCHANGED cont /\ proc' = "exited" /\ pc[t] = "exit" /\ pc'[t] = "exited"
      BY <1>7 DEF ExitDone, At, Goto, TypeOK
    <2>2. QED
      BY <2>1 DEF OneThread, Leaving, ExitPath
  <1>8. CASE UNCHANGED <<proc, cont, pc>>
    BY <1>8 DEF Leaving
  <1>9. ASSUME NEW t \in Threads, Library(t) PROVE Leaving'
    BY <1>3, <1>4, <1>5, <1>6, <1>7, <1>9 DEF Library
  <1>10. QED
    BY <1>1, <1>8, <1>9 DEF Next, Finished, NestedCall, NestedHook, vars

\* The bytes of some stacks depend on their own bytes only, and those of one
\* more stack are added to them.
LEMMA BytesType ==
  ASSUME TypeOK, NEW S \in SUBSET DOMAIN stacks
  PROVE  BytesOf(stacks, S) \in Int /\ IsFiniteSet(S)
  <1>1. PICK f : f = [k \in DOMAIN stacks |-> stacks[k].num_bytes]
    OBVIOUS
  <1>2. IsFiniteSet(S)
    BY FS_Subset DEF TypeOK
  <1>3. \A k \in S : f[k] \in Int
    BY <1>1, ConstantsAssumption DEF TypeOK, Stack, Bytes
  <1>4. SumFunctionOnSet(f, S) \in Int
    BY <1>2, <1>3, SumType
  <1>5. QED
    BY <1>1, <1>2, <1>4 DEF BytesOf

LEMMA BytesSame ==
  ASSUME NEW m, NEW n, DOMAIN n = DOMAIN m, \A k \in DOMAIN m : n[k].num_bytes = m[k].num_bytes, NEW S
  PROVE  BytesOf(n, S) = BytesOf(m, S)
  <1>1. [k \in DOMAIN n |-> n[k].num_bytes] = [k \in DOMAIN m |-> m[k].num_bytes]
    OBVIOUS
  <1>2. QED
    BY <1>1, Zenon DEF BytesOf

LEMMA BytesAdd ==
  ASSUME TypeOK, NEW S \in SUBSET DOMAIN stacks, NEW key \in DOMAIN stacks \ S
  PROVE  BytesOf(stacks, S \cup {key}) = stacks[key].num_bytes + BytesOf(stacks, S)
  <1>1. PICK f, y, T : f = [k \in DOMAIN stacks |-> stacks[k].num_bytes] /\ y = key /\ T = S
    OBVIOUS
  <1>2. IsFiniteSet(T) /\ y \notin T
    BY <1>1, BytesType
  <1>3. \A k \in T \cup {y} : f[k] \in Int
    BY <1>1, ConstantsAssumption DEF TypeOK, Stack, Bytes
  <1>4. SumFunctionOnSet(f, T \cup {y}) = f[y] + SumFunctionOnSet(f, T)
    BY <1>2, <1>3, SumAdd
  <1>5. f[y] = stacks[key].num_bytes
    BY <1>1
  <1>6. QED
    BY <1>1, <1>4, <1>5 DEF BytesOf

LEMMA FinalInit == Init => FinalInv
  <1> SUFFICES ASSUME Init PROVE FinalInv
    OBVIOUS
  <1>1. Summed /\ LastReport
    BY DEF Init, Summed, LastReport
  <1>2. QED
    BY <1>1, LeavingInit DEF FinalInv

\* Steps before exit() that are no step of report().
LEMMA RunningStep ==
  ASSUME OneThread, NEW t \in Threads, proc = "running", proc' = "running", handlers' = handlers \/ handlers' > 0,
         pc'[t] \notin {"report_scan", "report_mark"}, LastReport
  PROVE  Summed' /\ LastReport'
  BY DEF OneThread, Summed, LastReport

LEMMA FinalProgram ==
  ASSUME OneThread, TypeOK, FinalInv, NEW t \in Threads, Program(t)
  PROVE  Summed' /\ LastReport'
  <1> USE DEF appVars, captureVars, dataVars
  <1>1. pc[t] = "app" /\ proc = "running" /\ handlers' = handlers
    BY DEF FinalInv, Leaving, ExitPath, Program, Malloc, Memalign, Mmap, LibcAlloc, Free, Munmap, LibcFree, Realloc,
           Mtrace, Muntrace, Exit, Calling, At
  <1>2. CASE Exit(t)
    <2>1. pc'[t] = "exit"
      BY <1>2 DEF Exit, Goto, TypeOK
    <2>2. QED
      BY <1>1, <2>1 DEF OneThread, FinalInv, Summed, LastReport
  <1>3. CASE ~Exit(t)
    <2>1. UNCHANGED proc
      BY <1>3 DEF Program, Malloc, Memalign, Mmap, LibcAlloc, Free, Munmap, LibcFree, Realloc, Mtrace, Muntrace, Untrace
    <2>2. pc'[t] \in {"hook_alloc", "hook_free", "hook_realloc", "mtrace", "report_guard"}
      BY <1>3 DEF Program, Malloc, Memalign, Mmap, LibcAlloc, Free, Munmap, LibcFree, Realloc,
                  Mtrace, Muntrace, Untrace, Goto, TypeOK
    <2>3. QED
      BY <1>1, <2>1, <2>2, RunningStep DEF FinalInv
  <1>4. QED
    BY <1>2, <1>3

LEMMA FinalOutside ==
  ASSUME OneThread, TypeOK, Exclusion, FinalInv, NEW t \in Threads,
         \/ HookAlloc(t) \/ HookFree(t) \/ HookRealloc(t) \/ AllocGuard(t) \/ FreeGuard(t)
         \/ AllocLock(t) \/ FreeLock(t) \/ AllocStack(t) \/ AllocRecord(t) \/ FreeFind(t) \/ FreeStack(t)
         \/ MtraceAtexit(t) \/ MtraceStore(t) \/ MtraceCheck(t) \/ MtraceSet(t)
  PROVE  Summed' /\ LastReport'
  <1> USE DEF appVars, captureVars, dataVars
  <1>1. pc[t] \in Positions \ ExitPath
    BY DEF HookAlloc, HookFree, HookRealloc, AllocGuard, FreeGuard, Guard, AllocLock, FreeLock, Lock, AllocStack,
           AllocRecord, FreeFind, FreeStack, MtraceAtexit, MtraceStore, MtraceCheck, MtraceSet, At, TypeOK, ExitPath
  <1>2. proc = "running"
    BY <1>1 DEF FinalInv, Leaving
  <1>3. proc' = proc /\ (handlers' = handlers \/ handlers' = handlers + 1)
    BY DEF HookAlloc, HookFree, HookRealloc, AllocGuard, FreeGuard, Guard, AllocLock, FreeLock, Lock, AllocStack,
           AllocRecord, FreeFind, FreeStack, MtraceAtexit, MtraceStore, MtraceCheck, MtraceSet
  <1>4. pc'[t] \notin {"report_scan", "report_mark"}
    <2>1. CASE Resume(t)
      BY <2>1 DEF Resume, Goto, TypeOK
    <2>2. CASE ~Resume(t)
      BY <2>2 DEF HookAlloc, HookFree, HookRealloc, TrackerRealloc, AllocGuard, FreeGuard, Guard, AllocLock, FreeLock,
           Lock, AllocStack, AllocRecord, FreeFind, FreeStack, MtraceAtexit, MtraceStore, MtraceCheck, MtraceSet, Goto, TypeOK
    <2>3. QED
      BY <2>1, <2>2
  <1>5. handlers' = handlers \/ handlers' > 0
    BY <1>3 DEF TypeOK
  <1>6. QED
    BY <1>2, <1>3, <1>4, <1>5, RunningStep DEF FinalInv

LEMMA FinalEnter ==
  ASSUME OneThread, TypeOK, Exclusion, FinalInv, NEW t \in Threads, ReportGuard(t) \/ ReportLock(t)
  PROVE  Summed' /\ LastReport'
  <1> USE DEF appVars, captureVars, dataVars
  <1>1. /\ UNCHANGED <<stacks, stats, proc, captureOn, handlers>>
        /\ pc[t] \in {"report_guard", "report_lock"}
    BY DEF ReportGuard, Guard, ReportLock, Lock, At
  <1>2. CASE ReportGuard(t)
    <2>1. ~inTrace[t]
      BY <1>1, <1>2 DEF ReportGuard, Guard, At, Exclusion, Tracing
    <2>2. pc'[t] = "report_lock"
      BY <1>2, <2>1 DEF ReportGuard, Guard, Goto, TypeOK
    <2>3. QED
      BY <1>1, <2>2 DEF OneThread, FinalInv, Summed, LastReport
  <1>3. CASE ReportLock(t)
    <2>1. scan'[t] = [NoScan EXCEPT !.todo = DOMAIN stacks]
      BY <1>3 DEF ReportLock, TypeOK
    <2>2. scan'[t].todo = DOMAIN stacks /\ scan'[t].total = 0
      BY <2>1 DEF NoScan
    <2>3. pc'[t] = IF DOMAIN stacks = {} THEN "report_mark" ELSE "report_scan"
      BY <1>3 DEF ReportLock, Lock, Goto, TypeOK
    <2>4. Wrap(BytesOf(stacks, {})) = 0
      BY WrapZero, SumOfEmpty DEF BytesOf
    <2>5. Summed'
      <3>1. DOMAIN stacks \ DOMAIN stacks = {}
        OBVIOUS
      <3>2. ASSUME pc'[t] = "report_scan" PROVE scan'[t].total = Wrap(BytesOf(stacks, DOMAIN stacks \ scan'[t].todo))
        BY <2>2, <2>4, <3>1
      <3>3. ASSUME pc'[t] = "report_mark" PROVE scan'[t].total = Wrap(BytesOf(stacks, DOMAIN stacks))
        BY <2>2, <2>3, <2>4, <3>3
      <3>4. QED
        BY <1>1, <3>2, <3>3 DEF OneThread, Summed
    <2>6. LastReport'
      BY <1>1, <2>3 DEF OneThread, FinalInv, LastReport
    <2>7. QED
      BY <2>5, <2>6
  <1>4. QED
    BY <1>2, <1>3

LEMMA FinalScan ==
  ASSUME OneThread, TypeOK, ScanValid, FinalInv, NEW t \in Threads, ReportScan(t)
  PROVE  Summed' /\ LastReport'
  <1>1. PICK key \in scan[t].todo :
          /\ scan' = [scan EXCEPT ![t].todo = @ \ {key}, ![t].total = Wrap(@ + stacks[key].num_bytes)]
          /\ Goto(t, IF scan[t].todo = {key} THEN "report_mark" ELSE "report_scan")
    BY DEF ReportScan
  <1>2. UNCHANGED <<stacks, stats, proc, captureOn, handlers>> /\ pc[t] = "report_scan"
    BY DEF ReportScan, At, appVars, captureVars, dataVars
  <1>3. pc'[t] = IF scan[t].todo = {key} THEN "report_mark" ELSE "report_scan"
    BY <1>1 DEF Goto, TypeOK
  <1>4. scan[t] \in Scan /\ scan[t].todo \subseteq DOMAIN stacks /\ key \in DOMAIN stacks
    BY <1>1, <1>2 DEF TypeOK, ScanValid
  <1>5. scan'[t].todo = scan[t].todo \ {key} /\ scan'[t].total = Wrap(scan[t].total + stacks[key].num_bytes)
    <2>1. PICK todo, total : todo = scan[t].todo \ {key} /\ total = Wrap(scan[t].total + stacks[key].num_bytes)
      OBVIOUS
    <2>2. scan' = [scan EXCEPT ![t] = [[scan[t] EXCEPT !.todo = todo] EXCEPT !.total = total]]
      BY <1>1, <2>1 DEF TypeOK
    <2>3. QED
      BY <1>4, <2>1, <2>2 DEF TypeOK, Scan
  <1>6. PICK S \in SUBSET DOMAIN stacks : S = DOMAIN stacks \ scan[t].todo
    OBVIOUS
  <1>7. key \notin S /\ DOMAIN stacks \ scan'[t].todo = S \cup {key}
    BY <1>1, <1>4, <1>5, <1>6
  <1>8. BytesOf(stacks, S \cup {key}) = stacks[key].num_bytes + BytesOf(stacks, S)
    BY <1>4, <1>7, BytesAdd
  <1>9. scan[t].total = Wrap(BytesOf(stacks, S))
    BY <1>2, <1>6 DEF FinalInv, Summed
  <1>10. scan'[t].total = Wrap(BytesOf(stacks, S \cup {key}))
    <2>1. PICK a, b : a = BytesOf(stacks, S) /\ b = stacks[key].num_bytes
      OBVIOUS
    <2>2. a \in Int /\ b \in Int
      BY <1>4, <2>1, BytesType, ConstantsAssumption DEF TypeOK, Stack, Bytes
    <2>3. Wrap(Wrap(a) + b) = Wrap(a + b) /\ a + b = b + a
      BY <2>2, WrapAdd
    <2>4. QED
      BY <1>5, <1>8, <1>9, <2>1, <2>3
  <1>11. pc'[t] = "report_mark" => S \cup {key} = DOMAIN stacks
    BY <1>1, <1>3, <1>4, <1>6
  <1>12. Summed'
    <2>1. ASSUME pc'[t] = "report_scan" PROVE scan'[t].total = Wrap(BytesOf(stacks, DOMAIN stacks \ scan'[t].todo))
      BY <1>7, <1>10
    <2>2. ASSUME pc'[t] = "report_mark" PROVE scan'[t].total = Wrap(BytesOf(stacks, DOMAIN stacks))
      BY <1>10, <1>11, <2>2
    <2>3. QED
      BY <1>2, <2>1, <2>2 DEF OneThread, Summed
  <1>13. LastReport'
    BY <1>2, <1>3 DEF OneThread, FinalInv, LastReport
  <1>14. QED
    BY <1>12, <1>13

LEMMA FinalMark ==
  ASSUME OneThread, TypeOK, FinalInv, NEW t \in Threads, ReportMark(t)
  PROVE  Summed' /\ LastReport'
  <1>1. /\ UNCHANGED <<proc, captureOn, handlers>> /\ pc[t] = "report_mark" /\ pc'[t] = "unlock"
        /\ stats' = [stats EXCEPT !.total_bytes = scan[t].total]
    BY DEF ReportMark, At, Goto, appVars, captureVars, TypeOK
  <1>2. DOMAIN stacks' = DOMAIN stacks /\ \A k \in DOMAIN stacks : stacks'[k].num_bytes = stacks[k].num_bytes
    <2>1. stacks' = [key \in DOMAIN stacks |-> [stacks[key] EXCEPT !.prev_num_bytes = stacks[key].num_bytes]]
      BY DEF ReportMark
    <2>2. \A s \in Stack : [s EXCEPT !.prev_num_bytes = s.num_bytes].num_bytes = s.num_bytes
      BY DEF Stack
    <2>3. \A k \in DOMAIN stacks : stacks[k] \in Stack
      BY DEF TypeOK
    <2>4. QED
      BY <2>1, <2>2, <2>3
  <1>3. BytesOf(stacks', DOMAIN stacks') = BytesOf(stacks, DOMAIN stacks)
    <2>1. PICK m, n, S : m = stacks /\ n = stacks' /\ S = DOMAIN stacks
      OBVIOUS
    <2>2. BytesOf(n, S) = BytesOf(m, S)
      BY <1>2, <2>1, BytesSame
    <2>3. QED
      BY <1>2, <2>1, <2>2
  <1>4. stats'.total_bytes = Wrap(BytesOf(stacks', DOMAIN stacks'))
    <2>1. stats'.total_bytes = scan[t].total
      BY <1>1 DEF TypeOK, Stats
    <2>2. QED
      BY <1>1, <1>3, <2>1 DEF FinalInv, Summed
  <1>5. QED
    BY <1>1, <1>4 DEF OneThread, FinalInv, Summed, LastReport, Reported

LEMMA FinalLeave ==
  ASSUME OneThread, TypeOK, FinalInv, NEW t \in Threads, Unlock(t) \/ ExitHandler(t) \/ ExitDone(t)
  PROVE  Summed' /\ LastReport'
  <1> USE DEF appVars, captureVars, dataVars
  <1>1. CASE Unlock(t)
    <2>1. UNCHANGED <<stacks, stats, proc, captureOn, handlers>> /\ pc[t] = "unlock"
      BY <1>1 DEF Unlock, At
    <2>2. pc'[t] \in {"alloc_guard", "exit", "app"} /\ (cont[t] = "exit" <=> pc'[t] = "exit")
      BY <1>1 DEF Unlock, Resume, Goto, TypeOK
    <2>3. QED
      BY <2>1, <2>2 DEF OneThread, FinalInv, Leaving, Summed, LastReport, Reported
  <1>2. CASE ExitHandler(t)
    <2>1. pc'[t] = "report_guard" /\ captureOn' = FALSE /\ pc[t] = "exit" /\ proc' = proc
      BY <1>2 DEF ExitHandler, Untrace, At, Goto, TypeOK
    <2>2. proc # "running"
      BY <2>1 DEF FinalInv, Leaving
    <2>3. QED
      BY <2>1, <2>2 DEF OneThread, Summed, LastReport
  <1>3. CASE ExitDone(t)
    <2>1. /\ pc[t] = "exit" /\ pc'[t] = "exited" /\ handlers = 0 /\ proc' = "exited"
          /\ UNCHANGED <<stacks, stats, captureOn, handlers>>
      BY <1>3 DEF ExitDone, At, Goto, TypeOK
    <2>2. Reported
      BY <2>1 DEF FinalInv, Leaving, LastReport
    <2>3. QED
      BY <2>1, <2>2 DEF OneThread, Summed, LastReport, Reported
  <1>4. QED
    BY <1>1, <1>2, <1>3

LEMMA FinalStep ==
  ASSUME OneThread, TypeOK, Exclusion, ScanValid, FinalInv, [Next]_vars
  PROVE  FinalInv'
  <1>1. ASSUME NEW t \in Threads, Program(t) PROVE Summed' /\ LastReport'
    BY <1>1, FinalProgram
  <1>2. ASSUME NEW t \in Threads, Library(t) PROVE Summed' /\ LastReport'
    BY <1>2, FinalOutside, FinalEnter, FinalScan, FinalMark, FinalLeave DEF Library
  <1>3. ASSUME UNCHANGED <<proc, handlers, captureOn, stacks, stats, pc, scan>> PROVE Summed' /\ LastReport'
    BY <1>3 DEF FinalInv, Summed, LastReport, Reported
  <1>4. ASSUME NEW t \in Threads, NestedCall(t) \/ NestedHook(t) PROVE Summed' /\ LastReport'
    BY <1>3, <1>4 DEF NestedCall, NestedHook, appVars, captureVars, dataVars
  <1>5. Summed' /\ LastReport'
    BY <1>1, <1>2, <1>3, <1>4 DEF Next, Finished, vars, appVars, captureVars, dataVars
  <1>6. QED
    BY <1>5, LeavingStep DEF FinalInv

\* When a program with one thread has exited, capturing is off and the last
\* report's total is the sum of what the stacks count, modulo the width of the
\* sum, however often and in whatever order mtrace() and muntrace() were called.
THEOREM LastReportIsComplete ==
  ASSUME OneThread
  PROVE  Spec => []FinalReport
  <1>1. Init => FinalInv
    BY FinalInit
  <1>2. TypeOK /\ Exclusion /\ ScanValid /\ FinalInv /\ [Next]_vars => FinalInv'
    BY FinalStep
  <1>3. FinalInv => FinalReport
    <2> SUFFICES ASSUME FinalInv, proc = "exited"
                 PROVE  ~captureOn /\ stats.total_bytes = Wrap(SumFunction([k \in DOMAIN stacks |-> stacks[k].num_bytes]))
      BY DEF FinalReport
    <2>1. PICK t \in Threads : TRUE
      BY DEF OneThread
    <2>2. Reported
      BY <2>1 DEF FinalInv, Leaving, LastReport
    <2>3. PICK f : f = [k \in DOMAIN stacks |-> stacks[k].num_bytes]
      OBVIOUS
    <2>4. SumFunction(f) = SumFunctionOnSet(f, DOMAIN f) /\ DOMAIN f = DOMAIN stacks
      BY <2>3 DEF SumFunction
    <2>5. QED
      BY <2>2, <2>3, <2>4 DEF Reported, BytesOf
  <1>4. Spec => []TypeOK /\ []Exclusion /\ []ScanValid
    BY TypeCorrect, MutualExclusion, ScanIsValid, PTL
  <1>5. QED
    BY <1>1, <1>2, <1>3, <1>4, PTL DEF Spec

-----------------------------------------------------------------------------
(***************************************************************************)
(* What a stack counts.                                                    *)
(***************************************************************************)

\* A program with one thread, whose libc calls succeed, which neither resizes
\* blocks nor calls muntrace(), and whose call stacks have keys other than 0.
Sequential == OneThread /\ Plain /\ ~LibcFails /\ NoKey \notin Keys

\* The records m under key k, how many they are and what they add up to.
RecordsIn(m, k) == {ptr \in DOMAIN m : m[ptr].key = k}
CountIn(m, k) == Cardinality(RecordsIn(m, k))
SumIn(m, k) == SumFunctionOnSet([ptr \in RecordsIn(m, k) |-> m[ptr].num_bytes], RecordsIn(m, k))

\* What the stacks s count under key k, and bytes that are a sum less one
\* request's size.
Counting(s, k) == IF k \in DOMAIN s THEN s[k].num_allocs ELSE 0
Short(bytes, total) == \E first \in Sizes : bytes = Wrap(total - first)
More(k, q, b) == IF k = q THEN b ELSE 0

\* The stacks s count the records m and one more of b bytes under key q.
Balanced(m, s, q, b) ==
  /\ DOMAIN s \subseteq Keys
  /\ \A k \in Keys : Counting(s, k) = CountIn(m, k) + More(k, q, 1)
  /\ \A k \in DOMAIN s : Short(s[k].num_bytes, SumIn(m, k) + More(k, q, b))

\* n has one record more than m, that of x.
OneMore(m, n, x) ==
  /\ x \notin DOMAIN m /\ DOMAIN n = DOMAIN m \cup {x}
  /\ \A y \in DOMAIN m : n[y] = m[y]

\* Finitely many records.
Recorded(m) == IsFiniteSet(DOMAIN m) /\ \A y \in DOMAIN m : m[y].num_bytes \in Int

LEMMA RecordsType ==
  ASSUME NEW m, Recorded(m), NEW k
  PROVE  /\ IsFiniteSet(RecordsIn(m, k)) /\ CountIn(m, k) \in Nat /\ SumIn(m, k) \in Int
         /\ CountIn(m, k) = 0 => SumIn(m, k) = 0
  <1>1. IsFiniteSet(RecordsIn(m, k))
    BY FS_Subset DEF Recorded, RecordsIn
  <1>2. CountIn(m, k) \in Nat
    BY <1>1, FS_CardinalityType DEF CountIn
  <1>3. PICK f, S : S = RecordsIn(m, k) /\ f = [ptr \in S |-> m[ptr].num_bytes]
    OBVIOUS
  <1>4. \A x \in S : f[x] \in Int
    BY <1>3 DEF Recorded, RecordsIn
  <1>5. SumIn(m, k) = SumFunctionOnSet(f, S)
    BY <1>3 DEF SumIn
  <1>6. SumIn(m, k) \in Int
    BY <1>1, <1>3, <1>4, <1>5, SumType
  <1>7. ASSUME CountIn(m, k) = 0 PROVE SumIn(m, k) = 0
    <2>1. S = {}
      BY <1>1, <1>3, <1>7, FS_EmptySet DEF CountIn
    <2>2. QED
      BY <1>5, <2>1, SumOfEmpty
  <1>8. QED
    BY <1>1, <1>2, <1>6, <1>7

LEMMA OneMoreRecord ==
  ASSUME NEW m, NEW n, NEW x, OneMore(m, n, x), Recorded(n), NEW k
  PROVE  /\ CountIn(n, k) = CountIn(m, k) + (IF k = n[x].key THEN 1 ELSE 0)
         /\ SumIn(n, k) = SumIn(m, k) + (IF k = n[x].key THEN n[x].num_bytes ELSE 0)
  <1>1. Recorded(m)
    BY FS_Subset DEF Recorded, OneMore
  <1>2. PICK R, S : R = RecordsIn(m, k) /\ S = RecordsIn(n, k)
    OBVIOUS
  <1>3. IsFiniteSet(R) /\ Cardinality(R) \in Nat /\ Cardinality(R) = CountIn(m, k) /\ Cardinality(S) = CountIn(n, k)
    BY <1>1, <1>2, RecordsType DEF CountIn
  <1>4. PICK f, g : f = [ptr \in R |-> m[ptr].num_bytes] /\ g = [ptr \in S |-> n[ptr].num_bytes]
    OBVIOUS
  <1>5. SumIn(m, k) = SumFunctionOnSet(f, R) /\ SumIn(n, k) = SumFunctionOnSet(g, S)
    BY <1>2, <1>4 DEF SumIn
  <1>6. /\ \A y \in S : g[y] = n[y].num_bytes /\ g[y] \in Int
        /\ \A y \in R : y \in S /\ f[y] = g[y]
    BY <1>2, <1>4 DEF RecordsIn, Recorded, OneMore
  <1>7. SumFunctionOnSet(f, R) = SumFunctionOnSet(g, R)
    BY <1>3, <1>6, SumSame
  <1>8. SumFunctionOnSet(g, R) \in Int
    BY <1>3, <1>6, SumType
  <1>9. CASE k = n[x].key
    <2>1. S = R \cup {x} /\ x \notin R
      BY <1>2, <1>9 DEF RecordsIn, OneMore
    <2>2. Cardinality(S) = Cardinality(R) + 1
      BY <1>3, <2>1, FS_AddElement
    <2>3. SumFunctionOnSet(g, S) = g[x] + SumFunctionOnSet(g, R)
      BY <1>3, <1>6, <2>1, SumAdd
    <2>4. g[x] = n[x].num_bytes /\ g[x] \in Int
      BY <1>6, <2>1
    <2>5. QED
      BY <1>3, <1>5, <1>7, <1>8, <1>9, <2>2, <2>3, <2>4
  <1>10. CASE k # n[x].key
    <2>1. S = R
      BY <1>2, <1>10 DEF RecordsIn, OneMore
    <2>2. QED
      BY <1>3, <1>5, <1>7, <1>8, <1>10, <2>1
  <1>11. QED
    BY <1>9, <1>10

\* A block is recorded after it is counted, and counted until its record is gone.
LEMMA BalancedRecord ==
  ASSUME NEW m, NEW n, NEW x, NEW s, NEW q, NEW b, OneMore(m, n, x), Recorded(n),
         q = n[x].key, b = n[x].num_bytes, q \in Keys, NoKey \notin Keys
  PROVE  Balanced(n, s, NoKey, 0) <=> Balanced(m, s, q, b)
  <1>1. \A k : /\ CountIn(n, k) = CountIn(m, k) + (IF k = q THEN 1 ELSE 0)
               /\ SumIn(n, k) = SumIn(m, k) + (IF k = q THEN b ELSE 0)
    BY OneMoreRecord
  <1>2. Recorded(m)
    BY FS_Subset DEF Recorded, OneMore
  <1>3. \A k : CountIn(n, k) \in Nat /\ SumIn(n, k) \in Int
    BY RecordsType
  <1>4. \A k \in Keys : /\ CountIn(n, k) + More(k, NoKey, 1) = CountIn(m, k) + More(k, q, 1)
                        /\ SumIn(n, k) + More(k, NoKey, 0) = SumIn(m, k) + More(k, q, b)
    BY <1>1, <1>3 DEF More
  <1>5. ASSUME Balanced(n, s, NoKey, 0) PROVE Balanced(m, s, q, b)
    BY <1>4, <1>5 DEF Balanced
  <1>6. ASSUME Balanced(m, s, q, b) PROVE Balanced(n, s, NoKey, 0)
    BY <1>4, <1>6 DEF Balanced
  <1>7. QED
    BY <1>5, <1>6

\* The keys of two maps of stacks agree but for one, under which one more block
\* of b bytes is counted.
LEMMA BalancedBy ==
  ASSUME NEW m, NEW s, NEW r, NEW p, NEW q, NEW b, NEW c, NEW key \in Keys, Recorded(m), NoKey \notin Keys,
         p \in {key, NoKey}, q \in {key, NoKey}, b \in Int, c \in Int, Balanced(m, s, p, b),
         DOMAIN r \subseteq DOMAIN s \cup {key}, DOMAIN s \subseteq DOMAIN r \cup {key},
         \A k \in DOMAIN s \ {key} : r[k] = s[k],
         Counting(r, key) = CountIn(m, key) + More(key, q, 1),
         key \in DOMAIN r => Short(r[key].num_bytes, SumIn(m, key) + More(key, q, c))
  PROVE  Balanced(m, r, q, c)
  <1>1. \A k \in Keys \ {key} : More(k, p, 1) = More(k, q, 1) /\ More(k, p, b) = More(k, q, c)
    BY DEF More
  <1>2. \A k \in Keys \ {key} : Counting(r, k) = CountIn(m, k) + More(k, q, 1)
    BY <1>1 DEF Balanced, Counting
  <1>3. \A k \in DOMAIN r \ {key} : k \in DOMAIN s /\ k \in Keys /\ r[k] = s[k]
    BY DEF Balanced
  <1>4. \A k \in DOMAIN r \ {key} : Short(r[k].num_bytes, SumIn(m, k) + More(k, q, c))
    BY <1>1, <1>3 DEF Balanced
  <1>5. DOMAIN r \subseteq Keys
    BY DEF Balanced
  <1>6. QED
    BY <1>2, <1>4, <1>5 DEF Balanced

\* alloc() counts the block, or makes the stack with a block of no bytes.
LEMMA BalancedAlloc ==
  ASSUME NEW m, NEW s, NEW r, NEW key \in Keys, NEW size \in Sizes, Recorded(m), s \in [DOMAIN s -> Stack],
         NoKey \notin Keys, Balanced(m, s, NoKey, 0),
         r = IF key \notin DOMAIN s THEN Put(s, key, NewStack) ELSE [s EXCEPT ![key] = Counted(@, size)]
  PROVE  Balanced(m, r, key, size)
  <1>1. /\ DOMAIN r = DOMAIN s \cup {key}
        /\ \A k \in DOMAIN s \ {key} : r[k] = s[k]
        /\ key \notin DOMAIN s => r[key] = NewStack
        /\ key \in DOMAIN s => r[key] = Counted(s[key], size)
    BY DEF Put
  <1>2. \A k : CountIn(m, k) \in Nat /\ SumIn(m, k) \in Int /\ (CountIn(m, k) = 0 => SumIn(m, k) = 0)
    BY RecordsType
  <1>3. size \in Int /\ (\A first \in Sizes : first \in Int) /\ Wrap(0) = 0
    BY ConstantsAssumption, WrapZero DEF Bytes
  <1>4. More(key, NoKey, 1) = 0 /\ More(key, NoKey, 0) = 0 /\ More(key, key, 1) = 1 /\ More(key, key, size) = size
    BY DEF More
  <1>5. CASE key \notin DOMAIN s
    <2>1. CountIn(m, key) = 0 /\ SumIn(m, key) = 0
      BY <1>2, <1>4, <1>5 DEF Balanced, Counting
    <2>2. r[key].num_allocs = 1 /\ r[key].num_bytes = 0
      BY <1>1, <1>5 DEF NewStack
    <2>3. Counting(r, key) = CountIn(m, key) + More(key, key, 1)
      BY <1>1, <1>4, <2>1, <2>2 DEF Counting
    <2>4. (SumIn(m, key) + More(key, key, size)) - size = 0
      BY <1>3, <1>4, <2>1
    <2>5. Short(r[key].num_bytes, SumIn(m, key) + More(key, key, size))
      <3>1. r[key].num_bytes = Wrap((SumIn(m, key) + More(key, key, size)) - size)
        BY <1>3, <2>2, <2>4
      <3>2. QED
        BY <3>1, Zenon DEF Short
    <2>6. QED
      BY <1>1, <1>3, <2>3, <2>5, BalancedBy
  <1>6. CASE key \in DOMAIN s
    <2>1. PICK first \in Sizes : s[key].num_bytes = Wrap((SumIn(m, key) + More(key, NoKey, 0)) - first)
      <3>1. Short(s[key].num_bytes, SumIn(m, key) + More(key, NoKey, 0))
        BY <1>6 DEF Balanced
      <3>2. QED
        BY <3>1, Zenon DEF Short
    <2>2. s[key] \in Stack
      BY <1>6
    <2>3. r[key].num_allocs = s[key].num_allocs + 1 /\ r[key].num_bytes = Wrap(s[key].num_bytes + size)
      BY <1>1, <1>6, <2>2 DEF Counted, Stack
    <2>4. s[key].num_allocs = CountIn(m, key)
      BY <1>2, <1>4, <1>6 DEF Balanced, Counting
    <2>5. PICK d \in Int : d = (SumIn(m, key) + More(key, NoKey, 0)) - first
      BY <1>2, <1>3, <1>4
    <2>6. Wrap(Wrap(d) + size) = Wrap(d + size)
      BY <1>3, WrapAdd
    <2>7. d + size = (SumIn(m, key) + More(key, key, size)) - first
      BY <1>2, <1>3, <1>4, <2>5
    <2>8. r[key].num_bytes = Wrap((SumIn(m, key) + More(key, key, size)) - first)
      BY <2>1, <2>3, <2>5, <2>6, <2>7
    <2>9. Short(r[key].num_bytes, SumIn(m, key) + More(key, key, size))
      BY <2>8, Zenon DEF Short
    <2>10. Counting(r, key) = CountIn(m, key) + More(key, key, 1)
      BY <1>1, <1>4, <1>6, <2>3, <2>4 DEF Counting
    <2>11. QED
      BY <1>1, <1>3, <2>9, <2>10, BalancedBy
  <1>7. QED
    BY <1>5, <1>6

\* free() uncounts the block, and the stack goes with its last one.
LEMMA BalancedFree ==
  ASSUME NEW m, NEW s, NEW r, NEW key \in Keys, NEW b \in Int, Recorded(m), s \in [DOMAIN s -> Stack],
         NoKey \notin Keys, Balanced(m, s, key, b),
         r = IF key \notin DOMAIN s THEN s
             ELSE IF s[key].num_allocs - 1 = 0 THEN Drop(s, key) ELSE [s EXCEPT ![key] = Uncounted(@, b)]
  PROVE  Balanced(m, r, NoKey, 0)
  <1>1. \A k : CountIn(m, k) \in Nat /\ SumIn(m, k) \in Int
    BY RecordsType
  <1>2. (\A first \in Sizes : first \in Int) /\ 0 \in Int
    BY ConstantsAssumption DEF Bytes
  <1>3. More(key, NoKey, 1) = 0 /\ More(key, NoKey, 0) = 0 /\ More(key, key, 1) = 1 /\ More(key, key, b) = b
    BY DEF More
  <1>4. key \in DOMAIN s /\ s[key].num_allocs = CountIn(m, key) + 1 /\ s[key] \in Stack
    BY <1>1, <1>3 DEF Balanced, Counting
  <1>5. CASE CountIn(m, key) = 0
    <2>1. DOMAIN r = DOMAIN s \ {key} /\ \A k \in DOMAIN s \ {key} : r[k] = s[k]
      BY <1>1, <1>4, <1>5 DEF Drop, Restrict
    <2>2. Counting(r, key) = CountIn(m, key) + More(key, NoKey, 1)
      BY <1>3, <1>5, <2>1 DEF Counting
    <2>3. key \notin DOMAIN r /\ DOMAIN r \subseteq DOMAIN s /\ DOMAIN s \subseteq DOMAIN r \cup {key}
      BY <2>1
    <2>4. QED
      BY <1>2, <2>1, <2>2, <2>3, BalancedBy
  <1>6. CASE CountIn(m, key) # 0
    <2>1. r = [s EXCEPT ![key] = Uncounted(@, b)]
      BY <1>1, <1>4, <1>6
    <2>2. DOMAIN r = DOMAIN s /\ r[key] = Uncounted(s[key], b) /\ \A k \in DOMAIN s \ {key} : r[k] = s[k]
      BY <1>4, <2>1
    <2>3. r[key].num_allocs = s[key].num_allocs - 1 /\ r[key].num_bytes = Wrap(s[key].num_bytes - b)
      BY <1>4, <2>2 DEF Uncounted, Stack
    <2>4. PICK first \in Sizes : s[key].num_bytes = Wrap((SumIn(m, key) + More(key, key, b)) - first)
      <3>1. Short(s[key].num_bytes, SumIn(m, key) + More(key, key, b))
        BY <1>4 DEF Balanced
      <3>2. QED
        BY <3>1, Zenon DEF Short
    <2>5. PICK d \in Int, c \in Int : d = (SumIn(m, key) + More(key, key, b)) - first /\ c = -b
      BY <1>1, <1>2, <1>3
    <2>6. Wrap(Wrap(d) + c) = Wrap(d + c)
      BY WrapAdd
    <2>7. Wrap(d) \in Int
      BY ConstantsAssumption, WrapType DEF Bytes
    <2>8. Wrap(d) + c = s[key].num_bytes - b /\ d + c = (SumIn(m, key) + More(key, NoKey, 0)) - first
      BY <1>1, <1>2, <1>3, <2>4, <2>5, <2>7
    <2>9. Short(r[key].num_bytes, SumIn(m, key) + More(key, NoKey, 0))
      <3>1. r[key].num_bytes = Wrap((SumIn(m, key) + More(key, NoKey, 0)) - first)
        BY <2>3, <2>4, <2>5, <2>6, <2>8
      <3>2. QED
        BY <3>1, Zenon DEF Short
    <2>10. Counting(r, key) = CountIn(m, key) + More(key, NoKey, 1)
      BY <1>1, <1>3, <1>4, <2>2, <2>3 DEF Counting
    <2>11. QED
      BY <1>4, <2>2, <2>9, <2>10, BalancedBy
  <1>7. QED
    BY <1>5, <1>6

\* What the thread has counted and not yet recorded, or taken out of the records
\* and not yet uncounted.
DueKey(t) ==
  IF pc[t] = "alloc_record" THEN call[t].key ELSE IF pc[t] = "free_stack" THEN call[t].fkey ELSE NoKey
DueBytes(t) ==
  IF pc[t] = "alloc_record" THEN call[t].size ELSE IF pc[t] = "free_stack" THEN call[t].nfree ELSE 0

\* A block on its way to its record has none.
Fresh ==
  /\ \A t \in Threads :
       /\ pc[t] \in AllocPath => /\ call[t].ptr \in Addrs \ DOMAIN allocations
                                 /\ call[t].size \in Sizes /\ call[t].key \in Keys
       /\ pc[t] = "free_stack" => call[t].fkey \in Keys
  /\ \A a \in DOMAIN allocations : a \in Addrs /\ allocations[a].key \in Keys

Matched == \A t \in Threads : Balanced(allocations, stacks, DueKey(t), DueBytes(t))

\* With capturing on from the start, what the program holds, or is about to be
\* handed by a call that has been through the tracker, is recorded.
HeldRecorded ==
  MtraceInit =>
    /\ proc = "running" => captureOn
    /\ held \subseteq DOMAIN allocations
    /\ \A t \in Threads : /\ pc[t] \notin AllocPath => Owned(t) \subseteq DOMAIN allocations
                          /\ pc[t] \in FreePath => Owned(t) = {} /\ call[t].ptr \notin held

OneInv == Fresh /\ Matched /\ HeldRecorded

LEMMA RecordedBy ==
  ASSUME NEW m, IsFiniteSet(DOMAIN m), m \in [DOMAIN m -> Record]
  PROVE  Recorded(m)
  <1>1. \A y \in DOMAIN m : m[y] \in Record
    OBVIOUS
  <1>2. \A y \in DOMAIN m : m[y].num_bytes \in Int
    BY <1>1, ConstantsAssumption DEF Record, Bytes
  <1>3. QED
    BY <1>2 DEF Recorded

LEMMA RecordedNow == TypeOK => Recorded(allocations)
  BY RecordedBy DEF TypeOK

LEMMA OneInit == Sequential /\ Init => OneInv
  <1> SUFFICES ASSUME Sequential, Init PROVE OneInv
    OBVIOUS
  <1>1. \A t \in Threads : pc[t] = "app" /\ Owned(t) = {}
    BY ConstantsAssumption DEF Init, NoCall, NewCall, Owned
  <1>2. DOMAIN allocations = {} /\ DOMAIN stacks = {} /\ held = {} /\ (MtraceInit => captureOn)
    BY DEF Init
  <1>3. \A k : RecordsIn(allocations, k) = {} /\ CountIn(allocations, k) = 0
    BY <1>2, FS_EmptySet DEF RecordsIn, CountIn
  <1>4. \A k \in Keys : Counting(stacks, k) = 0 /\ More(k, NoKey, 1) = 0
    BY <1>2 DEF Counting, More, Sequential
  <1>5. Balanced(allocations, stacks, NoKey, 0)
    BY <1>2, <1>3, <1>4 DEF Balanced
  <1>6. \A t \in Threads : DueKey(t) = NoKey /\ DueBytes(t) = 0
    BY <1>1 DEF DueKey, DueBytes
  <1>7. Matched
    BY <1>5, <1>6 DEF Matched
  <1>8. QED
    BY <1>1, <1>2, <1>7 DEF OneInv, Fresh, HeldRecorded, AllocPath, FreePath

\* A step that leaves the maps alone and has nothing due before or after.
LEMMA MatchedKeep ==
  ASSUME OneThread, Matched, NEW t \in Threads, UNCHANGED <<allocations, stacks>>,
         pc[t] \notin {"alloc_record", "free_stack"}, pc'[t] \notin {"alloc_record", "free_stack"}
  PROVE  Matched'
  <1>1. DueKey(t) = NoKey /\ DueBytes(t) = 0 /\ DueKey(t)' = NoKey /\ DueBytes(t)' = 0
    BY DEF DueKey, DueBytes
  <1>2. Balanced(allocations, stacks, NoKey, 0)
    BY <1>1 DEF Matched
  <1>3. Balanced(allocations', stacks', DueKey(t)', DueBytes(t)')
    BY <1>1, <1>2
  <1>4. QED
    BY <1>3 DEF OneThread, Matched

\* A step that moves the thread along its path.
LEMMA OneMove ==
  ASSUME OneThread, OneInv, NEW t \in Threads, UNCHANGED <<allocations, stacks, call, held>>,
         pc[t] \notin {"alloc_record", "free_stack"}, pc'[t] \notin {"alloc_record", "free_stack"},
         pc[t] \in AllocPath <=> pc'[t] \in AllocPath, pc'[t] \in FreePath => pc[t] \in FreePath,
         proc' = "running" => proc = "running" /\ (captureOn => captureOn')
  PROVE  OneInv'
  <1>1. Matched'
    BY MatchedKeep DEF OneInv
  <1>2. Fresh'
    BY DEF OneThread, OneInv, Fresh
  <1>3. HeldRecorded'
    BY DEF OneThread, OneInv, HeldRecorded, Owned
  <1>4. QED
    BY <1>1, <1>2, <1>3 DEF OneInv

\* The tracker's return.
LEMMA OneResume ==
  ASSUME OneThread, TypeOK, OneInv, NEW t \in Threads, Resume(t), cont[t] # "alloc_guard",
         UNCHANGED <<allocations, stacks, proc>>, pc[t] \notin {"alloc_record", "free_stack"},
         captureOn => captureOn', MtraceInit => Owned(t) \subseteq DOMAIN allocations
  PROVE  OneInv'
  <1>1. CASE cont[t] = "exit"
    <2>1. pc'[t] = "exit" /\ UNCHANGED <<held, call>>
      BY <1>1 DEF Resume, Goto, TypeOK
    <2>2. Matched'
      BY <2>1, MatchedKeep DEF OneInv
    <2>3. Fresh'
      BY <2>1 DEF OneThread, OneInv, Fresh, AllocPath
    <2>4. HeldRecorded'
      BY <2>1 DEF OneThread, OneInv, HeldRecorded, Owned, FreePath
    <2>5. QED
      BY <2>2, <2>3, <2>4 DEF OneInv
  <1>2. CASE cont[t] = "app"
    <2>1. pc'[t] = "app" /\ held' = held \cup Owned(t) /\ call'[t].owned = Null
      BY <1>2 DEF Resume, Goto, TypeOK, Owned, NoCall, NewCall
    <2>2. Owned(t)' = {}
      BY <2>1, ConstantsAssumption DEF Owned
    <2>3. Matched'
      BY <2>1, MatchedKeep DEF OneInv
    <2>4. Fresh'
      BY <2>1 DEF OneThread, OneInv, Fresh, AllocPath
    <2>5. HeldRecorded'
      BY <2>1, <2>2 DEF OneThread, OneInv, HeldRecorded, FreePath
    <2>6. QED
      BY <2>3, <2>4, <2>5 DEF OneInv
  <1>3. QED
    BY <1>1, <1>2 DEF TypeOK

\* What libc hands out is not recorded, or nothing freed were.
LEMMA OneAlloc ==
  ASSUME OneThread, ~LibcFails, TypeOK, LeakInv, Leaving, OneInv, NEW t \in Threads, NEW region \in SUBSET Addrs,
         NEW failure, LibcAlloc(t, region, failure), At(t, "app")
  PROVE  OneInv'
  <1>1. PICK result \in region \ live, size \in Sizes, key \in Keys :
          call' = [call EXCEPT ![t] = NewCall(result, result, result, size, key)]
    BY DEF LibcAlloc
  <1>2. /\ pc'[t] = "hook_alloc" /\ pc[t] = "app" /\ proc = "running"
        /\ UNCHANGED <<held, proc, captureOn, allocations, stacks>>
    BY DEF LibcAlloc, Goto, captureVars, dataVars, TypeOK, At, Leaving, ExitPath
  <1>3. call'[t].ptr = result /\ call'[t].size = size /\ call'[t].key = key /\ call'[t].owned = result
    BY <1>1 DEF TypeOK, NewCall
  <1>4. result \in Addrs \ DOMAIN allocations
    BY <1>1, <1>2 DEF OneThread, LeakInv, NoFalseLeak
  <1>5. Matched'
    BY <1>2, MatchedKeep DEF OneInv
  <1>6. Fresh'
    BY <1>2, <1>3, <1>4 DEF OneThread, OneInv, Fresh
  <1>7. HeldRecorded'
    BY <1>2 DEF OneThread, OneInv, HeldRecorded, AllocPath, FreePath
  <1>8. QED
    BY <1>5, <1>6, <1>7 DEF OneInv

\* What is freed is no longer held.
LEMMA OneFree ==
  ASSUME OneThread, TypeOK, OneInv, NEW t \in Threads, NEW ptr, NEW freed,
         LibcFree(t, ptr, freed), freed = {ptr} \cap Addrs, At(t, "app")
  PROVE  OneInv'
  <1>1. /\ held' = held \ freed /\ call' = [call EXCEPT ![t] = NewCall(ptr, Null, Null, 0, NoKey)]
        /\ pc'[t] = "hook_free" /\ pc[t] = "app" /\ UNCHANGED <<proc, captureOn, allocations, stacks>>
    BY DEF LibcFree, Goto, captureVars, dataVars, TypeOK, At
  <1>2. call'[t].ptr = ptr /\ call'[t].owned = Null
    BY <1>1 DEF TypeOK, NewCall
  <1>3. Owned(t)' = {} /\ ptr \notin held'
    BY <1>1, <1>2, ConstantsAssumption DEF Owned, TypeOK
  <1>4. Matched'
    BY <1>1, MatchedKeep DEF OneInv
  <1>5. Fresh'
    BY <1>1 DEF OneThread, OneInv, Fresh, AllocPath
  <1>6. HeldRecorded'
    BY <1>1, <1>2, <1>3 DEF OneThread, OneInv, HeldRecorded
  <1>7. QED
    BY <1>4, <1>5, <1>6 DEF OneInv

LEMMA OneProgram ==
  ASSUME Sequential, TypeOK, LeakInv, Leaving, OneInv, NEW t \in Threads, Program(t)
  PROVE  OneInv'
  <1>1. CASE Malloc(t) \/ Memalign(t) \/ Mmap(t)
    BY <1>1, OneAlloc DEF Malloc, Memalign, Mmap, Calling, Addrs, Sequential
  <1>2. CASE Free(t) \/ Munmap(t)
    <2>1. PICK ptr, freed : LibcFree(t, ptr, freed) /\ freed = {ptr} \cap Addrs /\ At(t, "app")
      BY <1>2, ConstantsAssumption DEF Free, Munmap, Calling, Addrs, Sequential
    <2>2. QED
      BY <2>1, OneFree DEF Sequential
  <1>3. CASE Realloc(t) \/ Muntrace(t)
    BY <1>3 DEF Realloc, Muntrace, Calling, Sequential, Plain
  <1>4. CASE Mtrace(t)
    BY <1>4, OneMove DEF Mtrace, Calling, At, Goto, captureVars, dataVars, AllocPath, FreePath, Sequential, TypeOK
  <1>5. CASE Exit(t)
    BY <1>5, OneMove DEF Exit, Calling, At, Goto, captureVars, dataVars, AllocPath, FreePath, Sequential, TypeOK
  <1>6. QED
    BY <1>1, <1>2, <1>3, <1>4, <1>5 DEF Program

\* alloc() counts the block.
LEMMA OneAllocStack ==
  ASSUME Sequential, TypeOK, OneInv, NEW t \in Threads, AllocStack(t)
  PROVE  OneInv'
  <1>1. /\ pc[t] = "alloc_stack" /\ pc'[t] = "alloc_record"
        /\ UNCHANGED <<allocations, call, held, proc, captureOn>>
    BY DEF AllocStack, At, Goto, TypeOK, appVars, captureVars
  <1>2. PICK m, s, r, key, size : /\ m = allocations /\ s = stacks /\ r = stacks'
                                  /\ key = call[t].key /\ size = call[t].size
    OBVIOUS
  <1>3. r = IF key \notin DOMAIN s THEN Put(s, key, NewStack) ELSE [s EXCEPT ![key] = Counted(@, size)]
    BY <1>2 DEF AllocStack
  <1>4. key \in Keys /\ size \in Sizes
    BY <1>1, <1>2 DEF OneInv, Fresh, AllocPath
  <1>5. Recorded(m) /\ s \in [DOMAIN s -> Stack] /\ NoKey \notin Keys
    BY <1>2, RecordedNow DEF TypeOK, Sequential
  <1>6. DueKey(t) = NoKey /\ DueBytes(t) = 0 /\ DueKey(t)' = key /\ DueBytes(t)' = size
    BY <1>1, <1>2 DEF DueKey, DueBytes
  <1>7. Balanced(m, s, NoKey, 0)
    BY <1>2, <1>6 DEF OneInv, Matched
  <1>8. Balanced(m, r, key, size)
    BY <1>3, <1>4, <1>5, <1>7, BalancedAlloc
  <1>9. Balanced(allocations', stacks', DueKey(t)', DueBytes(t)')
    BY <1>1, <1>2, <1>6, <1>8
  <1>10. Matched'
    BY <1>9 DEF Sequential, OneThread, Matched
  <1>11. Fresh' /\ HeldRecorded'
    BY <1>1 DEF Sequential, OneThread, OneInv, Fresh, HeldRecorded, Owned, AllocPath, FreePath
  <1>12. QED
    BY <1>10, <1>11 DEF OneInv

\* alloc() records the block.
LEMMA OneAllocRecord ==
  ASSUME Sequential, TypeOK, TypeOK', LeakInv, OneInv, NEW t \in Threads, AllocRecord(t)
  PROVE  OneInv'
  <1>1. /\ pc[t] = "alloc_record" /\ pc'[t] = "unlock"
        /\ UNCHANGED <<stacks, call, held, proc, captureOn>>
    BY DEF AllocRecord, At, Goto, TypeOK, appVars, captureVars
  <1>2. PICK m, n, s, x, key, size : /\ m = allocations /\ n = allocations' /\ s = stacks
                                     /\ x = call[t].ptr /\ key = call[t].key /\ size = call[t].size
    OBVIOUS
  <1>3. n = Put(m, x, [num_bytes |-> size, key |-> key])
    BY <1>2 DEF AllocRecord
  <1>4. x \in Addrs \ DOMAIN m /\ key \in Keys
    BY <1>1, <1>2 DEF OneInv, Fresh, AllocPath
  <1>5. OneMore(m, n, x) /\ n[x].num_bytes = size /\ n[x].key = key
    BY <1>3, <1>4 DEF Put, OneMore
  <1>6. Recorded(n) /\ NoKey \notin Keys
    BY <1>2, RecordedBy DEF Sequential, TypeOK
  <1>7. DueKey(t) = key /\ DueBytes(t) = size /\ DueKey(t)' = NoKey /\ DueBytes(t)' = 0
    BY <1>1, <1>2 DEF DueKey, DueBytes
  <1>8. Balanced(m, s, key, size)
    BY <1>2, <1>7 DEF OneInv, Matched
  <1>9. Balanced(n, s, NoKey, 0)
    BY <1>4, <1>5, <1>6, <1>8, BalancedRecord
  <1>10. Balanced(allocations', stacks', DueKey(t)', DueBytes(t)')
    BY <1>1, <1>2, <1>7, <1>9
  <1>11. Matched'
    BY <1>10 DEF Sequential, OneThread, Matched
  <1>12. /\ DOMAIN allocations' = DOMAIN allocations \cup {call[t].ptr}
         /\ \A a \in DOMAIN allocations : allocations'[a] = allocations[a]
         /\ allocations'[call[t].ptr].key \in Keys /\ call[t].ptr \in Addrs
    BY <1>2, <1>4, <1>5 DEF OneMore
  <1>13. Fresh'
    BY <1>1, <1>12 DEF Sequential, OneThread, OneInv, Fresh, AllocPath
  <1>14. Owned(t)' \subseteq DOMAIN allocations'
    BY <1>1, <1>12 DEF LeakInv, Paths, AllocPath, Owned
  <1>15. HeldRecorded'
    BY <1>1, <1>12, <1>14 DEF Sequential, OneThread, OneInv, HeldRecorded, FreePath
  <1>16. QED
    BY <1>11, <1>13, <1>15 DEF OneInv

\* free() takes the block's record out.
LEMMA OneFreeFind ==
  ASSUME Sequential, TypeOK, TypeOK', OneInv, NEW t \in Threads, FreeFind(t)
  PROVE  OneInv'
  <1>1. pc[t] = "free_find" /\ UNCHANGED <<stacks, held, proc, captureOn>>
    BY DEF FreeFind, At, appVars, captureVars
  <1>2. MtraceInit => Owned(t) = {} /\ call[t].ptr \notin held
    BY <1>1 DEF OneInv, HeldRecorded, FreePath
  <1>3. CASE call[t].ptr \notin DOMAIN allocations
    <2>1. pc'[t] = "unlock" /\ UNCHANGED <<allocations, call>>
      BY <1>3 DEF FreeFind, Goto, TypeOK
    <2>2. QED
      BY <1>1, <2>1, OneMove DEF Sequential, AllocPath, FreePath
  <1>4. CASE call[t].ptr \in DOMAIN allocations
    <2>1. PICK m, n, s, x, record, c : /\ m = allocations' /\ n = allocations /\ s = stacks
                                       /\ x = call[t].ptr /\ record = allocations[x] /\ c = call[t]
      OBVIOUS
    <2>2. record.key \in Keys /\ record.key # NoKey
      BY <1>4, <2>1 DEF OneInv, Fresh, Sequential
    <2>3. m = Drop(n, x) /\ call' = [call EXCEPT ![t] = [[c EXCEPT !.fkey = record.key] EXCEPT !.nfree = record.num_bytes]]
      BY <1>4, <2>1 DEF FreeFind, TypeOK
    <2>4. pc'[t] = "free_stack"
      BY <1>4, <2>1, <2>2 DEF FreeFind, Goto, TypeOK
    <2>5. c \in Call
      BY <2>1 DEF TypeOK
    <2>6. \A d \in Call :
            /\ [[d EXCEPT !.fkey = record.key] EXCEPT !.nfree = record.num_bytes].fkey = record.key
            /\ [[d EXCEPT !.fkey = record.key] EXCEPT !.nfree = record.num_bytes].nfree = record.num_bytes
            /\ [[d EXCEPT !.fkey = record.key] EXCEPT !.nfree = record.num_bytes].owned = d.owned
      BY DEF Call
    <2>7. call'[t].fkey = record.key /\ call'[t].nfree = record.num_bytes /\ call'[t].owned = call[t].owned
      BY <2>1, <2>3, <2>5, <2>6 DEF TypeOK
    <2>8. OneMore(m, n, x)
      BY <1>4, <2>1, <2>3 DEF Drop, Restrict, OneMore
    <2>9. Recorded(n) /\ NoKey \notin Keys /\ n[x].key = record.key /\ n[x].num_bytes = record.num_bytes
      BY <2>1, RecordedNow DEF Sequential
    <2>10. DueKey(t) = NoKey /\ DueBytes(t) = 0 /\ DueKey(t)' = record.key /\ DueBytes(t)' = record.num_bytes
      BY <1>1, <2>4, <2>7 DEF DueKey, DueBytes
    <2>11. Balanced(n, s, NoKey, 0)
      BY <2>1, <2>10 DEF OneInv, Matched
    <2>12. Balanced(m, s, record.key, record.num_bytes)
      BY <2>2, <2>8, <2>9, <2>11, BalancedRecord
    <2>13. Balanced(allocations', stacks', DueKey(t)', DueBytes(t)')
      BY <1>1, <2>1, <2>10, <2>12
    <2>14. Matched'
      BY <2>13 DEF Sequential, OneThread, Matched
    <2>15. /\ DOMAIN allocations' = DOMAIN allocations \ {call[t].ptr}
           /\ \A a \in DOMAIN allocations' : allocations'[a] = allocations[a]
      BY <2>1, <2>8 DEF OneMore
    <2>16. Fresh'
      BY <2>2, <2>4, <2>7, <2>15 DEF Sequential, OneThread, OneInv, Fresh, AllocPath
    <2>17. HeldRecorded'
      <3>1. Owned(t)' = Owned(t)
        BY <2>7 DEF Owned
      <3>2. MtraceInit => held \subseteq DOMAIN allocations'
        BY <1>2, <2>15 DEF OneInv, HeldRecorded
      <3>3. QED
        BY <1>1, <1>2, <2>4, <3>1, <3>2 DEF Sequential, OneThread, OneInv, HeldRecorded, FreePath
    <2>18. QED
      BY <2>14, <2>16, <2>17 DEF OneInv
  <1>5. QED
    BY <1>3, <1>4

\* free() uncounts the block.
LEMMA OneFreeStack ==
  ASSUME Sequential, TypeOK, OneInv, NEW t \in Threads, FreeStack(t)
  PROVE  OneInv'
  <1>1. /\ pc[t] = "free_stack" /\ pc'[t] = "unlock"
        /\ UNCHANGED <<allocations, call, held, proc, captureOn>>
    BY DEF FreeStack, At, Goto, TypeOK, appVars, captureVars
  <1>2. PICK m, s, r, key, b : /\ m = allocations /\ s = stacks /\ r = stacks'
                               /\ key = call[t].fkey /\ b = call[t].nfree
    OBVIOUS
  <1>3. r = IF key \notin DOMAIN s THEN s
            ELSE IF s[key].num_allocs - 1 = 0 THEN Drop(s, key) ELSE [s EXCEPT ![key] = Uncounted(@, b)]
    BY <1>2 DEF FreeStack
  <1>4. key \in Keys /\ b \in Int
    <2>1. call[t] \in Call
      BY DEF TypeOK
    <2>2. b \in Int
      BY <1>2, <2>1, ConstantsAssumption DEF Call, Bytes
    <2>3. QED
      BY <1>1, <1>2, <2>2 DEF OneInv, Fresh
  <1>5. Recorded(m) /\ s \in [DOMAIN s -> Stack] /\ NoKey \notin Keys
    BY <1>2, RecordedNow DEF TypeOK, Sequential
  <1>6. DueKey(t) = key /\ DueBytes(t) = b /\ DueKey(t)' = NoKey /\ DueBytes(t)' = 0
    BY <1>1, <1>2 DEF DueKey, DueBytes
  <1>7. Balanced(m, s, key, b)
    BY <1>2, <1>6 DEF OneInv, Matched
  <1>8. Balanced(m, r, NoKey, 0)
    BY <1>3, <1>4, <1>5, <1>7, BalancedFree
  <1>9. Balanced(allocations', stacks', DueKey(t)', DueBytes(t)')
    BY <1>1, <1>2, <1>6, <1>8
  <1>10. Matched'
    BY <1>9 DEF Sequential, OneThread, Matched
  <1>11. Fresh' /\ HeldRecorded'
    BY <1>1 DEF Sequential, OneThread, OneInv, Fresh, HeldRecorded, Owned, AllocPath, FreePath
  <1>12. QED
    BY <1>10, <1>11 DEF OneInv

\* report() leaves what the stacks count alone.
LEMMA OneReportMark ==
  ASSUME Sequential, TypeOK, OneInv, NEW t \in Threads, ReportMark(t)
  PROVE  OneInv'
  <1>1. /\ pc[t] = "report_mark" /\ pc'[t] = "unlock"
        /\ UNCHANGED <<allocations, call, held, proc, captureOn>>
    BY DEF ReportMark, At, Goto, TypeOK, appVars, captureVars
  <1>2. PICK m, s, r : m = allocations /\ s = stacks /\ r = stacks'
    OBVIOUS
  <1>3. \A k \in DOMAIN s : s[k] \in Stack
    BY <1>2 DEF TypeOK
  <1>4. r = [k \in DOMAIN s |-> [s[k] EXCEPT !.prev_num_bytes = s[k].num_bytes]]
    BY <1>2 DEF ReportMark
  <1>5. /\ DOMAIN r = DOMAIN s
        /\ \A k \in DOMAIN s : r[k].num_allocs = s[k].num_allocs /\ r[k].num_bytes = s[k].num_bytes
    BY <1>3, <1>4 DEF Stack
  <1>6. DueKey(t) = NoKey /\ DueBytes(t) = 0 /\ DueKey(t)' = NoKey /\ DueBytes(t)' = 0
    BY <1>1 DEF DueKey, DueBytes
  <1>7. Balanced(m, s, NoKey, 0)
    BY <1>2, <1>6 DEF OneInv, Matched
  <1>8. Balanced(m, r, NoKey, 0)
    BY <1>5, <1>7 DEF Balanced, Counting
  <1>9. Balanced(allocations', stacks', DueKey(t)', DueBytes(t)')
    BY <1>1, <1>2, <1>6, <1>8
  <1>10. Matched'
    BY <1>9 DEF Sequential, OneThread, Matched
  <1>11. Fresh' /\ HeldRecorded'
    BY <1>1 DEF Sequential, OneThread, OneInv, Fresh, HeldRecorded, Owned, AllocPath, FreePath
  <1>12. QED
    BY <1>10, <1>11 DEF OneInv

LEMMA OneLibrary ==
  ASSUME Sequential, TypeOK, TypeOK', Exclusion, LeakInv, Leaving, OneInv, NEW t \in Threads, Library(t)
  PROVE  OneInv'
  <1> USE DEF appVars, captureVars, dataVars
  <1>1. OneThread /\ cont[t] # "alloc_guard"
    BY DEF Sequential, LeakInv, Paths
  <1>2. MtraceInit /\ pc[t] \notin ExitPath => captureOn
    BY DEF Leaving, OneInv, HeldRecorded
  <1>3. CASE HookAlloc(t)
    <2>1. CASE captureOn /\ Goto(t, "alloc_guard") /\ UNCHANGED <<held, call, cont>>
      BY <1>1, <1>3, <2>1, OneMove DEF HookAlloc, At, Goto, AllocPath, FreePath, TypeOK
    <2>2. CASE ~captureOn /\ Resume(t)
      BY <1>1, <1>2, <1>3, <2>2, OneResume DEF HookAlloc, At, ExitPath
    <2>3. QED
      BY <1>3, <2>1, <2>2 DEF HookAlloc
  <1>4. CASE HookFree(t)
    <2>1. CASE captureOn /\ Goto(t, "free_guard") /\ UNCHANGED <<held, call, cont>>
      BY <1>1, <1>4, <2>1, OneMove DEF HookFree, At, Goto, AllocPath, FreePath, TypeOK
    <2>2. CASE ~captureOn /\ Resume(t)
      BY <1>1, <1>2, <1>4, <2>2, OneResume DEF HookFree, At, ExitPath
    <2>3. QED
      BY <1>4, <2>1, <2>2 DEF HookFree
  <1>5. CASE HookRealloc(t)
    BY <1>5 DEF HookRealloc, At, LeakInv, Paths
  <1>6. ASSUME NEW from, NEW to, NEW path \in {AllocPath, FreePath, {"report_guard", "report_lock"}},
               from \in path, to \in path, from \notin Tracing, Guard(t, from, to),
               to \notin {"alloc_record", "free_stack"}
        PROVE  OneInv'
    <2>1. ~inTrace[t]
      BY <1>6 DEF Guard, At, Exclusion
    <2>2. /\ pc[t] = from /\ pc'[t] = to
          /\ UNCHANGED <<held, proc, captureOn, allocations, stacks, call>>
      BY <1>6, <2>1 DEF Guard, At, Goto, TypeOK
    <2>3. from \notin {"alloc_record", "free_stack"}
      BY <1>6 DEF Tracing
    <2>4. QED
      BY <1>1, <1>6, <2>2, <2>3, OneMove DEF AllocPath, FreePath
  <1>7. CASE AllocGuard(t) \/ FreeGuard(t) \/ ReportGuard(t)
    BY <1>6, <1>7 DEF AllocGuard, FreeGuard, ReportGuard, AllocPath, FreePath, Tracing
  <1>8. CASE AllocLock(t) \/ FreeLock(t) \/ ReportLock(t)
    <2>1. UNCHANGED <<held, proc, captureOn, allocations, stacks, call>>
      BY <1>8 DEF AllocLock, FreeLock, ReportLock, Lock
    <2>2. \/ pc[t] = "alloc_lock" /\ pc'[t] = "alloc_stack"
          \/ pc[t] = "free_lock" /\ pc'[t] = "free_find"
          \/ pc[t] = "report_lock" /\ pc'[t] \in {"report_mark", "report_scan"}
      BY <1>8 DEF AllocLock, FreeLock, ReportLock, Lock, At, Goto, TypeOK
    <2>3. QED
      BY <1>1, <2>1, <2>2, OneMove DEF AllocPath, FreePath
  <1>9. CASE ReportScan(t)
    <2>1. UNCHANGED <<held, proc, captureOn, allocations, stacks, call>>
      BY <1>9 DEF ReportScan
    <2>2. pc[t] = "report_scan" /\ pc'[t] \in {"report_mark", "report_scan"}
      BY <1>9 DEF ReportScan, At, Goto, TypeOK
    <2>3. QED
      BY <1>1, <2>1, <2>2, OneMove DEF AllocPath, FreePath
  <1>10. CASE Unlock(t)
    <2>1. /\ pc[t] = "unlock" /\ Resume(t) /\ UNCHANGED <<allocations, stacks, proc, captureOn>>
      BY <1>10 DEF Unlock, At
    <2>2. MtraceInit => Owned(t) \subseteq DOMAIN allocations
      BY <2>1 DEF OneInv, HeldRecorded, AllocPath
    <2>3. QED
      BY <1>1, <2>1, <2>2, OneResume
  <1>11. CASE MtraceAtexit(t) \/ MtraceStore(t) \/ MtraceCheck(t)
    <2>1. UNCHANGED <<held, proc, captureOn, allocations, stacks, call>>
      BY <1>11 DEF MtraceAtexit, MtraceStore, MtraceCheck
    <2>2. /\ pc[t] \in {"mtrace", "mtrace_store", "mtrace_check"}
          /\ pc'[t] \in {"mtrace_check", "mtrace_store", "report_guard", "mtrace_set"}
      BY <1>11 DEF MtraceAtexit, MtraceStore, MtraceCheck, At, Goto, TypeOK
    <2>3. QED
      BY <1>1, <2>1, <2>2, OneMove DEF AllocPath, FreePath
  <1>12. CASE MtraceSet(t)
    <2>1. /\ pc[t] = "mtrace_set" /\ Resume(t) /\ captureOn' = TRUE /\ UNCHANGED <<allocations, stacks, proc>>
      BY <1>12 DEF MtraceSet, At
    <2>2. MtraceInit => Owned(t) \subseteq DOMAIN allocations
      BY <2>1 DEF OneInv, HeldRecorded, AllocPath
    <2>3. QED
      BY <1>1, <2>1, <2>2, OneResume
  <1>13. CASE ExitHandler(t) \/ ExitDone(t)
    <2>1. pc[t] = "exit" /\ proc' # "running"
      BY <1>13 DEF ExitHandler, ExitDone, Untrace, At, LeakInv, Paths
    <2>2. UNCHANGED <<held, allocations, stacks, call>>
      BY <1>13 DEF ExitHandler, ExitDone, Untrace
    <2>3. pc'[t] \in {"report_guard", "exited"}
      BY <1>13 DEF ExitHandler, ExitDone, Untrace, Goto, TypeOK
    <2>4. QED
      BY <1>1, <2>1, <2>2, <2>3, OneMove DEF AllocPath, FreePath
  <1>14. QED
    BY <1>3, <1>4, <1>5, <1>7, <1>8, <1>9, <1>10, <1>11, <1>12, <1>13,
       OneAllocStack, OneAllocRecord, OneFreeFind, OneFreeStack, OneReportMark DEF Library

LEMMA OneStep ==
  ASSUME Sequential, TypeOK, TypeOK', Exclusion, LeakInv, Leaving, OneInv, [Next]_vars
  PROVE  OneInv'
  <1>1. ASSUME NEW t \in Threads, Program(t) PROVE OneInv'
    BY <1>1, OneProgram
  <1>2. ASSUME NEW t \in Threads, Library(t) PROVE OneInv'
    BY <1>2, OneLibrary
  <1>3. CASE UNCHANGED <<held, proc, captureOn, allocations, stacks, pc, call>>
    BY <1>3 DEF OneInv, Fresh, Matched, HeldRecorded, DueKey, DueBytes, Owned
  <1>4. ASSUME NEW t \in Threads, NestedCall(t) \/ NestedHook(t) PROVE OneInv'
    BY <1>3, <1>4 DEF NestedCall, NestedHook, appVars, captureVars, dataVars
  <1>5. QED
    BY <1>1, <1>2, <1>3, <1>4 DEF Next, Finished, vars, appVars, captureVars, dataVars

\* The invariant of such a program.
LEMMA OneInvariance ==
  ASSUME Sequential
  PROVE  Spec => []OneInv /\ []LeakInv /\ []TypeOK
  <1>1. Init => LeakInv /\ Leaving /\ OneInv
    BY LeakInit, LeavingInit, OneInit
  <1>2. TypeOK /\ TypeOK' /\ Exclusion /\ LeakInv /\ Leaving /\ OneInv /\ [Next]_vars => LeakInv' /\ Leaving' /\ OneInv'
    BY LeakStep, LeavingStep, OneStep DEF Sequential
  <1>3. Spec => []TypeOK /\ []Exclusion
    BY TypeCorrect, MutualExclusion, PTL
  <1>4. QED
    BY <1>1, <1>2, <1>3, PTL DEF Spec

\* In the program's own code nothing is due.
LEMMA NothingDue ==
  ASSUME Matched, InApp, NEW t \in Threads
  PROVE  Balanced(allocations, stacks, NoKey, 0)
  BY DEF Matched, InApp, DueKey, DueBytes

\* How far a stack's bytes are from being those of its blocks: by the size of one
\* request, the first one's, which alloc() counts as a block and not in bytes.
\* The difference wraps around when that block was the larger one.
BytesMissFirst ==
  InApp => \A k \in DOMAIN stacks : \E first \in Sizes :
              stacks[k].num_bytes = Wrap(SumOf(k) - first)

\* In a program with one thread, whose calls succeed and which neither resizes
\* blocks nor calls muntrace(), the bytes that report() shows for a stack are
\* wrong by one request, and never by more, whatever was allocated and freed on
\* it before.
THEOREM StacksMissOneRequest ==
  ASSUME Sequential
  PROVE  Spec => []BytesMissFirst
  <1>1. OneInv /\ TypeOK => BytesMissFirst
    <2> SUFFICES ASSUME OneInv, TypeOK, InApp, NEW k \in DOMAIN stacks
                 PROVE  \E first \in Sizes : stacks[k].num_bytes = Wrap(SumOf(k) - first)
      BY DEF BytesMissFirst
    <2>1. PICK t \in Threads : TRUE
      BY DEF Sequential, OneThread
    <2>2. Balanced(allocations, stacks, NoKey, 0)
      BY <2>1, NothingDue DEF OneInv
    <2>3. SumIn(allocations, k) \in Int
      BY RecordedNow, RecordsType
    <2>4. SumIn(allocations, k) + More(k, NoKey, 0) = SumIn(allocations, k)
      BY <2>3 DEF More
    <2>5. Short(stacks[k].num_bytes, SumIn(allocations, k))
      BY <2>2, <2>4 DEF Balanced
    <2>6. SumOf(k) = SumIn(allocations, k)
      BY DEF SumOf, SumIn, RecordsOf, RecordsIn, SumFunction
    <2>7. QED
      BY <2>5, <2>6, Zenon DEF Short
  <1>2. QED
    BY <1>1, OneInvariance, PTL

\* In such a program, with capturing on from the start, every block the program
\* holds is recorded: no leak is missing from the reports.
THEOREM HeldBlocksAreRecorded ==
  ASSUME Sequential, MtraceInit
  PROVE  Spec => []HeldIsRecorded
  <1>1. OneInv => HeldIsRecorded
    BY DEF OneInv, HeldRecorded, HeldIsRecorded
  <1>2. QED
    BY <1>1, OneInvariance, PTL

-----------------------------------------------------------------------------
(***************************************************************************)
(* The tracker implements the ledger, whatever the number of threads: the  *)
(* lock's owner alone moves the maps, and each of its statements is one of *)
(* the ledger's steps (the record is stored or taken out, the report is    *)
(* marked) or changes nothing the ledger sees.                             *)
(***************************************************************************)

\* What the ledger's next entry may be asked for, and where a call of realloc()
\* that has still to record its block may be.
Asked(t) ==
  /\ pc[t] \in AllocPath \cup {"hook_realloc"} \/ cont[t] = "alloc_guard" =>
       call[t].size \in Sizes /\ call[t].key \in Keys
  /\ cont[t] = "alloc_guard" => pc[t] \in {"free_guard", "free_lock", "free_find", "free_stack", "unlock"}

LEMMA AskedProgram ==
  ASSUME TypeOK, NEW t \in Threads, Asked(t), Program(t) PROVE Asked(t)'
  <1>1. pc[t] = "app" /\ cont[t] # "alloc_guard"
    BY DEF Asked, Program, Malloc, Memalign, Mmap, Free, Munmap, Realloc, Mtrace, Muntrace, Exit, Calling, At
  <1>2. CASE Malloc(t) \/ Memalign(t) \/ Mmap(t)
    <2>0. PICK region, failure : LibcAlloc(t, region, failure)
      BY <1>2 DEF Malloc, Memalign, Mmap
    <2>1. PICK size \in Sizes, key \in Keys :
            (\E result : call' = [call EXCEPT ![t] = NewCall(result, result, result, size, key)]) /\ UNCHANGED cont
      BY <2>0 DEF LibcAlloc
    <2>2. call'[t].size = size /\ call'[t].key = key
      BY <2>1 DEF TypeOK, NewCall
    <2>3. QED
      BY <1>1, <2>1, <2>2 DEF Asked
  <1>3. CASE Realloc(t)
    <2>1. PICK size \in Sizes, key \in Keys :
            (\E ptr, result, owned : call' = [call EXCEPT ![t] = NewCall(ptr, result, owned, size, key)]) /\ UNCHANGED cont
      BY <1>3 DEF Realloc
    <2>2. call'[t].size = size /\ call'[t].key = key
      BY <2>1 DEF TypeOK, NewCall
    <2>3. QED
      BY <1>1, <2>1, <2>2 DEF Asked
  <1>4. CASE Free(t) \/ Munmap(t) \/ Mtrace(t) \/ Muntrace(t) \/ Exit(t)
    <2>1. pc'[t] \in {"hook_free", "mtrace", "report_guard", "exit"} /\ cont'[t] \in {cont[t], "exit"}
      BY <1>4 DEF Free, Munmap, LibcFree, Mtrace, Muntrace, Untrace, Exit, Goto, TypeOK
    <2>2. QED
      BY <1>1, <2>1 DEF Asked, AllocPath
  <1>5. QED
    BY <1>2, <1>3, <1>4 DEF Program

LEMMA AskedResume ==
  ASSUME TypeOK, NEW t \in Threads, Asked(t), Resume(t)
  PROVE  Asked(t)'
  <1>1. CASE cont[t] = "alloc_guard"
    <2>1. pc'[t] = "alloc_guard" /\ cont'[t] = "app" /\ call' = [call EXCEPT ![t].ptr = call[t].newptr]
      BY <1>1 DEF Resume, Goto, TypeOK
    <2>2. call[t] \in Call /\ call'[t] = [call[t] EXCEPT !.ptr = call[t].newptr]
      BY <2>1 DEF TypeOK
    <2>3. call'[t].size = call[t].size /\ call'[t].key = call[t].key
      BY <2>2 DEF Call
    <2>4. QED
      BY <1>1, <2>1, <2>3 DEF Asked
  <1>2. CASE cont[t] # "alloc_guard"
    <2>1. pc'[t] \in {"exit", "app"} /\ cont'[t] = cont[t]
      BY <1>2 DEF Resume, Goto, TypeOK
    <2>2. QED
      BY <1>2, <2>1 DEF Asked, AllocPath
  <1>3. QED
    BY <1>1, <1>2

LEMMA AskedLibrary ==
  ASSUME TypeOK, NEW t \in Threads, Asked(t), Library(t) PROVE Asked(t)'
  <1> USE DEF appVars, captureVars, dataVars
  <1>1. CASE HookAlloc(t) \/ HookFree(t) \/ MtraceSet(t) \/ Unlock(t)
    <2>1. CASE Resume(t)
      BY <2>1, AskedResume
    <2>2. CASE ~Resume(t)
      <3>1. pc[t] \in {"hook_alloc", "hook_free"} /\ UNCHANGED <<cont, call>>
            /\ pc'[t] = (IF pc[t] = "hook_alloc" THEN "alloc_guard" ELSE "free_guard")
        BY <1>1, <2>2 DEF HookAlloc, HookFree, MtraceSet, Unlock, At, Goto, TypeOK
      <3>2. QED
        BY <3>1 DEF Asked, AllocPath
    <2>3. QED
      BY <2>1, <2>2
  <1>2. CASE HookRealloc(t)
    <2>1. CASE Resume(t)
      BY <2>1, AskedResume
    <2>2. CASE ~Resume(t)
      <3>1. PICK ptr, newptr : call'[t] = [[call[t] EXCEPT !.ptr = ptr] EXCEPT !.newptr = newptr]
        <4>1. CASE TrackerRealloc(t, call[t].ptr, call[t].result)
          BY <4>1 DEF TrackerRealloc, TypeOK
        <4>2. CASE call' = [call EXCEPT ![t].ptr = call[t].result]
          <5>1. call'[t] = [call[t] EXCEPT !.ptr = call[t].result] /\ call[t] \in Call
            BY <4>2 DEF TypeOK
          <5>2. call'[t] = [[call[t] EXCEPT !.ptr = call[t].result] EXCEPT !.newptr = call[t].newptr]
            BY <5>1 DEF Call
          <5>3. QED
            BY <5>2
        <4>3. QED
          BY <1>2, <2>2, <4>1, <4>2 DEF HookRealloc
      <3>2. call'[t].size = call[t].size /\ call'[t].key = call[t].key
        BY <3>1 DEF TypeOK, Call
      <3>3. /\ pc[t] = "hook_realloc"
            /\ (pc'[t] = "free_guard" /\ cont'[t] = "alloc_guard") \/ (pc'[t] = "alloc_guard" /\ cont'[t] = cont[t])
        BY <1>2, <2>2 DEF HookRealloc, TrackerRealloc, At, Goto, TypeOK
      <3>4. QED
        BY <3>2, <3>3 DEF Asked
    <2>3. QED
      BY <2>1, <2>2
  <1>3. CASE AllocGuard(t) \/ FreeGuard(t) \/ ReportGuard(t)
    <2>1. CASE Resume(t)
      BY <2>1, AskedResume
    <2>2. CASE ~Resume(t)
      <3>1. UNCHANGED <<cont, call>> /\ <<pc[t], pc'[t]>> \in {<<"alloc_guard", "alloc_lock">>,
              <<"free_guard", "free_lock">>, <<"report_guard", "report_lock">>}
        BY <1>3, <2>2 DEF AllocGuard, FreeGuard, ReportGuard, Guard, At, Goto, TypeOK
      <3>2. QED
        BY <3>1 DEF Asked, AllocPath
    <2>3. QED
      BY <2>1, <2>2
  <1>4. CASE \/ AllocLock(t) \/ FreeLock(t) \/ ReportLock(t) \/ AllocStack(t) \/ AllocRecord(t) \/ FreeStack(t)
             \/ ReportScan(t) \/ ReportMark(t)
    <2>1. UNCHANGED <<cont, call>> /\ <<pc[t], pc'[t]>> \in {<<"alloc_lock", "alloc_stack">>,
            <<"free_lock", "free_find">>, <<"report_lock", "report_scan">>, <<"report_lock", "report_mark">>,
            <<"alloc_stack", "alloc_record">>, <<"alloc_record", "unlock">>, <<"free_stack", "unlock">>,
            <<"report_scan", "report_scan">>, <<"report_scan", "report_mark">>, <<"report_mark", "unlock">>}
      BY <1>4 DEF AllocLock, FreeLock, ReportLock, Lock, AllocStack, AllocRecord, FreeStack, ReportScan, ReportMark,
                  At, Goto, TypeOK
    <2>2. QED
      BY <2>1 DEF Asked, AllocPath
  <1>5. CASE FreeFind(t)
    <2>1. pc[t] = "free_find" /\ pc'[t] \in {"unlock", "free_stack"} /\ cont' = cont
      BY <1>5 DEF FreeFind, At, Goto, TypeOK
    <2>2. call'[t].size = call[t].size /\ call'[t].key = call[t].key
      <3>1. CASE call' = call
        BY <3>1
      <3>2. CASE call' # call
        <4>1. PICK k, n : k = allocations[call[t].ptr].key /\ n = allocations[call[t].ptr].num_bytes
          OBVIOUS
        <4>2. call' = [call EXCEPT ![t].fkey = k, ![t].nfree = n]
          BY <1>5, <3>2, <4>1 DEF FreeFind
        <4>3. call'[t] = [[call[t] EXCEPT !.fkey = k] EXCEPT !.nfree = n]
          BY <4>2 DEF TypeOK
        <4>4. QED
          BY <4>3 DEF TypeOK, Call
      <3>3. QED
        BY <3>1, <3>2
    <2>3. QED
      BY <2>1, <2>2 DEF Asked, AllocPath
  <1>6. CASE MtraceAtexit(t) \/ MtraceStore(t) \/ MtraceCheck(t) \/ ExitHandler(t) \/ ExitDone(t)
    <2>1. /\ UNCHANGED <<cont, call>>
          /\ pc[t] \in {"mtrace", "mtrace_store", "mtrace_check", "exit"}
          /\ pc'[t] \in {"mtrace_check", "mtrace_store", "report_guard", "mtrace_set", "exited"}
      BY <1>6 DEF MtraceAtexit, MtraceStore, MtraceCheck, ExitHandler, ExitDone, Untrace, At, Goto, TypeOK
    <2>2. QED
      BY <2>1 DEF Asked, AllocPath
  <1>7. QED
    BY <1>1, <1>2, <1>3, <1>4, <1>5, <1>6 DEF Library

\* A thread's steps leave the others where they are.
LEMMA OthersStay ==
  ASSUME TypeOK, NEW t \in Threads, Program(t) \/ Library(t), NEW u \in Threads \ {t}
  PROVE  pc'[u] = pc[u] /\ cont'[u] = cont[u] /\ call'[u] = call[u] /\ scan'[u] = scan[u]
  <1> USE DEF appVars, captureVars, dataVars
  <1>1. ASSUME Resume(t) PROVE pc'[u] = pc[u] /\ cont'[u] = cont[u] /\ call'[u] = call[u]
    BY <1>1 DEF Resume, Goto, TypeOK
  <1>2. CASE Program(t)
    BY <1>2 DEF Program, Malloc, Memalign, Mmap, LibcAlloc, Free, Munmap, LibcFree, Realloc,
                  Mtrace, Muntrace, Untrace, Exit, Goto, TypeOK
  <1>3. CASE HookAlloc(t) \/ HookFree(t) \/ HookRealloc(t) \/ AllocGuard(t) \/ FreeGuard(t) \/ ReportGuard(t)
    BY <1>1, <1>3 DEF HookAlloc, HookFree, HookRealloc, TrackerRealloc, AllocGuard, FreeGuard, ReportGuard, Guard,
                      Goto, TypeOK
  <1>4. CASE \/ AllocLock(t) \/ FreeLock(t) \/ ReportLock(t) \/ AllocStack(t) \/ AllocRecord(t) \/ FreeStack(t)
             \/ ReportScan(t) \/ ReportMark(t) \/ FreeFind(t)
    BY <1>4 DEF AllocLock, FreeLock, ReportLock, Lock, AllocStack, AllocRecord, FreeStack, ReportScan, ReportMark,
                  FreeFind, Goto, TypeOK
  <1>5. CASE \/ Unlock(t) \/ MtraceAtexit(t) \/ MtraceStore(t) \/ MtraceCheck(t) \/ MtraceSet(t)
             \/ ExitHandler(t) \/ ExitDone(t)
    BY <1>1, <1>5 DEF Unlock, MtraceAtexit, MtraceStore, MtraceCheck, MtraceSet, ExitHandler, ExitDone, Untrace,
                  Goto, TypeOK
  <1>6. QED
    BY <1>2, <1>3, <1>4, <1>5 DEF Library

LEMMA AskedStep ==
  ASSUME TypeOK, \A t \in Threads : Asked(t), [Next]_vars
  PROVE  \A t \in Threads : Asked(t)'
  <1>1. ASSUME NEW t \in Threads, Program(t) \/ Library(t) PROVE \A u \in Threads : Asked(u)'
    <2>1. Asked(t)'
      BY <1>1, AskedProgram, AskedLibrary
    <2>2. ASSUME NEW u \in Threads \ {t} PROVE Asked(u)'
      BY <1>1, OthersStay DEF Asked
    <2>3. QED
      BY <2>1, <2>2
  <1>2. ASSUME UNCHANGED <<pc, cont, call>> PROVE \A u \in Threads : Asked(u)'
    BY <1>2 DEF Asked
  <1>3. QED
    BY <1>1, <1>2 DEF Next, Finished, NestedCall, NestedHook, vars

\* No entry is empty, and one that counts only the block being recorded is as
\* its constructor left it.
Positive == \A k \in DOMAIN stacks : stacks[k].num_allocs >= 1

Newest ==
  \A t \in Threads : pc[t] = "alloc_record" =>
    /\ call[t].key \in DOMAIN stacks
    /\ stacks[call[t].key].num_allocs = 1 => stacks[call[t].key] = NewStack

LedgerInv == Positive /\ Newest /\ Summed

\* A stack's entry with a block of that size less.
Less(s, k, size) == IF s[k].num_allocs = 1 THEN Drop(s, k) ELSE [s EXCEPT ![k] = Uncounted(@, size)]

Owing(t) == pc[t] \in {"alloc_record", "free_stack"}

LEMMA TotalsPlain ==
  ASSUME lock = NoThread \/ ~Owing(lock) PROVE Totals = stacks
  BY DEF Owing, Totals

LEMMA TotalsRecord ==
  ASSUME lock # NoThread, pc[lock] = "alloc_record"
  PROVE  Totals = Less(stacks, call[lock].key, call[lock].size)
  BY DEF Totals, Less

LEMMA TotalsFree ==
  ASSUME lock # NoThread, pc[lock] = "free_stack"
  PROVE  Totals = Less(stacks, call[lock].fkey, call[lock].nfree)
  BY DEF Totals, Less

\* The step that the ledger sees.
Stays == UNCHANGED <<allocations, Totals, stats.total_bytes>>
Sim   == LedgerInv' /\ (Ledger!Next \/ Stays)

\* A thread moves where it owes nothing.
LEMMA MoveSim ==
  ASSUME LedgerInv, TypeOK, NEW t \in Threads, UNCHANGED <<allocations, stacks, stats>>,
         \A u \in Threads \ {t} : pc'[u] = pc[u] /\ call'[u] = call[u] /\ scan'[u] = scan[u],
         ~Owing(t), pc'[t] \notin {"alloc_record", "free_stack", "report_scan", "report_mark"},
         lock' = lock \/ {lock, lock'} \subseteq {t, NoThread}
  PROVE  Sim
  <1>1. Positive' /\ Newest' /\ Summed'
    BY DEF LedgerInv, Positive, Newest, Summed
  <1>2. Totals' = Totals
    <2>1. CASE lock = NoThread \/ lock = t
      <3>1. Totals = stacks
        BY <2>1, TotalsPlain
      <3>2. lock' = NoThread \/ ~(pc'[lock'] \in {"alloc_record", "free_stack"})
        BY <2>1
      <3>3. Totals' = stacks'
        BY <3>2 DEF Totals
      <3>4. QED
        BY <3>1, <3>3
    <2>2. CASE lock # NoThread /\ lock # t
      <3>1. lock \in Threads \ {t} /\ lock' = lock
        BY <2>2 DEF TypeOK
      <3>2. pc'[lock'] = pc[lock] /\ call'[lock'] = call[lock]
        BY <3>1
      <3>3. QED
        BY <3>1, <3>2 DEF Totals
    <2>3. QED
      BY <2>1, <2>2
  <1>3. QED
    BY <1>1, <1>2 DEF Sim, Stays, LedgerInv

LEMMA SameSim ==
  ASSUME LedgerInv, UNCHANGED <<allocations, stacks, stats, lock, pc, call, scan>> PROVE Sim
  BY DEF LedgerInv, Positive, Newest, Summed, Sim, Stays, Totals

\* The owner of the lock is alone.
LEMMA Alone ==
  ASSUME Exclusion, NEW t \in Threads, pc[t] \in Locked
  PROVE  lock = t /\ t # NoThread /\ \A u \in Threads \ {t} : pc[u] \notin Locked
  BY ConstantsAssumption DEF Exclusion

LEMMA ReportLockSim ==
  ASSUME TypeOK, Exclusion, LedgerInv, NEW t \in Threads, ReportLock(t) PROVE Sim
  <1>1. /\ UNCHANGED <<allocations, stacks, stats, call>> /\ lock = NoThread /\ lock' = t
        /\ pc'[t] = IF DOMAIN stacks = {} THEN "report_mark" ELSE "report_scan"
        /\ scan'[t] = [NoScan EXCEPT !.todo = DOMAIN stacks]
        /\ \A u \in Threads \ {t} : pc'[u] = pc[u] /\ scan'[u] = scan[u]
    BY DEF ReportLock, Lock, Goto, TypeOK
  <1>2. scan'[t].todo = DOMAIN stacks /\ scan'[t].total = 0
    BY <1>1 DEF NoScan
  <1>3. Wrap(BytesOf(stacks, {})) = 0
    BY WrapZero, SumOfEmpty DEF BytesOf
  <1>4. DOMAIN stacks \ DOMAIN stacks = {}
    OBVIOUS
  <1>5. Summed'
    <2>1. ASSUME pc'[t] = "report_mark" PROVE scan'[t].total = Wrap(BytesOf(stacks, DOMAIN stacks))
      BY <1>1, <1>2, <1>3, <2>1
    <2>2. scan'[t].total = Wrap(BytesOf(stacks, DOMAIN stacks \ scan'[t].todo))
      BY <1>2, <1>3, <1>4
    <2>3. QED
      BY <1>1, <2>1, <2>2 DEF LedgerInv, Summed
  <1>6. Positive' /\ Newest'
    BY <1>1 DEF LedgerInv, Positive, Newest
  <1>7. Totals = stacks
    BY <1>1, TotalsPlain
  <1>8. Totals' = stacks'
    BY <1>1 DEF Totals
  <1>9. QED
    BY <1>1, <1>5, <1>6, <1>7, <1>8 DEF Sim, Stays, LedgerInv

\* Bytes added and taken off, in either order.
LEMMA SmallMod ==
  ASSUME NEW w \in Nat \ {0}, NEW r \in 0 .. w - 1 PROVE r % w = r
  OBVIOUS

LEMMA WrapBack ==
  ASSUME NEW b \in Bytes, NEW n \in Int
  PROVE  Wrap(Wrap(b + n) - n) = b /\ Wrap(Wrap(b - n) + n) = b
  <1>1. b \in Int /\ Wrap(b) = b
    BY ConstantsAssumption, SmallMod DEF Bytes, Wrap
  <1>2. b + n \in Int /\ b - n \in Int /\ -n \in Int
    BY <1>1
  <1>3. Wrap(Wrap(b + n) + (-n)) = Wrap((b + n) + (-n)) /\ Wrap(Wrap(b - n) + n) = Wrap((b - n) + n)
    BY <1>2, WrapAdd
  <1>4. (b + n) + (-n) = b /\ (b - n) + n = b /\ Wrap(Wrap(b + n) + (-n)) = Wrap(Wrap(b + n) - n)
    <2>1. Wrap(b + n) \in Int
      BY <1>2, WrapType, ConstantsAssumption DEF Bytes
    <2>2. Wrap(b + n) + (-n) = Wrap(b + n) - n
      BY <2>1
    <2>3. QED
      BY <1>1, <2>2
  <1>5. QED
    BY <1>1, <1>3, <1>4

LEMMA EntryExcept ==
  ASSUME NEW b, NEW c, NEW p, NEW x, NEW y, NEW s,
         s = [num_bytes |-> b, num_allocs |-> c, prev_num_bytes |-> p]
  PROVE  [s EXCEPT !.num_allocs = x, !.num_bytes = y] = [num_bytes |-> y, num_allocs |-> x, prev_num_bytes |-> p]
  <1>1. PICK r : r = [s EXCEPT !.num_allocs = x]
    OBVIOUS
  <1>2. r = [num_bytes |-> b, num_allocs |-> x, prev_num_bytes |-> p]
    BY <1>1
  <1>3. [r EXCEPT !.num_bytes = y] = [num_bytes |-> y, num_allocs |-> x, prev_num_bytes |-> p]
    BY <1>2
  <1>4. [s EXCEPT !.num_allocs = x, !.num_bytes = y] = [r EXCEPT !.num_bytes = y]
    BY <1>1
  <1>5. QED
    BY <1>3, <1>4

LEMMA EntryCounted ==
  ASSUME NEW s, NEW n, NEW b, NEW c, NEW p, s = [num_bytes |-> b, num_allocs |-> c, prev_num_bytes |-> p]
  PROVE  /\ Counted(s, n) = [num_bytes |-> Wrap(b + n), num_allocs |-> c + 1, prev_num_bytes |-> p]
         /\ Uncounted(s, n) = [num_bytes |-> Wrap(b - n), num_allocs |-> c - 1, prev_num_bytes |-> p]
  <1>1. s.num_bytes = b /\ s.num_allocs = c
    OBVIOUS
  <1>2. Counted(s, n) = [num_bytes |-> Wrap(b + n), num_allocs |-> c + 1, prev_num_bytes |-> p]
    <2>1. PICK x, y : x = s.num_allocs + 1 /\ y = Wrap(s.num_bytes + n)
      OBVIOUS
    <2>2. Counted(s, n) = [s EXCEPT !.num_allocs = x, !.num_bytes = y]
      BY <2>1 DEF Counted
    <2>3. QED
      BY <1>1, <2>1, <2>2, EntryExcept
  <1>3. Uncounted(s, n) = [num_bytes |-> Wrap(b - n), num_allocs |-> c - 1, prev_num_bytes |-> p]
    <2>1. PICK x, y : x = s.num_allocs - 1 /\ y = Wrap(s.num_bytes - n)
      OBVIOUS
    <2>2. Uncounted(s, n) = [s EXCEPT !.num_allocs = x, !.num_bytes = y]
      BY <2>1 DEF Uncounted
    <2>3. QED
      BY <1>1, <2>1, <2>2, EntryExcept
  <1>4. QED
    BY <1>2, <1>3

LEMMA CountBack ==
  ASSUME NEW s \in Stack, NEW n \in Int
  PROVE  /\ Uncounted(Counted(s, n), n) = s /\ Counted(Uncounted(s, n), n) = s
         /\ Counted(s, n).num_allocs = s.num_allocs + 1 /\ Uncounted(s, n).num_allocs = s.num_allocs - 1
  <1>1. PICK b, c, p : b = s.num_bytes /\ c = s.num_allocs /\ p = s.prev_num_bytes
    OBVIOUS
  <1>2. b \in Bytes /\ c \in Int /\ p \in Bytes /\ s = [num_bytes |-> b, num_allocs |-> c, prev_num_bytes |-> p]
    BY <1>1 DEF Stack
  <1>3. PICK up, down : up = Wrap(b + n) /\ down = Wrap(b - n)
    OBVIOUS
  <1>4. PICK more, less : more = Counted(s, n) /\ less = Uncounted(s, n)
    OBVIOUS
  <1>5. /\ more = [num_bytes |-> up, num_allocs |-> c + 1, prev_num_bytes |-> p]
        /\ less = [num_bytes |-> down, num_allocs |-> c - 1, prev_num_bytes |-> p]
    BY <1>2, <1>3, <1>4, EntryCounted
  <1>6. Wrap(up - n) = b /\ Wrap(down + n) = b
    BY <1>2, <1>3, WrapBack
  <1>7. (c + 1) - 1 = c /\ (c - 1) + 1 = c
    BY <1>2
  <1>8. Uncounted(more, n) = [num_bytes |-> Wrap(up - n), num_allocs |-> (c + 1) - 1, prev_num_bytes |-> p]
    BY <1>5, EntryCounted
  <1>9. Counted(less, n) = [num_bytes |-> Wrap(down + n), num_allocs |-> (c - 1) + 1, prev_num_bytes |-> p]
    BY <1>5, EntryCounted
  <1>10. Uncounted(more, n) = s /\ Counted(less, n) = s
    BY <1>2, <1>6, <1>7, <1>8, <1>9, Zenon
  <1>11. more.num_allocs = c + 1 /\ less.num_allocs = c - 1
    BY <1>5
  <1>12. QED
    BY <1>1, <1>4, <1>10, <1>11

\* The owner's steps: what another thread may rely on stays.
LEMMA OwnerSteps ==
  ASSUME Exclusion, LedgerInv, NEW t \in Threads, pc[t] \in Locked,
         \A u \in Threads \ {t} : pc'[u] = pc[u],
         Positive',
         pc'[t] = "alloc_record" =>
           /\ call'[t].key \in DOMAIN stacks'
           /\ stacks'[call'[t].key].num_allocs = 1 => stacks'[call'[t].key] = NewStack,
         pc'[t] = "report_scan" => scan'[t].total = Wrap(BytesOf(stacks', DOMAIN stacks' \ scan'[t].todo)),
         pc'[t] = "report_mark" => scan'[t].total = Wrap(BytesOf(stacks', DOMAIN stacks'))
  PROVE  LedgerInv'
  <1>1. \A u \in Threads \ {t} : pc'[u] \notin Locked
    BY Alone
  <1>2. \A u \in Threads \ {t} : pc'[u] \notin {"alloc_record", "report_scan", "report_mark"}
    BY <1>1 DEF Locked
  <1>3. Newest' /\ Summed'
    BY <1>2 DEF Newest, Summed
  <1>4. QED
    BY <1>3 DEF LedgerInv

\* alloc() counts the block: the ledger does not see it yet.
LEMMA AllocStackSim ==
  ASSUME TypeOK, Exclusion, LedgerInv, NEW t \in Threads, AllocStack(t) PROVE Sim
  <1>1. PICK key, size : key = call[t].key /\ size = call[t].size
    OBVIOUS
  <1>2. /\ UNCHANGED <<allocations, stats, call, lock>> /\ pc[t] = "alloc_stack" /\ pc'[t] = "alloc_record"
        /\ \A u \in Threads \ {t} : pc'[u] = pc[u]
        /\ stacks' = IF key \notin DOMAIN stacks THEN Put(stacks, key, NewStack)
                     ELSE [stacks EXCEPT ![key] = Counted(@, size)]
    BY <1>1 DEF AllocStack, At, Goto, TypeOK
  <1>3. pc[t] \in Locked /\ lock = t /\ t # NoThread /\ size \in Int
    <2>1. pc[t] \in Locked
      BY <1>2 DEF Locked
    <2>2. size \in Int
      BY <1>1, ConstantsAssumption DEF TypeOK, Call, Bytes
    <2>3. QED
      BY <2>1, <2>2, Alone
  <1>4. Totals = stacks
    BY <1>2, <1>3, TotalsPlain DEF Owing
  <1>5. Totals' = Less(stacks', key, size)
    BY <1>1, <1>2, <1>3 DEF Totals, Less
  <1>6. CASE key \notin DOMAIN stacks
    <2>1. stacks' = Put(stacks, key, NewStack)
      BY <1>2, <1>6
    <2>2. DOMAIN stacks' = DOMAIN stacks \cup {key} /\ stacks'[key] = NewStack /\ \A k \in DOMAIN stacks : stacks'[k] = stacks[k]
      BY <1>6, <2>1 DEF Put
    <2>3. NewStack.num_allocs = 1
      BY DEF NewStack
    <2>4. Less(stacks', key, size) = stacks
      <3>1. Less(stacks', key, size) = Restrict(stacks', DOMAIN stacks)
        BY <1>6, <2>2, <2>3 DEF Less, Drop
      <3>2. QED
        BY <2>2, <3>1 DEF Restrict, TypeOK
    <2>5. Positive'
      BY <2>2, <2>3 DEF LedgerInv, Positive
    <2>6. LedgerInv'
      BY <1>1, <1>2, <1>3, <2>2, <2>5, OwnerSteps
    <2>7. QED
      BY <1>2, <1>4, <1>5, <2>4, <2>6 DEF Sim, Stays
  <1>7. CASE key \in DOMAIN stacks
    <2>1. stacks' = [stacks EXCEPT ![key] = Counted(stacks[key], size)] /\ stacks[key] \in Stack
      BY <1>2, <1>7 DEF TypeOK
    <2>2. PICK more : more = Counted(stacks[key], size)
      OBVIOUS
    <2>3. more.num_allocs = stacks[key].num_allocs + 1 /\ Uncounted(more, size) = stacks[key]
      BY <1>3, <2>1, <2>2, CountBack
    <2>4. stacks[key].num_allocs \in Int /\ stacks[key].num_allocs >= 1
      BY <1>7, <2>1 DEF LedgerInv, Positive, Stack
    <2>5. more.num_allocs # 1 /\ more.num_allocs >= 1
      BY <2>3, <2>4
    <2>6. DOMAIN stacks' = DOMAIN stacks /\ stacks'[key] = more /\ \A k \in DOMAIN stacks \ {key} : stacks'[k] = stacks[k]
      BY <1>7, <2>1, <2>2
    <2>7. Less(stacks', key, size) = stacks
      <3>1. Less(stacks', key, size) = [stacks' EXCEPT ![key] = Uncounted(more, size)]
        BY <2>5, <2>6 DEF Less
      <3>2. Less(stacks', key, size) = [stacks' EXCEPT ![key] = stacks[key]]
        BY <2>3, <3>1
      <3>3. QED
        BY <1>7, <2>1, <2>6, <3>2 DEF TypeOK
    <2>8. Positive'
      BY <2>5, <2>6 DEF LedgerInv, Positive
    <2>9. LedgerInv'
      BY <1>1, <1>2, <1>3, <1>7, <2>5, <2>6, <2>8, OwnerSteps
    <2>10. QED
      BY <1>2, <1>4, <1>5, <2>7, <2>9 DEF Sim, Stays
  <1>8. QED
    BY <1>6, <1>7

\* alloc() stores the record: the ledger's entry is made.
LEMMA AllocRecordSim ==
  ASSUME TypeOK, Exclusion, LedgerInv, NEW t \in Threads, Asked(t), AllocRecord(t) PROVE Sim
  <1>1. PICK key, size, ptr : key = call[t].key /\ size = call[t].size /\ ptr = call[t].ptr
    OBVIOUS
  <1>2. /\ UNCHANGED <<stacks, call, lock>> /\ pc[t] = "alloc_record" /\ pc'[t] = "unlock"
        /\ \A u \in Threads \ {t} : pc'[u] = pc[u]
        /\ allocations' = Put(allocations, ptr, [num_bytes |-> size, key |-> key])
    BY <1>1 DEF AllocRecord, At, Goto, TypeOK
  <1>3. stats'.total_bytes = stats.total_bytes
    BY DEF AllocRecord, TypeOK, Stats
  <1>4. pc[t] \in Locked /\ lock = t /\ t # NoThread
    BY <1>2, Alone DEF Locked
  <1>5. size \in Sizes /\ key \in Keys /\ ptr \in Ptrs /\ size \in Int
    BY <1>1, <1>2, ConstantsAssumption DEF Asked, AllocPath, TypeOK, Call, Bytes
  <1>6. key \in DOMAIN stacks /\ (stacks[key].num_allocs = 1 => stacks[key] = NewStack) /\ stacks[key] \in Stack
    BY <1>1, <1>2 DEF LedgerInv, Newest, TypeOK
  <1>7. PICK before : before = Totals /\ before = Less(stacks, key, size)
    BY <1>1, <1>2, <1>4, TotalsRecord
  <1>8. Totals' = stacks
    BY <1>2, <1>4 DEF Totals
  <1>9. LedgerInv'
    <2>1. Positive'
      BY <1>2 DEF LedgerInv, Positive
    <2>2. QED
      BY <1>2, <1>4, <2>1, OwnerSteps
  <1>10. Ledger!With(key, size) = stacks
    <2>1. CASE stacks[key].num_allocs = 1
      <3>1. before = Restrict(stacks, DOMAIN stacks \ {key})
        BY <1>7, <2>1 DEF Less, Drop
      <3>2. DOMAIN before = DOMAIN stacks \ {key} /\ \A k \in DOMAIN stacks \ {key} : before[k] = stacks[k]
        BY <3>1 DEF Restrict
      <3>3. Ledger!With(key, size) =
              [s \in DOMAIN before \cup {key} |-> IF s # key THEN before[s] ELSE NewStack]
        BY <1>7, <3>2 DEF Ledger!With, NewStack
      <3>4. DOMAIN before \cup {key} = DOMAIN stacks
        BY <1>6, <3>2
      <3>5. \A s \in DOMAIN stacks : (IF s # key THEN before[s] ELSE NewStack) = stacks[s]
        BY <1>6, <2>1, <3>2
      <3>6. QED
        BY <3>3, <3>4, <3>5 DEF TypeOK
    <2>2. CASE stacks[key].num_allocs # 1
      <3>1. PICK less : less = Uncounted(stacks[key], size)
        OBVIOUS
      <3>2. before = [stacks EXCEPT ![key] = less]
        BY <1>7, <2>2, <3>1 DEF Less
      <3>3. DOMAIN before = DOMAIN stacks /\ before[key] = less /\ \A k \in DOMAIN stacks \ {key} : before[k] = stacks[k]
        BY <1>6, <3>2
      <3>4. Counted(less, size) = stacks[key]
        BY <1>5, <1>6, <3>1, CountBack
      <3>5. Ledger!With(key, size) =
              [s \in DOMAIN before \cup {key} |-> IF s # key THEN before[s] ELSE Counted(less, size)]
        BY <1>6, <1>7, <3>3 DEF Ledger!With, Counted, Wrap
      <3>6. DOMAIN before \cup {key} = DOMAIN stacks
        BY <1>6, <3>3
      <3>7. \A s \in DOMAIN stacks : (IF s # key THEN before[s] ELSE Counted(less, size)) = stacks[s]
        BY <3>3, <3>4
      <3>8. QED
        BY <3>5, <3>6, <3>7 DEF TypeOK
    <2>3. QED
      BY <2>1, <2>2
  <1>11. Ledger!Enter(ptr, size, key)
    BY <1>2, <1>3, <1>8, <1>10 DEF Ledger!Enter, Put
  <1>12. QED
    BY <1>5, <1>9, <1>11 DEF Sim, Ledger!Next

\* A recorded block's stack is there, and a block taken off it is the ledger's.
LEMMA RecordHasStack ==
  ASSUME TypeOK, StacksCover, NEW ptr \in DOMAIN allocations, allocations[ptr].key # NoKey
  PROVE  allocations[ptr].key \in DOMAIN stacks
  <1>1. PICK k \in AllKeys : k = allocations[ptr].key
    BY DEF TypeOK, Record
  <1>2. ptr \in RecordsOf(k)
    BY <1>1 DEF RecordsOf
  <1>3. IsFiniteSet(RecordsOf(k)) /\ Cardinality(RecordsOf(k)) \in Nat /\ Pending(k) \in {0, 1} /\ CountOf(k) \in Int
    BY CoverTypes
  <1>4. Cardinality(RecordsOf(k)) # 0
    BY <1>2, <1>3, FS_EmptySet
  <1>5. Cardinality(RecordsOf(k)) + Pending(k) <= CountOf(k)
    BY DEF StacksCover
  <1>6. CountOf(k) # 0
    BY <1>3, <1>4, <1>5
  <1>7. QED
    BY <1>1, <1>6 DEF CountOf

LEMMA LessIsWithout ==
  ASSUME NEW k \in DOMAIN stacks, TypeOK, NEW n \in Int, k # NoKey, Totals = stacks
  PROVE  Ledger!Without(k, n) = Less(stacks, k, n)
  <1>1. CASE stacks[k].num_allocs = 1
    BY <1>1 DEF Ledger!Without, Ledger!Restrict, Less, Drop, Restrict
  <1>2. CASE stacks[k].num_allocs # 1
    <2>1. PICK x, y : x = stacks[k].num_allocs - 1 /\ y = Wrap(stacks[k].num_bytes - n)
      OBVIOUS
    <2>2. PICK r, s : r = [stacks[k] EXCEPT !.num_allocs = x] /\ s = [stacks[k] EXCEPT !.num_allocs = x, !.num_bytes = y]
      OBVIOUS
    <2>3. s = Uncounted(stacks[k], n) /\ s = [r EXCEPT !.num_bytes = y] /\ r.num_bytes = stacks[k].num_bytes
      BY <2>1, <2>2 DEF Uncounted, TypeOK, Stack
    <2>4. Less(stacks, k, n) = [stacks EXCEPT ![k] = s]
      BY <1>2, <2>3 DEF Less
    <2>5. PICK f : f = [stacks EXCEPT ![k].num_allocs = stacks[k].num_allocs - 1]
      OBVIOUS
    <2>6. f = [stacks EXCEPT ![k] = r] /\ f[k] = r
      BY <2>1, <2>2, <2>5 DEF TypeOK
    <2>7. Ledger!Without(k, n) = [f EXCEPT ![k].num_bytes = (f[k].num_bytes - n) % WordSize]
      BY <1>2, <2>5 DEF Ledger!Without
    <2>8. (f[k].num_bytes - n) % WordSize = y
      BY <2>1, <2>3, <2>6 DEF Wrap
    <2>9. Ledger!Without(k, n) = [f EXCEPT ![k] = [r EXCEPT !.num_bytes = y]]
      BY <2>6, <2>7, <2>8
    <2>10. [f EXCEPT ![k] = s] = [stacks EXCEPT ![k] = s]
      BY <2>6 DEF TypeOK
    <2>11. QED
      BY <2>3, <2>4, <2>9, <2>10
  <1>3. QED
    BY <1>1, <1>2

\* free() takes the record out: the ledger's entry leaves, its stack with it.
LEMMA FreeFindSim ==
  ASSUME TypeOK, Exclusion, StacksCover, LedgerInv, NEW t \in Threads, FreeFind(t) PROVE Sim
  <1>1. /\ pc[t] = "free_find" /\ UNCHANGED <<stacks, stats, lock, scan>>
        /\ \A u \in Threads \ {t} : pc'[u] = pc[u] /\ call'[u] = call[u]
    BY DEF FreeFind, At, Goto, TypeOK
  <1>2. pc[t] \in Locked /\ lock = t /\ t # NoThread /\ ~Owing(t)
    BY <1>1, Alone DEF Locked, Owing
  <1>3. Totals = stacks
    BY <1>2, TotalsPlain
  <1>4. CASE call[t].ptr \notin DOMAIN allocations
    <2>1. pc'[t] = "unlock" /\ UNCHANGED allocations
      BY <1>4 DEF FreeFind, Goto, TypeOK
    <2>2. QED
      BY <1>1, <1>2, <2>1, MoveSim
  <1>5. CASE call[t].ptr \in DOMAIN allocations
    <2>1. PICK ptr \in DOMAIN allocations, k \in AllKeys, n \in Bytes :
             ptr = call[t].ptr /\ k = allocations[ptr].key /\ n = allocations[ptr].num_bytes
      BY <1>5 DEF TypeOK, Record
    <2>2. allocations' = Drop(allocations, ptr) /\ pc'[t] = (IF k = NoKey THEN "unlock" ELSE "free_stack")
      BY <1>5, <2>1 DEF FreeFind, Goto, TypeOK
    <2>3. call'[t].fkey = k /\ call'[t].nfree = n
      <3>1. call'[t] = [[call[t] EXCEPT !.fkey = k] EXCEPT !.nfree = n]
        BY <1>5, <2>1 DEF FreeFind, TypeOK
      <3>2. call[t] \in Call
        BY DEF TypeOK
      <3>3. QED
        BY <3>1, <3>2 DEF Call
    <2>4. LedgerInv'
      <3>1. Positive'
        BY <1>1 DEF LedgerInv, Positive
      <3>2. pc'[t] \notin {"alloc_record", "report_scan", "report_mark"}
        BY <2>2
      <3>3. QED
        BY <1>1, <1>2, <3>1, <3>2, OwnerSteps
    <2>5. ptr \in Ptrs /\ n \in Int
      BY <2>1, ConstantsAssumption DEF TypeOK, Bytes
    <2>6. Totals' = Ledger!Without(k, n)
      <3>1. CASE k = NoKey
        <4>1. Totals' = stacks'
          BY <1>1, <1>2, <2>2, <3>1 DEF Totals
        <4>2. QED
          BY <1>1, <1>3, <3>1, <4>1 DEF Ledger!Without
      <3>2. CASE k # NoKey
        <4>1. Totals' = Less(stacks', call'[t].fkey, call'[t].nfree)
          BY <1>1, <1>2, <2>2, <3>2 DEF Totals, Less
        <4>2. k \in DOMAIN stacks
          BY <2>1, <3>2, RecordHasStack
        <4>3. Ledger!Without(k, n) = Less(stacks, k, n)
          BY <1>3, <2>5, <3>2, <4>2, LessIsWithout
        <4>4. QED
          BY <1>1, <2>3, <4>1, <4>3
      <3>3. QED
        BY <3>1, <3>2
    <2>7. Ledger!Leave(ptr)
      BY <1>1, <2>1, <2>2, <2>6 DEF Ledger!Leave, Ledger!Restrict, Drop, Restrict
    <2>8. QED
      BY <2>4, <2>5, <2>7 DEF Sim, Ledger!Next
  <1>6. QED
    BY <1>4, <1>5

\* free() uncounts the block: the ledger has done so already.
LEMMA FreeStackSim ==
  ASSUME TypeOK, Exclusion, StacksCover, LedgerInv, NEW t \in Threads, FreeStack(t) PROVE Sim
  <1>1. PICK k, n : k = call[t].fkey /\ n = call[t].nfree
    OBVIOUS
  <1>2. /\ pc[t] = "free_stack" /\ pc'[t] = "unlock" /\ UNCHANGED <<allocations, stats, lock, call, scan>>
        /\ \A u \in Threads \ {t} : pc'[u] = pc[u]
    BY DEF FreeStack, At, Goto, TypeOK
  <1>3. pc[t] \in Locked /\ lock = t /\ t # NoThread /\ k \in AllKeys /\ n \in Int
    <2>1. pc[t] \in Locked
      BY <1>2 DEF Locked
    <2>2. k \in AllKeys /\ n \in Int
      BY <1>1, ConstantsAssumption DEF TypeOK, Call, Bytes
    <2>3. QED
      BY <2>1, <2>2, Alone
  <1>4. k \in DOMAIN stacks
    <2>1. Pending(k) = 1
      BY <1>1, <1>2, <1>3 DEF Pending
    <2>2. Cardinality(RecordsOf(k)) + Pending(k) <= CountOf(k) /\ Cardinality(RecordsOf(k)) \in Nat /\ CountOf(k) \in Int
      BY <1>3, CoverTypes DEF StacksCover
    <2>3. CountOf(k) # 0
      BY <2>1, <2>2
    <2>4. QED
      BY <2>3 DEF CountOf
  <1>5. stacks[k].num_allocs \in Int /\ stacks[k].num_allocs >= 1 /\ stacks[k] \in Stack
    BY <1>4 DEF LedgerInv, Positive, TypeOK, Stack
  <1>6. Totals = Less(stacks, k, n)
    BY <1>1, <1>2, <1>3, TotalsFree
  <1>7. stacks' = Less(stacks, k, n)
    <2>1. stacks[k].num_allocs - 1 = 0 <=> stacks[k].num_allocs = 1
      BY <1>5
    <2>2. QED
      BY <1>1, <1>4, <2>1 DEF FreeStack, Less
  <1>8. Totals' = stacks'
    BY <1>2, <1>3 DEF Totals
  <1>9. Positive'
    <2>1. CASE stacks[k].num_allocs = 1
      <3>1. stacks' = Restrict(stacks, DOMAIN stacks \ {k})
        BY <1>7, <2>1 DEF Less, Drop
      <3>2. DOMAIN stacks' = DOMAIN stacks \ {k} /\ \A s \in DOMAIN stacks \ {k} : stacks'[s] = stacks[s]
        BY <3>1 DEF Restrict
      <3>3. QED
        BY <3>2 DEF LedgerInv, Positive
    <2>2. CASE stacks[k].num_allocs # 1
      <3>1. PICK less : less = Uncounted(stacks[k], n)
        OBVIOUS
      <3>2. less.num_allocs = stacks[k].num_allocs - 1
        BY <1>3, <1>5, <3>1, CountBack
      <3>3. stacks' = [stacks EXCEPT ![k] = less]
        BY <1>7, <2>2, <3>1 DEF Less
      <3>4. DOMAIN stacks' = DOMAIN stacks /\ stacks'[k] = less /\ \A s \in DOMAIN stacks \ {k} : stacks'[s] = stacks[s]
        BY <1>4, <3>3
      <3>5. less.num_allocs >= 1
        BY <1>5, <2>2, <3>2
      <3>6. QED
        BY <3>4, <3>5 DEF LedgerInv, Positive
    <2>3. QED
      BY <2>1, <2>2
  <1>10. LedgerInv'
    BY <1>2, <1>3, <1>9, OwnerSteps
  <1>11. QED
    BY <1>2, <1>6, <1>7, <1>8, <1>10 DEF Sim, Stays

\* report()'s sum with one more stack in it.
LEMMA OneStackMore ==
  ASSUME TypeOK, NEW todo \in SUBSET DOMAIN stacks, NEW key \in todo, NEW total,
         total = Wrap(BytesOf(stacks, DOMAIN stacks \ todo))
  PROVE  /\ Wrap(total + stacks[key].num_bytes) = Wrap(BytesOf(stacks, DOMAIN stacks \ (todo \ {key})))
         /\ todo = {key} => Wrap(total + stacks[key].num_bytes) = Wrap(BytesOf(stacks, DOMAIN stacks))
  <1>1. PICK S \in SUBSET DOMAIN stacks : S = DOMAIN stacks \ todo
    OBVIOUS
  <1>2. key \in DOMAIN stacks \ S /\ DOMAIN stacks \ (todo \ {key}) = S \cup {key}
    BY <1>1
  <1>3. BytesOf(stacks, S \cup {key}) = stacks[key].num_bytes + BytesOf(stacks, S)
    BY <1>2, BytesAdd
  <1>4. PICK a, b : a = BytesOf(stacks, S) /\ b = stacks[key].num_bytes
    OBVIOUS
  <1>5. a \in Int /\ b \in Int
    BY <1>2, <1>4, BytesType, ConstantsAssumption DEF TypeOK, Stack, Bytes
  <1>6. Wrap(Wrap(a) + b) = Wrap(a + b) /\ a + b = b + a
    BY <1>5, WrapAdd
  <1>7. Wrap(total + stacks[key].num_bytes) = Wrap(BytesOf(stacks, S \cup {key}))
    BY <1>1, <1>3, <1>4, <1>6
  <1>8. todo = {key} => S \cup {key} = DOMAIN stacks
    BY <1>1, <1>2
  <1>9. QED
    BY <1>2, <1>7, <1>8

\* report() adds up one more stack.
LEMMA ReportScanSim ==
  ASSUME TypeOK, Exclusion, ScanValid, LedgerInv, NEW t \in Threads, ReportScan(t) PROVE Sim
  <1>1. PICK key \in scan[t].todo :
          /\ scan' = [scan EXCEPT ![t].todo = @ \ {key}, ![t].total = Wrap(@ + stacks[key].num_bytes)]
          /\ Goto(t, IF scan[t].todo = {key} THEN "report_mark" ELSE "report_scan")
    BY DEF ReportScan
  <1>2. /\ UNCHANGED <<allocations, stacks, stats, lock, call>> /\ pc[t] = "report_scan"
        /\ \A u \in Threads \ {t} : pc'[u] = pc[u]
    BY <1>1 DEF ReportScan, At, Goto, TypeOK, dataVars
  <1>3. pc'[t] = IF scan[t].todo = {key} THEN "report_mark" ELSE "report_scan"
    BY <1>1 DEF Goto, TypeOK
  <1>4. pc[t] \in Locked /\ lock = t /\ t # NoThread
    BY <1>2, Alone DEF Locked
  <1>5. scan[t] \in Scan /\ scan[t].todo \subseteq DOMAIN stacks /\ key \in DOMAIN stacks
    BY <1>1, <1>2 DEF TypeOK, ScanValid
  <1>6. scan'[t].todo = scan[t].todo \ {key} /\ scan'[t].total = Wrap(scan[t].total + stacks[key].num_bytes)
    <2>1. PICK todo, total : todo = scan[t].todo \ {key} /\ total = Wrap(scan[t].total + stacks[key].num_bytes)
      OBVIOUS
    <2>2. scan' = [scan EXCEPT ![t] = [[scan[t] EXCEPT !.todo = todo] EXCEPT !.total = total]]
      BY <1>1, <2>1 DEF TypeOK
    <2>3. QED
      BY <1>5, <2>1, <2>2 DEF TypeOK, Scan
  <1>7. scan[t].total = Wrap(BytesOf(stacks, DOMAIN stacks \ scan[t].todo))
    BY <1>2 DEF LedgerInv, Summed
  <1>8. /\ scan'[t].total = Wrap(BytesOf(stacks, DOMAIN stacks \ scan'[t].todo))
        /\ scan[t].todo = {key} => scan'[t].total = Wrap(BytesOf(stacks, DOMAIN stacks))
    <2>1. PICK todo, total : todo = scan[t].todo /\ total = scan[t].total
      OBVIOUS
    <2>2. todo \in SUBSET DOMAIN stacks /\ key \in todo /\ total = Wrap(BytesOf(stacks, DOMAIN stacks \ todo))
      BY <1>1, <1>5, <1>7, <2>1
    <2>3. /\ Wrap(total + stacks[key].num_bytes) = Wrap(BytesOf(stacks, DOMAIN stacks \ (todo \ {key})))
          /\ todo = {key} => Wrap(total + stacks[key].num_bytes) = Wrap(BytesOf(stacks, DOMAIN stacks))
      BY <2>2, OneStackMore
    <2>4. QED
      BY <1>6, <2>1, <2>3
  <1>9. Positive'
    BY <1>2 DEF LedgerInv, Positive
  <1>10. LedgerInv'
    BY <1>2, <1>3, <1>4, <1>8, <1>9, OwnerSteps
  <1>11. Totals = stacks /\ Totals' = stacks'
    BY <1>2, <1>3, <1>4 DEF Totals
  <1>12. QED
    BY <1>2, <1>10, <1>11 DEF Sim, Stays

\* report() marks the stacks: the ledger's report is made.
LEMMA ReportMarkSim ==
  ASSUME TypeOK, Exclusion, LedgerInv, NEW t \in Threads, ReportMark(t) PROVE Sim
  <1>1. /\ UNCHANGED <<allocations, lock, call, scan>> /\ pc[t] = "report_mark" /\ pc'[t] = "unlock"
        /\ \A u \in Threads \ {t} : pc'[u] = pc[u]
        /\ stats' = [stats EXCEPT !.total_bytes = scan[t].total]
        /\ stacks' = [key \in DOMAIN stacks |-> [stacks[key] EXCEPT !.prev_num_bytes = stacks[key].num_bytes]]
    BY DEF ReportMark, At, Goto, TypeOK
  <1>2. pc[t] \in Locked /\ lock = t /\ t # NoThread
    BY <1>1, Alone DEF Locked
  <1>3. Totals = stacks /\ Totals' = stacks'
    BY <1>1, <1>2 DEF Totals
  <1>4. Positive'
    <2>1. \A s \in Stack : [s EXCEPT !.prev_num_bytes = s.num_bytes].num_allocs = s.num_allocs
      BY DEF Stack
    <2>2. \A k \in DOMAIN stacks : stacks[k] \in Stack
      BY DEF TypeOK
    <2>3. QED
      BY <1>1, <2>1, <2>2 DEF LedgerInv, Positive
  <1>5. LedgerInv'
    BY <1>1, <1>2, <1>4, OwnerSteps
  <1>6. stats'.total_bytes = Ledger!SumFunction([k \in DOMAIN stacks |-> stacks[k].num_bytes]) % WordSize
    <2>1. stats'.total_bytes = scan[t].total
      BY <1>1 DEF TypeOK, Stats
    <2>2. scan[t].total = Wrap(BytesOf(stacks, DOMAIN stacks))
      BY <1>1 DEF LedgerInv, Summed
    <2>3. PICK f : f = [k \in DOMAIN stacks |-> stacks[k].num_bytes]
      OBVIOUS
    <2>4. DOMAIN f = DOMAIN stacks
      BY <2>3
    <2>5. Ledger!SumFunction(f) = SumFunctionOnSet(f, DOMAIN f)
      BY DEF Ledger!SumFunction, Ledger!SumFunctionOnSet, Ledger!FoldFunctionOnSet, Ledger!MapThenFoldSet,
             SumFunctionOnSet, FoldFunctionOnSet, MapThenFoldSet
    <2>6. BytesOf(stacks, DOMAIN stacks) = Ledger!SumFunction(f)
      BY <2>3, <2>4, <2>5, Zenon DEF BytesOf
    <2>7. QED
      BY <2>1, <2>2, <2>3, <2>6 DEF Wrap
  <1>7. Ledger!Report
    BY <1>1, <1>3, <1>6 DEF Ledger!Report
  <1>8. QED
    BY <1>5, <1>7 DEF Sim, Ledger!Next

LEMMA OutsideSim ==
  ASSUME TypeOK, LedgerInv, NEW t \in Threads, Outside(t) PROVE Sim
  <1>1. /\ UNCHANGED <<allocations, stacks, lock, scan>> /\ pc[t] \notin Tracing
        /\ \E l \in Positions \ Tracing : pc' = [pc EXCEPT ![t] = l]
        /\ \A u \in Threads \ {t} : call'[u] = call[u]
    BY OutsideStep
  <1>2. UNCHANGED stats
    BY DEF Outside, Program, Malloc, Memalign, Mmap, LibcAlloc, Free, Munmap, LibcFree, Realloc,
           Mtrace, Muntrace, Untrace, Exit, HookAlloc, HookFree, HookRealloc,
           MtraceAtexit, MtraceStore, MtraceCheck, MtraceSet, ExitHandler, ExitDone, dataVars
  <1>3. /\ pc'[t] \notin Tracing
        /\ \A u \in Threads \ {t} : pc'[u] = pc[u]
    BY <1>1 DEF TypeOK
  <1>4. ~Owing(t) /\ pc'[t] \notin {"alloc_record", "free_stack", "report_scan", "report_mark"}
    BY <1>1, <1>3 DEF Owing, Tracing
  <1>5. QED
    BY <1>1, <1>2, <1>3, <1>4, MoveSim

LEMMA GuardSim ==
  ASSUME TypeOK, Exclusion, LedgerInv, NEW t \in Threads, AllocGuard(t) \/ FreeGuard(t) \/ ReportGuard(t) PROVE Sim
  <1>1. /\ UNCHANGED <<allocations, stacks, lock, scan, call>>
        /\ pc[t] \notin Tracing
        /\ \E l \in {"alloc_lock", "free_lock", "report_lock"} : pc' = [pc EXCEPT ![t] = l]
    BY GuardStep
  <1>2. UNCHANGED stats
    BY DEF AllocGuard, FreeGuard, ReportGuard, Guard, dataVars
  <1>3. /\ pc'[t] \in {"alloc_lock", "free_lock", "report_lock"}
        /\ \A u \in Threads \ {t} : pc'[u] = pc[u]
    BY <1>1 DEF TypeOK
  <1>4. ~Owing(t)
    BY <1>1 DEF Owing, Tracing
  <1>5. QED
    BY <1>1, <1>2, <1>3, <1>4, MoveSim

LEMMA LockSim ==
  ASSUME TypeOK, LedgerInv, NEW t \in Threads, AllocLock(t) \/ FreeLock(t) PROVE Sim
  <1>1. /\ UNCHANGED <<allocations, stacks, stats, scan, call>> /\ lock = NoThread /\ lock' = t
        /\ pc[t] \in {"alloc_lock", "free_lock"} /\ pc'[t] \in {"alloc_stack", "free_find"}
        /\ \A u \in Threads \ {t} : pc'[u] = pc[u]
    BY DEF AllocLock, FreeLock, Lock, At, Goto, TypeOK
  <1>2. ~Owing(t)
    BY <1>1 DEF Owing
  <1>3. QED
    BY <1>1, <1>2, MoveSim

LEMMA UnlockSim ==
  ASSUME TypeOK, Exclusion, LedgerInv, NEW t \in Threads, Unlock(t) PROVE Sim
  <1>1. /\ UNCHANGED <<allocations, stacks, stats>> /\ pc[t] = "unlock" /\ lock' = NoThread
        /\ \E l \in {"alloc_guard", "exit", "app"} : pc' = [pc EXCEPT ![t] = l]
    BY ResumeMoves DEF Unlock, At, dataVars
  <1>2. lock = t
    BY <1>1, Alone DEF Locked
  <1>3. \A u \in Threads \ {t} : pc'[u] = pc[u] /\ call'[u] = call[u] /\ scan'[u] = scan[u]
    BY OthersStay DEF Library
  <1>4. ~Owing(t) /\ pc'[t] \notin {"alloc_record", "free_stack", "report_scan", "report_mark"}
    BY <1>1 DEF Owing, TypeOK
  <1>5. QED
    BY <1>1, <1>2, <1>3, <1>4, MoveSim

\* Every step of the tracker is a step of the ledger or none.
LEMMA StepSim ==
  ASSUME IInv, LedgerInv, \A t \in Threads : Asked(t), [Next]_vars
  PROVE  Sim
  <1>1. ASSUME NEW t \in Threads, Program(t) \/ Library(t) PROVE Sim
    BY <1>1, OutsideSim, GuardSim, LockSim, ReportLockSim, UnlockSim, AllocStackSim, AllocRecordSim, FreeFindSim,
       FreeStackSim, ReportScanSim, ReportMarkSim
    DEF IInv, Library, Outside
  <1>2. ASSUME NEW t \in Threads, NestedCall(t) \/ NestedHook(t) PROVE Sim
    <2>1. UNCHANGED <<allocations, stacks, stats, lock, pc, call, scan>>
      BY <1>2 DEF NestedCall, NestedHook, dataVars
    <2>2. QED
      BY <2>1, SameSim
  <1>3. CASE UNCHANGED vars
    <2>1. UNCHANGED <<allocations, stacks, stats, lock, pc, call, scan>>
      BY <1>3 DEF vars, dataVars
    <2>2. QED
      BY <2>1, SameSim
  <1>4. QED
    BY <1>1, <1>2, <1>3 DEF Next, Finished

LEMMA LedgerInit == Init => LedgerInv /\ Ledger!Init /\ \A t \in Threads : Asked(t)
  <1> SUFFICES ASSUME Init PROVE LedgerInv /\ Ledger!Init /\ \A t \in Threads : Asked(t)
    OBVIOUS
  <1>1. LedgerInv
    BY DEF Init, LedgerInv, Positive, Newest, Summed
  <1>2. Ledger!Init
    BY DEF Init, Ledger!Init, Totals
  <1>3. \A t \in Threads : Asked(t)
    BY DEF Init, Asked, AllocPath
  <1>4. QED
    BY <1>1, <1>2, <1>3

\* What the maps hold is what the ledger holds, at every step of any program.
LEMMA LedgerInvariance == Spec => []LedgerInv /\ Ledger!Init /\ [][Ledger!Next]_(Ledger!ledger)
  <1>1. Init => LedgerInv /\ Ledger!Init /\ \A t \in Threads : Asked(t)
    BY LedgerInit
  <1>2. IInv /\ LedgerInv /\ (\A t \in Threads : Asked(t)) /\ [Next]_vars
          => LedgerInv' /\ (\A t \in Threads : Asked(t))' /\ [Ledger!Next]_(Ledger!ledger)
    <2> SUFFICES ASSUME IInv, LedgerInv, \A t \in Threads : Asked(t), [Next]_vars
                 PROVE  LedgerInv' /\ (\A t \in Threads : Asked(t))' /\ [Ledger!Next]_(Ledger!ledger)
      OBVIOUS
    <2>1. Sim
      BY StepSim
    <2>2. (\A t \in Threads : Asked(t))'
      BY AskedStep DEF IInv
    <2>3. QED
      BY <2>1, <2>2 DEF Sim, Stays, Ledger!ledger
  <1>3. QED
    BY <1>1, <1>2, Invariance, PTL DEF Spec

\* For any number of threads, hooks interleaved statement by statement change
\* the two maps as if each alloc(), free() and report() were one step: nobody
\* who holds the lock sees a block counted twice, lost or half taken out.
THEOREM HooksKeepTheLedger == Spec => ImplementsLedger
  BY LedgerInvariance, PTL DEF ImplementsLedger, Ledger!Spec

\* In a program with one thread, whose calls succeed and which neither resizes
\* blocks nor calls muntrace(), a stack counts exactly the recorded blocks
\* whenever the program is in its own code, and is not there without one.
THEOREM StacksCountTheirBlocks ==
  ASSUME Sequential
  PROVE  Spec => []CountIsExact
  <1>1. OneInv /\ TypeOK /\ LedgerInv => CountIsExact
    <2> SUFFICES ASSUME OneInv, TypeOK, LedgerInv, InApp, NEW k \in Keys \ {NoKey}
                 PROVE  /\ CountOf(k) = Cardinality(RecordsOf(k))
                        /\ k \in DOMAIN stacks <=> RecordsOf(k) # {}
      BY DEF CountIsExact
    <2>1. PICK t \in Threads : TRUE
      BY DEF Sequential, OneThread
    <2>2. Balanced(allocations, stacks, NoKey, 0)
      BY <2>1, NothingDue DEF OneInv
    <2>3. CountIn(allocations, k) \in Nat /\ IsFiniteSet(RecordsOf(k))
      BY RecordedNow, RecordsType DEF RecordsIn, RecordsOf
    <2>4. Counting(stacks, k) = CountIn(allocations, k)
      BY <2>2, <2>3 DEF Balanced, More
    <2>5. CountOf(k) = Cardinality(RecordsOf(k))
      BY <2>4 DEF Counting, CountOf, CountIn, RecordsIn, RecordsOf
    <2>6. CountOf(k) = 0 <=> RecordsOf(k) = {}
      BY <2>3, <2>5, FS_EmptySet
    <2>7. CountOf(k) = 0 <=> k \notin DOMAIN stacks
      BY DEF CountOf, LedgerInv, Positive, TypeOK, Stack
    <2>8. QED
      BY <2>5, <2>6, <2>7
  <1>2. QED
    BY <1>1, OneInvariance, LedgerInvariance, PTL
=============================================================================
