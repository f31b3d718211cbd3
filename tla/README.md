# Formal models of lpt-tools

TLA+ modules for the parts of lpt-tools whose correctness depends on the order
of events: the memory tracker `libmemleak`, the locks, and the containers and
tools with state. TLC checks them on small instances; TLAPS proves the theorems
for every value of the constants.

Paths below are relative to the repository (`src/...` is `src/src/...` beside
this directory, `include/lpt/...` is `src/include/lpt/...`).

## 1. Inventory

| Component | State | Operations | Interacts with | What is hard | What makes it correct |
|---|---|---|---|---|---|
| libmemleak tracker: `src/libmemleak/report.cpp`, `api_hooks.cpp`, `libmemleak.cpp` | `_alloc_map` (block → size, stack key), `_stack_map` (key → bytes, blocks, bytes at last report), `reporting_stats`, `_reporting_lock`, per-thread `_in_trace`, `_capture_on`, `_atexit` | hooks of `malloc`, `free`, `realloc`, `memalign`, `mmap`, `munmap`; `alloc`, `free`, `realloc`, `report`; `mtrace`, `muntrace`; exit handlers | the traced program's threads call the hooks; the hooks call libc and the tracker; the tracker's own allocations come back through the hooks; `exit()` calls `muntrace` | threads, re-entry, libc releasing an address before the tracker knows, capturing switched in mid-call, unsigned sums, report while others free | the two maps agree; no self-deadlock; nothing held is missing, nothing freed is reported |
| libmtrace: `src/libmtrace/mtrace.cpp` | the four `__*_hook` pointers, the saved ones, `_hooks_lock`, `_mallstream`, `_in_trace` | four hooks that swap themselves out, call libc and swap themselves in; `mtrace`, `muntrace` | as above, through glibc's hook pointers | global hooks swapped per call, `muntrace` without the lock | every block's `+` and `-` in the trace, in order; nobody writes to a deleted stream |
| malloc-hook front end: `src/libmemleak/mtrace_hooks.cpp` | the four hook pointers, the saved ones, `_hooks_lock`, `_capture_on` | as libmtrace, plus `mmap`, `munmap`; the tracker's calls | glibc's hook pointers; the tracker | `mtrace` tests before it locks, hooks are overtaken by `muntrace` | no self-deadlock; what the program holds is on record |
| shared_mutex: `src/relacy/shared_mutex.h` | one atomic integer | `lock`, `unlock`, `lock_shared`, `unlock_shared`, two guards | threads of the Relacy test | memory orders, stale loads, failing compare-and-swaps, starvation | readers exclude writers; no data race |
| spinlock: `include/lpt/spinlock.hpp` | one atomic flag, a loop counter | `lock`, `unlock` | `benchmark/pikus_spinlock.cpp` | relaxed test before the exchange, back-off | mutual exclusion, no lost update |
| lru_array: `include/lpt/lru_array.hpp` | `_data`, `_numUsed`, index by key, index by time | `push` | its caller; the system's clock | equal times, a clock set back, two indexes | the indexes agree; the oldest item is replaced |
| Call stacks: `include/lpt/callstack/*` | captured frames; `bfd::library`'s caches `_syms`, `_vmas` under `_lib_mutex`; a frame's address, names and buffer | capture, iterate, `resolve`, `flush_cached_data`, construct, copy, move, swap | libmemleak and libmtrace print through it; libbfd, `/proc` | modules unloaded and loaded again; failing lookups; names that point into another object; an iterator that compares addresses | an address resolves with its module's present base and shows its own names; a walk shows every frame once |
| Per-frame report: `report.cpp`, `call_stack_stats.hpp` | sums per frame | `report`'s second half | stacks of the tracker | one frame on several stacks or twice on one | a frame's sum counts each stack once |
| CRC-32 keys: `crc32*.hpp` | table, running CRC | `crc32` over bytes | keys of the stacks | table index, width | the CRC of its polynomial |
| Pool allocator: `callstack/allocator.hpp` | list of free items | `allocate`, `deallocate`, copy | standard containers | copies with lists of their own | no item given out twice |
| Coroutine stacks: `coroutines/corostack.hpp` | parent and child links | `on_await_suspend`, `on_await_resume`, `print` | coroutine frames | frames destroyed, awaited again | links form a chain that ends |
| Chrono: `chrono.hpp`, `timing.hpp`, `stats.hpp` | start time, sum | measurement's destructor, `+=` | an accumulator outlives its measurements | moved measurements, uninitialised sum | the sum of the measured intervals |
| PAPI: `papi/papi.hpp` | event set, accumulators | init once per process and per thread, start, stop, read | libpapi | nested measurements, events that cannot be added | values belong to their events |
| Workers: `chrono/examples/barrier1.cpp`, `lockfree1.cpp`, `stats.cpp`, `benchmark/mutex-lockfree-waitfree.cpp`, `papi/examples/papimove*.cpp` | a shared sum or vector, two barriers, a stop flag | start and join workers; load/store, compare-and-swap, fetch-add, mutex, per thread | `main()` clears, fills and reads between the calls | lost updates, a thread that cannot be created | the final sum, where promised; everyone passes the barriers together |
| Message passing: `src/relacy/race_ok.cpp`, `race_ko.cpp` | a flag and a datum | store, load | Relacy | memory orders | no data race in `race_ok` |
| Indenting stream: `iostream.hpp` | level | guard's constructor and destructor, `overflow` | any stream | guards that end out of order | levels return |
| Enum tools, constexpr strings, tuples: `enum_tools.hpp` … | none (compile time) | `count`, `to_string` | – | intervals without 0 | counts the interval it names |
| CPU, debugger, profiler helpers; examples and benchmarks without shared state | none | – | – | – | – |

`PROJECT.json` lists every component with its status and every hazard at its
line. The malloc-hook front end is the alternative to `api_hooks.cpp` in the same
library; the workers are those of all the examples and benchmarks that start
threads around a measured loop.

## 2. Plan and state

| Modules | Status |
|---|---|
| `MemLeak`, `MemLedger`, `MemLeakRefinement` | modelled, checked; the refinement and every invariant proved, some of these for a restricted program (section 5) |
| `HappensBefore`, `RWLock`, `SharedMutex`, `Spinlock` | modelled, checked, safety and the refinement proved |
| `LRUMap`, `LruArray` | modelled, checked, `Consistent` and the refinement proved |
| `MTrace` | modelled, checked, every invariant proved for a trace that is not restarted |
| `CallStack`, `SymbolInfo` | modelled, checked, `CallStack` proved |
| `MallocHooks`, `PoolAllocator`, `AutoIndent`, `MessagePassing`, `Papi`, `Chrono`, `EnumScan`, `Workers`, `CoroStack` | modelled, checked, proved |
| `MCMemLeak`, `MCLocks`, `MCTracing`, `MCTools` | compositions and values for TLC (section 4) |

Every invariant that a passing run checks is proved, some for a restricted
program; liveness is not (section 5). What stays unmodelled is in section 7.

Abstract specifications: `MemLedger` (an atomic tracker), `RWLock`, `LRUMap`.

## 3. The modules

### MemLeak (`report.cpp`, `api_hooks.cpp`, `libmemleak.cpp`)

A thread is at a position `pc[t]`; `app` is the program's own code. A library
call passes through these steps, one action each:

* libc answers (`Malloc`, `Memalign`, `Mmap`, `Free`, `Munmap`, `Realloc`).
  libc is external and atomic; which address it hands out, and whether it fails
  (`LibcFails`), is a free choice. A block freed is available to any thread
  from this step on, as in the code, which calls libc first.
* the hook tests `_capture_on` (`HookAlloc`, `HookFree`, `HookRealloc`).
* the tracker: `AllocGuard`, `FreeGuard`, `ReportGuard` are `gnu_atomic_guard`
  on `_in_trace`; `AllocLock`, `FreeLock`, `ReportLock` take `_reporting_lock`;
  `AllocStack`, `AllocRecord`, `FreeFind`, `FreeStack` are the changes of the
  two maps in the order of the code; `ReportScan` is one turn of `report()`'s
  loop, `ReportMark` the rest of it; `Unlock` is the two destructors, after
  which `realloc()` goes on to its `alloc()`.
* `NestedCall`, `NestedHook`: at any point inside the tracker its own containers
  and streams allocate, and the hook is entered again.
* `Mtrace` … `MtraceSet`, `Muntrace`, `Exit`, `ExitHandler`, `ExitDone`: the
  switch, with `_atexit` loaded and stored in two steps, and `exit()` running
  the handlers while other threads go on.

A call stack is its key (the CRC of its frames), a member of `Keys`, the key 0
(`NoKey`) included. `memsize_type` arithmetic is modulo `WordSize`. Left out:
the report's text, its list of new leaks and its sums per frame, `error()`, and the copy of the frames.
`_capture_on` is a plain `bool` shared by all threads; each of its loads and
stores is a step of its own.

`MemLedger` is the tracker without threads or locks. `MemLeakRefinement` maps
`MemLeak` to it: an `alloc()` takes effect when the record is stored, a
`free()` when it is erased, a `report()` when the stacks are marked; `Totals`
undoes or completes what the lock's owner is in the middle of.

### HappensBefore, RWLock, SharedMutex, Spinlock

`HappensBefore` is the part of the C++ memory model the locks rest on: for one
plain variable, which last accesses each thread comes after (`known`) and which
an atomic's release sequence carries (`sync`). A release store starts a
sequence, a read-modify-write continues one, an acquire operation that reads
from it joins it. A relaxed load returns any value of `visible[t]`: the value
the thread last wrote or read-modified, or anything written since. It does not
model consume, fences, or sequential consistency, which this code does not use.

`SharedMutex` is `shared_mutex.h` operation by operation. A failed
compare-and-swap of `lock()` leaves no trace, so only the successful one is an
action; `lock_shared()`'s may fail at any time (it is the weak one) and starts
over at the load. The assertions are properties, not guards: `RL_ASSERT(val == 0)`
is `AssertNoReader`. `RWLock` is the abstract lock it implements.

`Spinlock` is `spinlock.hpp` under the loop of `pikus_spinlock.cpp`, whose
increment is a read and a write.

### MTrace (`libmtrace/mtrace.cpp`)

A thread is a stack of library calls, `frames[t]`, because tracing allocates
and so enters the hooks again (`Nested`); the empty stack is the program's own
code. `Enter` is a call of one of libc's four functions: through its hook if it
has one (`hook`), or straight to libc, which then prints nothing.

* `Lock`, `Swap`, `Call`, `Restore`, `Unlock` are the part of a hook under
  `_hooks_lock`. `Swap` and `Restore` are one store of one hook pointer each, in
  the order of the code: `realloc()`'s hook swaps three, `memalign()`'s two.
  `Call` calls the saved hook, or libc, which looks at the hook that is set now.
* `Guard`, `Mark`, `MarkNew`, `Dump` are `gnu_atomic_guard` on `_in_trace`, the
  line or two of the trace, and the call stack. `free()`'s hook does this
  before it calls libc, the others after they have given the lock back.
* `Mtrace`, `MtraceCheck`, `MtraceOpen`, `Install`: `mtrace()` under the lock.
  `Muntrace`, `Destroy`, `Delete`, `Unhook`: `muntrace()`, which takes no lock,
  deletes the stream and then takes the hooks out one by one. `Write` on a
  stream that is not there ends the process; on one that is being destroyed it
  may or may not.

The trace is the set of addresses whose last line is an allocation (`marked`).
`printed` and `missed` are history: blocks whose allocation was printed, and
addresses of the trace that were released by calls that print no release (those
that came while another thread had the hooks out, and `realloc()` to size 0,
which the hook takes for a failure). libc is external and atomic. Assumed:
`MALLOC_TRACE` names a file, `mallwatch` is not used, the program calls
`muntrace()` from one thread at a time, and, with `Restarts = FALSE`, does not
call `mtrace()` while or after it runs: a hook that `muntrace()` overtakes puts
itself back, the next `mtrace()` saves it as the old hook, and it then calls
itself and locks `_hooks_lock` twice. The properties speak of the time before
`muntrace()`, except for `NoRelock`.

### LRUMap, LruArray

`LruArray` is `push()` in its three cases (`Update`, `Replace`, `Add`), each with
the array, the count and both indexes. The multimap is a sequence sorted by
time, where insertion goes after equals. `Tick` is the clock: it may stand still
between two pushes, and it may be set back, which `setBack` remembers;
`pushes` and `setBack` are history. With a clock that was set back the two
indexes still agree (`Consistent`), but the newest item may have the smallest
time and is then the one replaced: `ImplementsLRUMap` speaks of the time before.
The reference each item holds is not modelled: nothing reads it.
`LRUMap` is the abstract map: the N most recent pushes in order.

### CallStack (`call_stack.hpp`, `glibc_call_stack.hpp`)

Each thread's `walk` is a captured stack and the position it has reached, either
by the stream operator's loop over the depth or by the iterators, whose end is
told by the address in the cell after the last frame (`AtEnd`). `Capture` takes
a stack; `PrintUnresolved` and `PrintFrame` print and step on; `End` ends the
walk. In between come `dladdr()` (`Dladdr`) and `bfd::library` under its mutex:
`Resolve` looks into `_syms`, `ComputeMapsBase` into `_vmas` and
`/proc/<pid>/maps`, `OpenBfd` opens and caches, `FindLine` takes the names and
gives the mutex back. `Flush` closes every bfd; `Move` is the dynamic linker.
Unwinding, line lookup and demangling are external; a file in `Fails` may be
missing or unreadable, which throws, caught or not as in the code.

### SymbolInfo (`call_stack.hpp`, both `detail` headers)

`call_frame_info` resolves when printed; `symbol_info` when made, and keeps
pointers. Where these point is the platform's: into the modules (GNU/Linux) or
into a buffer of the object (Windows), which members swapped apart from each
other leave behind. `Construct`, `Resolve`, `Copy`, `Move`, `Assign`, `Swap`,
`Destroy` in any order; `given`, `emptied`, `exchanged` are history.

### MallocHooks (`mtrace_hooks.cpp`)

A call is `Call`; then `Forget` (free's record goes first), `Lock`, `Swap` (one
hook taken out), `CallOld` (what was saved is called, or the C library, which goes
by the hooks as they then are), `Restore` (one hook put back; with the last the
lock is given back) and `Note` (the tracker, one step: `MemLeak` has it in detail).
`Map` is `mmap()` and `munmap()`, which need no hook. `MtraceCall`, `Install`,
`SwitchOn` are `mtrace()`, whose test of `_capture_on` comes before the lock;
`Muntrace`, `Unhook`, `SwitchOff`, `Report` are `muntrace()`, which takes none. Every
store of a hook and of `_capture_on` is a step. A thread that would wait for the
lock it has stays at `relock`. `realloc()` passes its pointers to the tracker in the
code's order, so that the new block's record goes and the old one's comes back
(`Gone`, `New`). History: `relocated` has the blocks that `realloc()` moved, `late`
those whose record a `munmap()` took that was noted late, and `raced` says that two
first calls of `mtrace()` overlapped, or `muntrace()` and another call. `realloc()`
to size 0 is left out.

### Workers (the examples that count under contention)

`program` is what `main()` does between the calls (`Phases`), `body` how a
worker adds. `Fill` enters a measured function, `Spawn` makes a thread or fails
to, `Start`/`Leave` are the two barriers (`Arrive`), `Load`, `Store`,
`Exchange`, `FetchAdd`, `AddLocal`, `Lock`, `Gain`, `Unlock` the seven bodies,
`Stop` the flag `main()` sets after its sleep, `Join` the end of the vector of
`jthread`s. A thread that cannot be created throws through the join of those
that were.

### Papi (`papi.hpp`)

`LibraryInit`, `ThreadInit`, `Register`, `StartCounters` are what the first
object of a process, of a thread and of a counter set do, each of which may
fail and be tried again; `Begin`, `CopyMeasure`, `Measured` are measurements,
which nest. Any part of the events may be added (`added`, in their order), as the
comment at :377 has it; `Work` is an event that happens, and PAPI, which is
external, gives the counts of the added events one after the other (`Counted`).

### Chrono, PoolAllocator, AutoIndent, EnumScan, MessagePassing, CoroStack

* `Chrono`: accumulators and measurements are made, copied, moved and ended.
  An accumulator's sum starts with what is in its memory (`Memory`): it has no
  initial value. Where a sum comes from is history: `found` in its memory, `extra`
  from the sum it is a copy of and by hand, `inside` from its measurements, the
  two objects of a moved one both counted from its start.
* `PoolAllocator`: the lists of free items of allocators that are constructed,
  copied, assigned and destroyed, and that give back each other's items.
* `AutoIndent`: level, guards, and what `overflow()` does with each character.
* `EnumScan`: `count()`'s recursion, one index a step.
* `MessagePassing`: both Relacy tests over `HappensBefore`; `order` tells them
  apart.
* `CoroStack`: coroutines that create, await and drop tasks, wait for data and
  return; `parent` and `child` are the stack's links, `handle` the promise's.
  One thread runs them all. The frames that go away with one (`Frames`) and the
  walk up the links (`Upwards`) are least sets closed under a step.

## 4. The runs

| Run | Instance | Shows |
|---|---|---|
| `memleak_threads` | 2 threads, 5 calls (malloc, free, realloc, mtrace, muntrace, exit), 2 addresses, keys `k1` and 0, libc may fail | `Exclusion`, `NoRelock`, `ScanValid`, `StacksCover`, `ImplementsLedger` |
| `memleak_live` | 2 threads, 4 calls (malloc, free, mmap, munmap, mtrace, exit), 1 heap and 1 mapped address, libc may fail, capturing on until exit, fair | `NoFalseLeak`, `CallsReturn` |
| `memleak_single` | 1 thread, 6 calls, 2 heap and 1 mapped address, 2 keys, 2 sizes, exit | `HeldIsRecorded`, `CountIsExact`, `FinalReport` |
| `memleak_realloc` | 1 thread, 3 calls | a finding |
| `memleak_bytes` | 1 thread, 3 calls, 2 addresses, one key, 2 sizes | a finding |
| `locks` | the two locks, see below, fair | 4 invariants, `ImplementsRWLock`, `Granted` |
| `sharedmutex_assert` | `SharedMutex` alone, 2 threads, 2 locks in all | a finding |
| `tracing` | the two hook tracers, call stacks, `lru_array`, see below | 9 invariants, `ImplementsLRUMap` |
| `mtrace_realloc` | `MTrace` alone, 4 calls, libc does not fail | a finding |
| `hooks_realloc` | `MallocHooks` alone, as in `tracing` | a finding |
| `tools` | the nine small tools, see below | 11 invariants and `Finishes` |
| `chrono_start` | `Chrono` alone | a finding |

`locks`, `tracing` and `tools` each check several modules that share nothing:
`MCLocks`, `MCTracing` and `MCTools` have the variables of all of theirs, and a
behaviour chooses one part (`which`, `part`, `tool`) and runs it alone. Each
property therefore speaks of its own module's behaviours, and the state space is
the sum of theirs, not the product. `MCLocks` extends `SharedMutex` and has
`Spinlock` as the instance `Spin`; `MCTracing` extends `MTrace` and has
`MallocHooks`, `CallStack` and `LruArray` as `Track`, `Walks` and `Array`;
`MCTools` has instances only. The properties of an instance are named again in the
MC module, `Spinlock`'s `NoDataRace` as `CounterRaceFree`.

| Part of `locks`, `tracing` | Bounds | Properties |
|---|---|---|
| `SharedMutex` | 3 threads, 3 locks in all | `RefcountMeaning`, `NoDataRace`, `ImplementsRWLock`, `Granted` |
| `Spinlock` | 3 threads, 3 locks in all | `Exclusion`, `CounterRaceFree`, `Granted` |
| `MTrace` | 2 threads, 5 calls (the four functions, mtrace, muntrace), 2 addresses, libc may fail | `HooksInstalled`, `NoRelock`, `NoFalseLeak` |
| `MallocHooks` | 2 threads, 5 calls, 2 heap blocks, 1 mapping | `NeverRelocks`, `HeldIsNoted` |
| `CallStack` | 2 threads, the executable and a library that may fail to open, 3 bases, stacks of up to 2 frames, 2 moves, 1 flush, 4 printed frames or ends | `BaseFresh`, `NamesOpen`, `WalkComplete` |
| `LruArray` | 4 keys, 2 values, 3 places, 6 pushes, 3 times, the clock may be set back | `Consistent`, `ImplementsLRUMap` |

| Tool | Bounds in `MCTools.cfg` | Properties |
|---|---|---|
| `SymbolInfo` | 3 objects, 2 addresses, 5 steps, both platforms, both classes | `NamesMatch` |
| `PoolAllocator` | 2 allocators, 1 initial item, 3 items | `OneOwner` |
| `AutoIndent` | 4 lines or guards, changes −1, 1, 2 | `IndentFollows` |
| `Chrono` | 2 accumulators, 2 measurements, time up to 4, memory 0 or 7 | `ElapsedExact` |
| `Workers` | 3 workers, 2 loops, 2 rounds, all programs and bodies | `SumExact`, `BarrierOpens` |
| `MessagePassing` | sender and receiver, release or relaxed | `MessageOrdered` |
| `Papi` | 2 threads, 2 measurements each, 2 events, 5 acts | `InitOnce`, `CountsConserved` |
| `EnumScan` | intervals and enumerators in −2..3 | `ScansAroundZero` |
| `CoroStack` | 2 spawned and 3 awaited tasks, 2 schedulers, which may be shared, 5 operations | `LinksMatch`, `Finishes` |

Bounds. `MaxCalls` bounds the library calls of the whole program; two threads
and two addresses are enough for an address to be freed, reused by the other
thread and freed again while the first `free()` is on its way (four calls), and
the fifth switches capturing or reports in the middle. One key and the key 0
let blocks share a stack and exercise the special key; `memleak_single` has two
keys and two sizes, so that the first block of a stack may be the larger one
(the sum then wraps, with `WordSize` 16 well above what six calls can add up
to). `MaxLocks` bounds the calls of all threads together: with 3, each of three
threads may ask once (two readers and a writer, or two losers of an exchange),
or one may come back with a stale value of its first round while another is
inside; the theorems cover any number of both for the safety properties. In
`LruArray` six pushes fill three places, update one and replace twice.
`MaxTime` 2 leaves equal and different times among the items. In `MTrace` the
first call has to be `mtrace()`; four more are enough for two threads to
allocate, to move or free what they have while the other is between two stores
of the hooks, and to reuse the address. In `CallStack` two frames are enough
for a recursion and for a stack that is full, two moves for a library to come
back elsewhere, and the flush may fall into the middle of the other thread's
`resolve()`. In `MallocHooks` five calls are enough for `mtrace()` by both threads and a
`muntrace()` while one of two allocations is between two stores, and for a block
to be given out again. In `tools`: three objects for a chain of copies; three items for an allocator to run dry and take more; two
overlapping measurements and one moved; two loops, below which an addition
cannot be lost twice, and a second round to see static sums go on; three tasks
for a coroutine that awaits one that awaits one, twice under a shared scheduler.

Every property has a mutant in `PROJECT.json`: a variant of a definition, kept
beside it in the module with a comment that begins "Mutant:", with a plausible
bug under which TLC finds the property violated.

### Fairness

* `memleak_live`: every thread is scheduled; the tracker's own allocations are
  finite (`WF` on the nested hook); strong fairness of a thread's next library
  step, because a `std::mutex` that is free again and again is eventually
  handed to a waiter. The code does nothing to guarantee this: it is an
  assumption on the operating system. The program itself is under no
  obligation to make calls.
* `locks` (`LocksFairness`): for each thread, scheduling of whoever is past the
  entrance (`WF`; in `Spinlock` of every step, `nanosleep()` returning included);
  strong fairness of a load that returns the present value (a store becomes
  visible in the end) or of `lock()`'s compare-and-swap, and of the
  compare-and-swap or exchange that follows a load (neither lock has a queue, and
  the weak one must not fail spuriously for ever). A condition covers the
  corresponding actions of both locks, of which a behaviour runs one. The threads
  ask a bounded number of times: with readers coming without end a writer may
  starve.
* `tools`, for `Finishes`: weak fairness of the coroutines' bodies (they end) and
  of each scheduler's `ResumeWithData` (the data that is waited for arrives), which
  is what `corowalk.cpp`'s `main()` does at :282 for the task it started.

## 5. What is proved

All proofs hold for any set of threads (finite, for the locks), addresses,
keys, sizes and bounds, from the assumptions named in the modules
(`ConstantsAssumption`, `ThreadsAssumption`, `HooksAssumption`, `StackAssumption`,
`ArrayAssumption`, `ToolsAssumption`, `CoroAssumption`). Modules that a run
composes are proved as they are composed: the theorems of `LockProofs`,
`CallStackProofs`, `LruArrayProofs`, `MallocHooksProofs` and `ToolsProofs` are about
the specifications of `MCLocks`, `MCTracing` and `MCTools`, in which a step of
another part leaves the part alone.

`MemLeakProofs`. For every program: `TypeOK`, `Exclusion`, `NoRelock`,
`ScanValid`, `StacksCover`, `FreeAssert`. The argument: types first, by
themselves. Then the guard and the lock (`Exclusion`), which gives that a nested
hook always finds `_in_trace` set (`NoRelock`). `StacksCover` is not inductive
by the names of the two maps alone: between counting and recording, and between
erasing and uncounting, the lock's owner holds one block that is in one map only
(`Pending`), and it takes `Exclusion` to know that no other thread is there too.
`FreeAssert` follows: at `free_stack` the stack still counts the pending block.
`ScanValid` needs that nobody erases a stack while another thread scans, again
from `Exclusion`.

What the reports say is not true of every program; each theorem names the
program it is about, and TLC has a counterexample for each hypothesis dropped.

* `NoFalseLeak`, for any threads, if the program neither resizes blocks nor calls
  `muntrace()` (`Plain`): `realloc()` records the old address, and a block freed
  while capturing is off stays on record. The invariant says that a live block
  is held or on its way to the program in one call (`Possession`), that a call
  records the block it hands over (`Paths`), and that nothing is on record, nor
  on its way there, before capturing is on (`NotYetOn`).
* `FinalReport`, for a program with one thread (`OneThread`; with more, a call of
  `mtrace()` may overtake `exit()`): the loop of `report()` has added up what the
  stacks it passed hold (`Summed`), in exit nothing but the handlers' path runs
  (`Leaving`), and once the last handler is done the report is that of the
  present stacks (`LastReport`).
* `CountIsExact`, `HeldIsRecorded` and how far `BytesExact` is off
  (`BytesMissFirst`, which `MemLeakProofs` states: by one request), for one thread that is plain,
  whose library calls succeed and whose stacks have keys other than 0
  (`Sequential`): two threads may reuse an address between libc's `free()` and
  the tracker's, a failed call records or drops `nullptr`, and blocks under the
  key 0 are never uncounted. The invariant `Balanced` says of the records and the
  stacks that every count is the number of its records and every sum is that of
  its records less one request (modulo 2^w), give or take the one block that the
  present call has in one map only. Its lemmas say how a record and a stack's
  entry made, changed or erased keep the balance; they rest on `SumTheorems` and
  on sums modulo 2^w. `HeldIsRecorded` also takes `MtraceInit`, capturing from
  the start.

`ImplementsLedger` is proved for every program and any number of threads. The
ledger lags behind or runs ahead of the two maps by the one block that the
lock's owner is at (`Totals`), so each statement's effect on `Totals` has to be
undone or completed exactly: no entry is empty (`Positive`), an entry that counts only the
block being recorded is as its constructor left it, whose bytes were not added
(`Newest`), bytes added and taken off again modulo 2^w are those there were
(`WrapBack`), and by `StacksCover` a record taken out still has its stack. What
`report()` stores is the sum of what the stacks hold (`Summed`, here for any
threads). `Asked` says that the size and the call stack a call is about to
record are ones the program asked for.

`LockProofs` — of `SharedMutex`: types, `RefcountMeaning`, `NoDataRace`,
`ImplementsRWLock`. The inductive invariant adds: a thread comes after its own
accesses (`KnowsOwn`); without a writer inside, the atomic carries every write
and every read of those who have left (`Published`); `lock_shared()` never
swaps from −1 (`Loaded`). A writer that finds 0 therefore joins everything. The
refinement is the step simulation of the same case analysis.

And of `Spinlock`, as the instance `Spin`: types, `Exclusion`, `CounterRaceFree`, with
`SpinKnowsOwn` and: a clear flag carries every access (`SpinPublished`).

`LruArrayProofs` — `TypeOK`, `Consistent`, `ImplementsLRUMap`. Beyond the two indexes' agreement the
invariant says that no item is in the index by time twice and that different
keys have different places: only then does erasing the first match erase the
item, and replacing one free exactly its place. `Others` is what is left when a
key is taken out, `PutStep` what comes of putting one in; all three cases of
`push()` are the two together. The lemmas before them say what `InsertAt` and
`RemoveAt` do to a sequence without repetitions. That there are as many keys as
items follows at the end, from the bijection of keys and places. For the
refinement, `ByTime` says that no item is newer than the clock while that was
not set back: then `insert()` puts the new item last (`InsertLast`), the others
keep their places and so their values (`PushLast`), and the item erased is the
one the map takes out.

`MTraceProofs` — `NoRelock`, `HooksInstalled`, `NoFalseLeak`, for `Restarts = FALSE`. The
invariant follows every thread's stack of nested calls: only the top one may
hold the lock, those below it are tracing (`Waiting`), and for the lock's
holder `HolderOK` says how far the hooks have been taken out or put back. A
nested hook never waits for the lock below it, since tracing comes before the
lock or after it. For `NoFalseLeak` (`LeakInv`): until `muntrace()` a thread has
at most the program's call and one that the tracer's own work made
(`NestingOK`); a block is with the program or in the hands of one call, and
then it is live (`Possession`); and an address that the trace shows as allocated is live,
or was
released by a call that prints no release, or `realloc()` is moving the block
(`Accounted`). `free()` prints before it calls the C library, and nobody else can
be given the address in between.

`CallStackProofs` — `BaseFresh`, `NamesOpen`, `WalkComplete`. The invariant adds:
whoever is in `resolve()` has the mutex (`HoldsMutex`), so what it found in
the caches is still there (`CacheKnown`), and a frame that is not resolved yet
has no names. `WalkComplete` is inductive on its own with the types: the cell
after the last frame is never an address.

`ToolsProofs` — of the composed specification: `MessageOrdered`, `InitOnce`,
`CountsConserved`, `IndentFollows`, `OneOwner`, `NamesMatch`, `BarrierOpens`,
`SumExact`, `ScansAroundZero`, `ElapsedExact`, `LinksMatch`. Several of them have
exceptions, which the property's comment names and the theorem does not reach
beyond: emptied symbols and exchanged buffers (`NamesMatch`), assigned allocators
(`OneOwner`), guards that end out of order (`IndentFollows`), copied measurements
and failed reads (`CountsConserved`), failed thread creation and, since it is a
state invariant, whether those on their way arrive (`BarrierOpens`). The
invariants, tool by tool:

* messages: what the flag carries once it is set;
* PAPI: who is in which step of the initialisation (`Initialised`), and, of each
  thread's counters and at each place, that what the closed measurements added up
  and the open ones have counted so far is what happened of the event there
  (`Conserved`);
* indenting: each guard's saved level is what the guards below it give (`Chained`);
* the pool: lists have no repetitions and share nothing (`Disjoint`), and every
  item is somewhere (`Everywhere`);
* symbols: every object has the address it was given, or was emptied (`Given`),
  and names that are those of its address, wherever they are kept (`Named`);
* workers: who has arrived at a barrier is what the threads' positions say, and
  nobody is behind a barrier before the last one reaches it (`Together`,
  `Started`);
* their sum: it is what it was before the call (`Base`) and what each has added
  (`Shares`, from the loops it has done), a read under the mutex still being the
  sum (`Places`); `Resting` says what `main()` finds from phase to phase. Reading
  and storing apart only bounds the sum (`Bounds`): a worker's second store
  writes at least two more than there were, and the last store is nobody's first,
  so at least two additions of a call stay. The assumptions are finitely many
  workers, at least one, that `NoThread` is not one of them, and the examples'
  own programs and bodies;
* enumerators: the count so far is that of the values visited (`ScanInv`);
* chrono: an accumulator and its running measurements add up to what its memory
  held, what it was given and what its measurements have run (`Exact`);
* coroutines: who awaits is linked both ways with one task that has begun, which
  it also holds (`Linked`), and nobody else holds a link down; what has not begun
  holds nothing (`Held`). That the stack ends (`Ends`) is what lets the walk for
  a scheduler succeed: it is said of sets, since every nonempty set of begun
  tasks has one whose parent is outside. `Waits` and `Serves` tie schedulers to those who
  wait: without misuse all of a stack is due to one scheduler, and of the
  stacks that are due to it there is one, with one end, so nobody else can be
  registered when data is awaited. The assumptions are that `nullptr` is neither a coroutine
  nor a scheduler and that `spawn_task()`'s coroutines are its own.

`MallocHooksProofs` — `NeverRelocks`, `HeldIsNoted`. Whoever is between lock and
unlock is the lock's holder (`Locked`). For `NeverRelocks`, as long as switching
has not raced (`Quiet`): the saved hooks are the C library's; while capturing is off
and nobody is about to switch it on, so are all hooks, and no thread is in one
(`StaysOff`); a call has taken out as many hooks as it has stored, and before it
calls the old one these are all that the C library may go by (`PutOut`); and
nobody else is in `mtrace()`'s stores beside one who is, nor in a hook beside
`muntrace()`'s (`Alone`). For `HeldIsNoted`, switching raced or not: a block in a call's hands is
live, and neither the program nor another call has it (`Apart`), which is why
noting it is not too late.

`SumTheorems` — what the proofs about counts and sums use: the sum of a function
over a finite set gains a summand with a new member, loses it with one taken
out, and depends on nothing but the summands. The community module's definition
is a recursive function over subsets; in place of an induction theorem, the
proofs take a least subset for which a lemma would fail.

Only model-checked: liveness (`CallsReturn`, `Granted`, `Finishes`), which the
provers do not reach.

## 6. Findings

Each is a run that TLC ends with a counterexample; `PROJECT.json` quotes the
line that says otherwise.

1. `realloc()` (`memleak_realloc`): the hook of `api_hooks.cpp` passes the old block
   where the tracker expects the new one; a moved block has no record.
2. The same in `mtrace_hooks.cpp` (`hooks_realloc`), where the comments in the call
   name the two pointers.
3. A stack's bytes lack its first block (`memleak_bytes`), against the comment on
   `num_bytes`; with it, a stack with one new block is missing from "Leaks since
   previous report". The total wraps when a larger first block is freed before the
   others, which the assertion `num_bytes >= 0L` of an unsigned number (:217) cannot
   see. How much is missing is proved (`StacksMissOneRequest`).
4. `lock_shared()`'s assertion (`sharedmutex_assert`) fails for a second
   reader.
5. libmtrace's `realloc()` (`mtrace_realloc`) prints the release of a moved block
   after libc has released it: another thread may have been given and have
   printed the address, and its block then looks released.
6. An accumulator's sum has no initial value (`chrono_start`), though the example
   in the comment expects the measured times alone.

Met while modelling; the models do what the code does, and the properties are
stated around it:

* `free()` gives the block to libc before it erases the record
  (`api_hooks.cpp:160`): another thread may record the address in between, and
  the late call erases that record. `HeldIsRecorded` is checked for one thread.
* Blocks of a stack whose key is 0 are never uncounted: `free()` takes the key for
  "no record" (`report.cpp:209`). `CountIsExact` leaves this key out.
* If an event cannot be added, the counts of those after it are printed under the
  names of the ones before (`papi.hpp:377`, `print()`). `CountsConserved` speaks of
  the places of the sums, not of the names.
* `count()` scans |Vmin| + |Vmax| values (`enum_tools.hpp:115`), for [1, 3) those of
  1..4. `ScansAroundZero` speaks of intervals with 0 in them or at an end.
* `mtrace()` called while `exit()` runs the handlers may leave capturing on after
  the last of them (`FinalReport` is checked for one thread).
* An array whose clock is set back replaces its newest item. A trace restarted
  after `muntrace()` may lock itself (section 3). Two first calls of
  `mtrace_hooks.cpp`'s `mtrace()` at once do the same, and so does a hook that
  `muntrace()` overlaps and that puts itself back (`raced`). A `munmap()` noted
  after its mapping was given out again takes the other block's record (`late`).
* An assigned pool allocator hands out the items of the other a second time
  (`assigned`); guards that end out of order leave the wrong level (`crossed`).
* `call_stack.hpp`: `crbegin()` (:164) skips the last frame, and `crend()` (:166)
  has no `return`; nobody calls them, and the model has forward iterators only.
  Copying a `symbol_info` empties the original (:236). On Windows the temporary
  of `it++` shows the next frame's names.
* `glibc_call_stack.hpp`: the static that remembers whether the executable is
  position independent is set before what may throw (:452); a bfd that failed to
  open is closed by its `shared_ptr` all the same (:370).
* `papimove1.cpp` reads only the elements `main()` put there, after its workers
  added more. `lockfree1.cpp:34` calls "Wrong" an addition that is atomic;
  `barrier1.cpp`'s static sum goes on from call to call.

## 7. Not modelled

* The per-frame report (the second half of `report()`, `call_stack_stats`): sums
  in local variables over data that `MemLeak` abstracts to keys; no later step
  reads them.
* The CRC-32 of a stack: a pure function read from a table of 256 constants. Its
  collisions are in the model, as blocks of different stacks under one key.
* CPU, debugger and profiler helpers, examples and benchmarks without shared
  state: nothing that steps could put out of order.
* In part: DbgHelp's library object and the exception stacks of `callstack`; the
  statistics of `chrono_stats.hpp`, `stats.hpp` and `papi_stats.hpp`, which are
  Boost's; PAPI's tables of event names; the text conversions of
  `enum_tools.hpp`, done at compile time.
* For good: unwinding, symbol lookup and demangling (libbfd, libunwind, the
  Windows API), PAPI itself, the Relacy scheduler, and the scripts.
