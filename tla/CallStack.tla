------------------------------- MODULE CallStack -------------------------------
(***************************************************************************)
(* Call stacks and their symbols (callstack/call_stack.hpp and             *)
(* detail/glibc_call_stack.hpp): threads capture stacks and print them     *)
(* frame by frame; each frame's address is given to dladdr() and then to   *)
(* bfd::library, which keeps one open bfd and one base address per binary  *)
(* file until it is told to flush them.  Meanwhile the program loads and   *)
(* unloads modules.                                                        *)
(***************************************************************************)
EXTENDS Integers, Sequences, SequencesExt

CONSTANTS
  Threads,
  Modules,      \* the binary files of the process
  Exe,          \* the executable's, mapped for ever
  Pie,          \* whether it is position independent
  Bases,        \* where a module may be mapped, in some order
  Start,        \* where each is at first, 0 when it is nowhere
  MaxDepth,     \* call_stack's MaxDepth
  None,         \* no name, no address
  DepthWord,    \* the word after a full stack's last frame, its depth
  NoThread,
  Fails,        \* the files that may be missing, unreadable or no object
  MaxMoves,     \* bound: how often modules are loaded and unloaded
  MaxFlushes,   \* bound: how often the program calls flush_cached_data()
  MaxWalks      \* bound: how many frames, and ends of stacks, are printed

VARIABLES
  mapped,   \* /proc/<pid>/maps: where each module is now
  moved,    \* modules loaded or unloaded since the last flush
  syms,     \* library::_syms: file -> [base, bfd]
  vmas,     \* library::_vmas: file -> base
  opened,   \* how many bfds have been opened: the number of the last one
  mutex,    \* library::_lib_mutex
  walk,     \* each thread: the stack it prints and where it is
  proc,     \* "running" or "terminated"
  moves, flushes, walks

bounds == <<moves, flushes, walks>>
vars == <<mapped, moved, syms, vmas, opened, mutex, walk, proc, bounds>>

-----------------------------------------------------------------------------

\* An address in a module's code, while the module is mapped at base.
Address == [file : Modules, base : Bases]

\* Beyond the frames of a stack are the null frames it was made with, and
\* beyond its last place the word that holds its depth.
Cell(stack, i) ==
  IF i <= Len(stack) THEN stack[i] ELSE IF i <= MaxDepth THEN None ELSE DepthWord

\* A resolved frame: its address, the file dladdr() found it in and the bfd its
\* names point into, 0 for none; flushed: the cache has been flushed since.
Symbol(addr, file) == [addr |-> addr, file |-> file, bfd |-> 0, flushed |-> FALSE]

\* A walk over a stack: with operator<< or with call_stack_info's iterators.
Walk(pc, way, stack) ==
  [pc |-> pc, way |-> way, stack |-> stack, pos |-> 1, sym |-> Symbol(None, None),
   base |-> 0, printed |-> << >>]
Idle == Walk("app", "stream", << >>)

Goto(t, pc) == walk' = [walk EXCEPT ![t].pc = pc]
At(t, pc) == walk[t].pc = pc /\ proc = "running"
File(t) == walk[t].sym.file

\* operator<< goes by the number of frames; an iterator is at the end when its
\* frame's address is the one in the cell after the last frame.
AtEnd(t) ==
  LET w == walk[t] IN
  IF w.way = "stream" THEN w.pos > Len(w.stack)
  ELSE w.sym.addr = Cell(w.stack, Len(w.stack) + 1)

\* The base /proc/<pid>/maps gives for a file; the symbols of an executable
\* that is not position independent need none.
MapBase(f) == IF f = Exe /\ ~Pie THEN 0 ELSE mapped[f]

Init ==
  /\ mapped = Start
  /\ moved = {} /\ syms = << >> /\ vmas = << >> /\ opened = 0
  /\ mutex = NoThread
  /\ walk = [t \in Threads |-> Idle]
  /\ proc = "running"
  /\ moves = 0 /\ flushes = 0 /\ walks = 0

-----------------------------------------------------------------------------
(***************************************************************************)
(* The program.                                                            *)
(***************************************************************************)

\* get_backtrace(): at most MaxDepth return addresses of mapped modules, the
\* same one again where a function calls itself; an empty stack is printed too.
Capture(t) ==
  /\ At(t, "app")
  /\ \E stack \in SeqOf({a \in Address : a.base = mapped[a.file]}, MaxDepth),
        way \in {"stream", "iterate"} :
       /\ walk' = [walk EXCEPT ![t] = Walk("frame", way, stack)]
       /\ walks' = walks + Len(stack) + 1 /\ walks' <= MaxWalks
  /\ UNCHANGED <<mapped, moved, syms, vmas, opened, mutex, proc, moves, flushes>>

\* dlclose() and dlopen().
Move(f) ==
  /\ proc = "running" /\ moves < MaxMoves /\ f # Exe
  /\ \E base \in Bases \cup {0} :
       /\ (base = 0) # (mapped[f] = 0)
       /\ base # 0 => \A g \in Modules : mapped[g] # base
       /\ mapped' = [mapped EXCEPT ![f] = base]
  /\ moved' = moved \cup {f}
  /\ moves' = moves + 1
  /\ UNCHANGED <<syms, vmas, opened, mutex, walk, proc, flushes, walks>>

Flushed(t) == [walk[t] EXCEPT !.sym.flushed = TRUE]

\* Mutant: flush_cached_data() does not wait for a resolve() that is under way.
FlushNoLock ==
  /\ proc = "running" /\ flushes < MaxFlushes
  /\ syms' = << >> /\ vmas' = << >> /\ moved' = {}
  /\ walk' = [t \in Threads |-> Flushed(t)]
  /\ flushes' = flushes + 1
  /\ UNCHANGED <<mapped, opened, mutex, proc, moves, walks>>

\* flush_cached_data(), which the program calls from any of its threads: the
\* bfds are closed and the bases forgotten.
Flush ==
  /\ proc = "running" /\ flushes < MaxFlushes
  /\ mutex = NoThread
  /\ syms' = << >> /\ vmas' = << >> /\ moved' = {}
  /\ walk' = [t \in Threads |-> Flushed(t)]
  /\ flushes' = flushes + 1
  /\ UNCHANGED <<mapped, opened, mutex, proc, moves, walks>>

-----------------------------------------------------------------------------
(***************************************************************************)
(* Resolving one frame.                                                    *)
(***************************************************************************)

\* dladdr(): the file mapped at the address now, if there is one.
Dladdr(t) ==
  /\ At(t, "frame")
  /\ walk[t].way = "stream" => ~AtEnd(t)
  /\ LET addr == Cell(walk[t].stack, walk[t].pos)
         found == addr \in Address /\ mapped[addr.file] = addr.base
     IN  walk' = [walk EXCEPT ![t].sym = Symbol(addr, IF found THEN addr.file ELSE None),
                              ![t].pc = "lock"]
  /\ UNCHANGED <<mapped, moved, syms, vmas, opened, mutex, proc, bounds>>

\* Mutant: every frame's file is opened again.
ResolveUncached(t) ==
  /\ At(t, "lock") /\ mutex = NoThread
  /\ mutex' = IF File(t) = None THEN mutex ELSE t
  /\ Goto(t, IF File(t) = None THEN "resolved" ELSE "maps")
  /\ UNCHANGED <<mapped, moved, syms, vmas, opened, proc, bounds>>

\* resolve(): nothing to do without a file, and a file is opened once.
Resolve(t) ==
  /\ At(t, "lock") /\ mutex = NoThread
  /\ mutex' = IF File(t) = None THEN mutex ELSE t
  /\ Goto(t, IF File(t) = None THEN "resolved"
             ELSE IF File(t) \in DOMAIN syms THEN "line" ELSE "maps")
  /\ UNCHANGED <<mapped, moved, syms, vmas, opened, proc, bounds>>

\* _compute_maps_base(): the base remembered for the file, or the one in the
\* maps, which is remembered if it is there.  A file that is not there any more
\* makes canonical() throw, out of symbol_info's noexcept constructor.
ComputeMapsBase(t) ==
  /\ At(t, "maps")
  /\ LET f == File(t)
         base == IF f \in DOMAIN vmas THEN vmas[f] ELSE MapBase(f)
     IN  \/ /\ vmas' = IF mapped[f] = 0 THEN vmas
                       ELSE [g \in DOMAIN vmas \cup {f} |-> IF g = f THEN base ELSE vmas[g]]
            /\ walk' = [walk EXCEPT ![t].base = base, ![t].pc = "open"]
            /\ UNCHANGED proc
         \/ File(t) \in Fails /\ proc' = "terminated" /\ UNCHANGED <<vmas, walk>>
  /\ UNCHANGED <<mapped, moved, syms, opened, mutex, bounds>>

\* Open the file and read its symbols.  One that is no object is left alone;
\* one that cannot be opened has its null bfd closed.
OpenBfd(t) ==
  /\ At(t, "open")
  /\ \/ /\ opened' = opened + 1
        /\ syms' = [g \in DOMAIN syms \cup {File(t)} |->
                      IF g = File(t) THEN [base |-> walk[t].base, bfd |-> opened'] ELSE syms[g]]
        /\ Goto(t, "line") /\ UNCHANGED <<mutex, proc>>
     \/ File(t) \in Fails /\ mutex' = NoThread /\ Goto(t, "resolved") /\ UNCHANGED <<syms, opened, proc>>
     \/ File(t) \in Fails /\ proc' = "terminated" /\ UNCHANGED <<syms, opened, mutex, walk>>
  /\ UNCHANGED <<mapped, moved, vmas, bounds>>

\* bfd_find_nearest_line() for the address less the base, if that is positive:
\* it may find nothing.  What it finds belongs to the bfd that is open now.
FindLine(t) ==
  /\ At(t, "line")
  /\ LET entry == syms[File(t)] IN
       \/ /\ File(t) \in DOMAIN syms
          /\ walk[t].sym.addr.base >= entry.base
          /\ walk' = [walk EXCEPT ![t].sym = [@ EXCEPT !.bfd = entry.bfd, !.flushed = FALSE],
                                  ![t].pc = "resolved"]
       \/ Goto(t, "resolved")
  /\ mutex' = NoThread
  /\ UNCHANGED <<mapped, moved, syms, vmas, opened, proc, bounds>>

-----------------------------------------------------------------------------
(***************************************************************************)
(* Walking a stack.                                                        *)
(***************************************************************************)

\* Mutant: operator++ does not resolve the next frame.
PrintUnresolved(t) ==
  /\ At(t, "resolved") /\ ~AtEnd(t)
  /\ walk' = [walk EXCEPT ![t].printed = Append(@, walk[t].sym.addr), ![t].pos = @ + 1,
                          ![t].pc = IF walk[t].way = "stream" THEN "frame" ELSE "resolved"]
  /\ UNCHANGED <<mapped, moved, syms, vmas, opened, mutex, proc, bounds>>

\* The frame is printed; the loop, or operator++, resolves the next one.
PrintFrame(t) ==
  /\ At(t, "resolved") /\ ~AtEnd(t)
  /\ walk' = [walk EXCEPT ![t].printed = Append(@, walk[t].sym.addr), ![t].pos = @ + 1,
                          ![t].pc = "frame"]
  /\ UNCHANGED <<mapped, moved, syms, vmas, opened, mutex, proc, bounds>>

AtLoopTest(t) == walk[t].pc = IF walk[t].way = "stream" THEN "frame" ELSE "resolved"

End(t) ==
  /\ proc = "running" /\ AtLoopTest(t) /\ AtEnd(t)
  /\ walk' = [walk EXCEPT ![t] = Idle]
  /\ UNCHANGED <<mapped, moved, syms, vmas, opened, mutex, proc, bounds>>

Finished ==
  /\ \/ proc = "terminated"
     \/ \A t \in Threads : walk[t].pc = "app"
  /\ UNCHANGED vars

Next ==
  \/ \E t \in Threads :
       \/ Capture(t) \/ Dladdr(t) \/ Resolve(t) \/ ComputeMapsBase(t) \/ OpenBfd(t)
       \/ FindLine(t) \/ PrintFrame(t) \/ End(t)
  \/ \E f \in Modules : Move(f)
  \/ Flush
  \/ Finished

Spec == Init /\ [][Next]_vars
-----------------------------------------------------------------------------

\* "This resolver could return stale data": a base address in either cache is
\* the module's, unless the module was loaded or unloaded after the last
\* flush_cached_data(), however the flush met a resolve() under way.
BaseFresh ==
  /\ \A f \in DOMAIN syms \ moved : syms[f].base = MapBase(f)
  /\ \A f \in DOMAIN vmas \ moved : vmas[f] = MapBase(f)

\* A frame's names point into the library's memory after its mutex is given
\* back: no other thread's resolve() closes the bfd they belong to.
NamesOpen ==
  \A t \in Threads : LET sym == walk[t].sym IN
     walk[t].pc = "resolved" /\ sym.bfd # 0 /\ ~sym.flushed =>
        \E f \in DOMAIN syms : syms[f].bfd = sym.bfd

\* Both ways of walking a stack print its frames, each once and in order: the
\* iterator, which tells positions apart by the addresses there, neither stops
\* early in a recursion nor runs past a stack that is full.
WalkComplete ==
  \A t \in Threads : LET w == walk[t] IN
     /\ IsPrefix(w.printed, w.stack)
     /\ AtLoopTest(t) /\ AtEnd(t) => w.printed = w.stack
     /\ w.pos <= Len(w.stack) + 1
==============================================================================
