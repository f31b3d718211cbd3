------------------------------- MODULE CoroStack -------------------------------
(***************************************************************************)
(* The stack of coroutines (coroutines/corostack.hpp) under the tasks and  *)
(* the scheduler of varia/examples/coroutines/corowalk.cpp.  A task starts *)
(* when it is awaited and transfers control back when it returns; links    *)
(* between the promises of who awaits whom are what a debugger walks, and  *)
(* what GetData follows to find the scheduler.  One thread runs them all.  *)
(***************************************************************************)
EXTENDS Integers, FiniteSets

CONSTANTS
  Roots,       \* coroutines of spawn_task()
  Tasks,       \* coroutines of the program's Async functions
  Schedulers,
  Nobody,      \* nullptr
  Shared,      \* whether two spawned tasks may have the same scheduler
  MaxOps       \* bound: how many tasks are made and how often data is awaited

Coros == Roots \cup Tasks

VARIABLES
  status,      \* "none", "created", "running", "awaiting", "waiting" or "done"
  owner,       \* whose frame (or main(), Nobody) holds the Async object
  parent,      \* coroframe::_parent
  child,       \* coroframe::_child
  handle,      \* promise_base::parentHandle
  sched,       \* promise_base::scheduler
  toResume,    \* Scheduler::to_resume
  proc,        \* "running", "asserted" or "crashed"
  misused,     \* history: a task was awaited twice, a scheduler shared, or a
               \* result given up while its task waited for data
  ops

links == <<parent, child, handle>>
vars == <<status, owner, links, sched, toResume, proc, misused, ops>>

Init ==
  /\ status = [c \in Coros |-> "none"]
  /\ owner = [c \in Coros |-> Nobody]
  /\ parent = [c \in Coros |-> Nobody] /\ child = parent /\ handle = parent
  /\ sched = [c \in Coros |-> Nobody]
  /\ toResume = [s \in Schedulers |-> Nobody]
  /\ proc = "running" /\ misused = FALSE /\ ops = 0

Run(c) == proc = "running" /\ status[c] = "running"

\* Control is with main().
InMain == proc = "running" /\ \A c \in Coros : status[c] # "running"

\* A frame and the frames of the tasks it holds: the smallest set with c that
\* whatever a member holds is in.
Frames(c) ==
  {d \in Coros :
     /\ status[d] # "none"
     /\ \A S \in SUBSET Coros : c \in S /\ (\A x \in Coros : owner[x] \in S => x \in S) => d \in S}

\* What ~Async() and ~AsyncResult() leave of these frames, once the statuses
\* `now' are reached.
Destroy(gone, now) ==
  LET Reset(f, none) == [c \in Coros |-> IF c \in gone THEN none ELSE f[c]] IN
  /\ status' = Reset(now, "none")
  /\ owner' = Reset(owner, Nobody)
  /\ parent' = Reset(parent, Nobody) /\ handle' = Reset(handle, Nobody)
  /\ sched' = Reset(sched, Nobody)

-----------------------------------------------------------------------------

\* An Async function is called, by main() or by a coroutine: its promise is
\* made and nothing of its body runs.
Create(d, by) ==
  /\ IF by = Nobody THEN InMain ELSE Run(by)
  /\ ops < MaxOps /\ ops' = ops + 1
  /\ status[d] = "none"
  /\ status' = [status EXCEPT ![d] = "created"]
  /\ owner' = [owner EXCEPT ![d] = by]
  /\ UNCHANGED <<links, sched, toResume, proc, misused>>

\* on_await_suspend()
Link(c, d) == parent' = [parent EXCEPT ![d] = c] /\ child' = [child EXCEPT ![c] = d]

\* Coroutine c awaits task d, whose body starts: on_await_suspend()'s assertions
\* look at both ends of the link.
Await(c, d, now) ==
  IF parent[d] # Nobody \/ child[c] # Nobody
  THEN proc' = "asserted" /\ UNCHANGED <<status, links>>
  ELSE /\ Link(c, d)
       /\ handle' = [handle EXCEPT ![d] = c]
       /\ status' = [now EXCEPT ![c] = "awaiting", ![d] = "running"]
       /\ UNCHANGED proc

CoAwait(c, d) ==
  /\ Run(c)
  /\ owner[d] = c /\ status[d] \in {"created", "done"} /\ c \notin Roots
  /\ Await(c, d, status)
  /\ misused' = (misused \/ status[d] = "done")
  /\ UNCHANGED <<owner, sched, toResume, ops>>

\* spawn_task(): gives the task its scheduler and awaits it, at once.
Spawn(r, d, s) ==
  /\ InMain
  /\ status[r] = "none" /\ status[d] = "created" /\ owner[d] = Nobody
  /\ LET shared == \E c \in Coros : sched[c] = s IN
       /\ shared => Shared
       /\ misused' = (misused \/ shared)
  /\ owner' = [owner EXCEPT ![d] = r]
  /\ sched' = [sched EXCEPT ![d] = s]
  /\ Await(r, d, status)
  /\ UNCHANGED <<toResume, ops>>

\* The coroutines from c up the stack to the first that has a scheduler: the
\* smallest set with c that goes on from members without one to their parents.
Upwards(c) ==
  {d \in Coros :
     \A S \in SUBSET Coros :
       c \in S /\ (\A x \in S : sched[x] = Nobody /\ parent[x] # Nobody => parent[x] \in S) => d \in S}

\* That first one, if there is one.
HasScheduler(c) == {x \in Upwards(c) : sched[x] # Nobody}

Propagate(c, s) ==
  LET up == Upwards(c) IN sched' = [x \in Coros |-> IF x \in up THEN s ELSE sched[x]]

\* co_await GetData{}
GetData(c) ==
  /\ Run(c) /\ c \notin Roots
  /\ ops < MaxOps /\ ops' = ops + 1
  /\ \/ /\ HasScheduler(c) = {}
        /\ proc' = "asserted" /\ UNCHANGED <<status, sched, toResume>>
     \/ \E x \in HasScheduler(c) :
          LET s == sched[x] IN
            /\ Propagate(c, s)
            /\ IF toResume[s] # Nobody
               THEN proc' = "asserted" /\ UNCHANGED <<status, toResume>>
               ELSE /\ toResume' = [toResume EXCEPT ![s] = c]
                    /\ status' = [status EXCEPT ![c] = "waiting"]
                    /\ UNCHANGED proc
  /\ UNCHANGED <<owner, links, misused>>

\* resumeWithData(): the coroutine reads the value through its own scheduler
\* pointer.
ResumeWithData(s) ==
  /\ InMain /\ toResume[s] # Nobody
  /\ toResume' = [toResume EXCEPT ![s] = Nobody]
  /\ LET c == toResume[s] IN
       IF status[c] = "waiting" /\ sched[c] # Nobody
       THEN status' = [status EXCEPT ![c] = "running"] /\ UNCHANGED proc
       ELSE proc' = "crashed" /\ UNCHANGED status
  /\ UNCHANGED <<owner, links, sched, misused, ops>>

\* Mutant: await_resume() leaves the child linked.
UnlinkNot(p) == UNCHANGED child

\* on_await_resume(): the parent forgets its child, which keeps its own link.
Unlink(p) == child' = [child EXCEPT ![p] = Nobody]

\* Mutant: final_suspend() returns to whoever resumed the task.
ResumeNobody(c) == Nobody

\* Where final_suspend() transfers control.
ResumeCaller(c) == handle[c]

\* co_return: the tasks the body still holds are destroyed, and the parent goes
\* on behind its co_await.
Return(c) ==
  /\ Run(c) /\ c \notin Roots
  /\ LET p == ResumeCaller(c)
         now == [x \in Coros |-> IF x = c THEN "done" ELSE IF x = p THEN "running" ELSE status[x]]
     IN  /\ Destroy(Frames(c) \ {c}, now)
         /\ IF p = Nobody THEN UNCHANGED child ELSE Unlink(p)
  /\ UNCHANGED <<toResume, proc, misused, ops>>

\* spawn_task() returns its task's result to the AsyncResult.
Deliver(r) ==
  /\ Run(r) /\ r \in Roots
  /\ status' = [status EXCEPT ![r] = "done"]
  /\ UNCHANGED <<owner, links, sched, toResume, proc, misused, ops>>

\* The end of the expression, or scope, that holds a task that is not running.
Drop(c, d) ==
  /\ Run(c) /\ owner[d] = c /\ status[d] \in {"created", "done"} /\ c \notin Roots
  /\ Destroy(Frames(d), status)
  /\ UNCHANGED <<child, toResume, proc, misused, ops>>

\* main() lets go of an AsyncResult, finished or not.
DropResult(r) ==
  /\ InMain /\ r \in Roots /\ status[r] # "none"
  /\ LET gone == Frames(r) IN
       /\ Destroy(gone, status)
       /\ child' = [c \in Coros |-> IF c \in gone THEN Nobody ELSE child[c]]
       /\ misused' = (misused \/ \E s \in Schedulers : toResume[s] \in gone)
  /\ UNCHANGED <<toResume, proc, ops>>

Finished == InMain /\ ops = MaxOps /\ UNCHANGED vars
Stopped == proc # "running" /\ UNCHANGED vars

\* A coroutine's own steps, and main()'s.
Body == \E c \in Coros :
  \/ \E d \in Tasks : Create(d, c) \/ CoAwait(c, d) \/ Drop(c, d)
  \/ GetData(c) \/ Return(c) \/ Deliver(c)

Next ==
  \/ Body
  \/ \E s \in Schedulers : ResumeWithData(s)
  \/ \E d \in Tasks : Create(d, Nobody) \/ \E r \in Roots, s \in Schedulers : Spawn(r, d, s)
  \/ \E r \in Roots : DropResult(r)
  \/ Finished \/ Stopped

Spec == Init /\ [][Next]_vars

\* Coroutine bodies end, and the data that is waited for arrives.
Fairness == WF_vars(Body) /\ \A s \in Schedulers : WF_vars(ResumeWithData(s))
-----------------------------------------------------------------------------

\* The links are the stack of awaits: each coroutine that awaits is linked,
\* both ways, with the one task it awaits, and no other links down remain; a
\* coroutine waiting for data will read it from the scheduler that wakes it.
\* No assertion fails and nothing dangles unless the program awaits a task
\* twice, shares a scheduler or gives up a result that is still awaited.
LinksMatch ==
  /\ proc # "running" => misused
  /\ proc = "running" =>
       \A c \in Coros :
         /\ status[c] = "awaiting" <=> child[c] # Nobody
         /\ child[c] # Nobody => parent[child[c]] = c /\ handle[child[c]] = c
         /\ status[c] \in {"running", "awaiting", "waiting"} /\ c \in Tasks => child[parent[c]] = c
         /\ status[c] = "waiting" => sched[c] # Nobody /\ toResume[sched[c]] = c

\* A spawned task delivers its result, however its coroutines call each other
\* and wait, unless the program is misused or the result given up.
Finishes ==
  \A r \in Roots : status[r] = "awaiting" ~> status[r] # "awaiting" \/ proc # "running"
==============================================================================
