------------------------------- MODULE Workers -------------------------------
(***************************************************************************)
(* The measured functions of the examples: a function starts its worker    *)
(* threads, which wait for each other on a barrier, loop, and wait for     *)
(* each other again, and joins them when its vector of jthreads goes.      *)
(* The workers add to one sum (chrono/examples/barrier1.cpp,               *)
(* lockfree1.cpp, benchmark/mutex-lockfree-waitfree.cpp) or write to the   *)
(* vector main() then reads (papi/examples/papimove1.cpp to papimove4.cpp, *)
(* chrono/examples/stats.cpp).                                             *)
(***************************************************************************)
EXTENDS Naturals, Sequences, FiniteSets

CONSTANTS
  Workers,    \* the threads: numThreads
  NoThread,
  Loops,      \* loops of a worker
  Programs,   \* what main() does: "sum", "emplace" (papimove1), "churn"
              \* (papimove2, papimove3) or "timed" (papimove4, stats)
  Bodies,     \* how a sum is added to: "plain" and "static" (barrier1), "atomic"
              \* and "local" (lockfree1), "cas", "fetch" and "mutex" (the benchmark)
  Rounds      \* bound: how often main() runs its phases

VARIABLES
  program, body,
  phase,      \* main()'s next phase, and its round
  round,
  main,       \* main(): "phase", "spawn", "sleep", "join", "ended" or "thrown"
  failed,     \* a thread could not be created
  at,         \* each worker: "none", "created", "atstart", "loop", "loaded",
              \* "locked", "add", "leave", "atstop" or "done"
  left,       \* loops each has to go
  loaded,     \* the value each has read
  local,      \* each one's localSum
  mtx,        \* holder of mtx
  stopFlag,
  sum         \* finalSum, or the number of elements of the vector

mainVars == <<program, body, phase, round, main, failed, stopFlag>>
workerVars == <<at, left, loaded, local, mtx>>
vars == <<mainVars, workerVars, sum>>

\* One round of each main(): papimove1 adds to a filled vector, the others
\* change a filled one, papimove4 and stats with a vector read beforehand.
SumPhases == <<"fill">>
EmplacePhases == <<"clear", "prefill", "read", "fill", "read">>
ChurnPhases == <<"clear", "prefill", "fill", "read", "clear">>
TimedPhases == <<"clear", "prefill", "read", "clear", "clear", "prefill", "fill", "read", "clear">>

Phases ==
  CASE program = "sum"     -> SumPhases
    [] program = "emplace" -> EmplacePhases
    [] program = "churn"   -> ChurnPhases
    [] program = "timed"   -> TimedPhases

VecSize == 2

\* The sums that are static: they go on where the last call left them.
Statics == {"static", "cas", "fetch", "mutex"}

Init ==
  /\ program \in Programs
  /\ body \in CASE program = "sum" -> Bodies [] program = "emplace" -> {"emplace"} [] OTHER -> {"churn"}
  /\ phase = 1 /\ round = 1 /\ main = "phase" /\ failed = FALSE
  /\ at = [t \in Workers |-> "none"]
  /\ left = [t \in Workers |-> 0] /\ loaded = left /\ local = left
  /\ mtx = NoThread /\ stopFlag = FALSE
  /\ sum = 0

Goto(t, pc) == at' = [at EXCEPT ![t] = pc]

-----------------------------------------------------------------------------
(***************************************************************************)
(* main()                                                                  *)
(***************************************************************************)

NextPhase ==
  IF phase < Len(Phases) THEN phase' = phase + 1 /\ UNCHANGED round /\ main' = "phase"
  ELSE /\ phase' = 1 /\ round' = round + 1
       /\ main' = IF round = Rounds THEN "ended" ELSE "phase"

\* What main() does with the vector by itself: it empties it, adds vecSize
\* elements, reads the first vecSize.
UseVector ==
  /\ main = "phase" /\ Phases[phase] # "fill"
  /\ sum' = CASE Phases[phase] = "clear"   -> 0
              [] Phases[phase] = "prefill" -> sum + VecSize
              [] Phases[phase] = "read"    -> sum
  /\ NextPhase
  /\ UNCHANGED <<program, body, failed, stopFlag, workerVars>>

Fill ==
  /\ main = "phase" /\ Phases[phase] = "fill"
  /\ main' = "spawn"
  /\ stopFlag' = FALSE
  /\ at' = [t \in Workers |-> "none"]
  /\ sum' = IF program = "sum" /\ body \notin Statics THEN 0 ELSE sum
  /\ UNCHANGED <<program, body, phase, round, failed, left, loaded, local, mtx>>

\* emplace_back(worker, ...): when it throws, those there are get joined.
Spawn(t) ==
  /\ main = "spawn" /\ at[t] = "none"
  /\ \/ /\ Goto(t, "created")
        /\ left' = [left EXCEPT ![t] = Loops]
        /\ local' = [local EXCEPT ![t] = 0]
        /\ UNCHANGED <<main, failed>>
     \/ failed' = TRUE /\ main' = "join" /\ UNCHANGED <<at, left, local>>
  /\ UNCHANGED <<program, body, phase, round, loaded, mtx, stopFlag, sum>>

\* All are there; the churning functions sleep, and tell their workers to stop.
Spawned ==
  /\ main = "spawn" /\ \A t \in Workers : at[t] # "none"
  /\ main' = IF body = "churn" THEN "sleep" ELSE "join"
  /\ UNCHANGED <<program, body, phase, round, failed, workerVars, stopFlag, sum>>

Stop ==
  /\ main = "sleep"
  /\ stopFlag' = TRUE /\ main' = "join"
  /\ UNCHANGED <<program, body, phase, round, failed, workerVars, sum>>

\* ~vector<jthread>()
Join ==
  /\ main = "join" /\ \A t \in Workers : at[t] \in {"none", "done"}
  /\ IF failed THEN main' = "thrown" /\ UNCHANGED <<phase, round>> ELSE NextPhase
  /\ UNCHANGED <<program, body, failed, stopFlag, workerVars, sum>>

-----------------------------------------------------------------------------
(***************************************************************************)
(* The workers.                                                            *)
(***************************************************************************)

\* Mutant: the barrier opens for the first who arrives.
OpensAlways(here, waiting) == TRUE

\* std::barrier startSync(numThreads): the last to arrive lets all go.
Opens(here, waiting) == \A t \in Workers : at[t] = waiting \/ t = here

Arrive(t, waiting, next) ==
  IF Opens(t, waiting)
  THEN at' = [u \in Workers |-> IF at[u] = waiting \/ u = t THEN next ELSE at[u]]
  ELSE Goto(t, waiting)

Start(t) ==
  /\ at[t] = "created"
  /\ Arrive(t, "atstart", "loop")
  /\ UNCHANGED <<mainVars, left, loaded, local, mtx, sum>>

More(t) == IF body = "churn" THEN ~stopFlag ELSE left[t] > 0

\* The end of the loop: papimove1's workers have no second barrier, and
\* lockfree1's mutexed() adds its local sum behind the loop.
EndLoop(t) ==
  /\ at[t] = "loop" /\ ~More(t)
  /\ IF body = "emplace" THEN Goto(t, "done")
     ELSE IF body = "local" THEN Goto(t, "add")
     ELSE Arrive(t, "atstop", "done")
  /\ UNCHANGED <<mainVars, left, loaded, local, mtx, sum>>

Leave(t) ==
  /\ at[t] = "leave"
  /\ Arrive(t, "atstop", "done")
  /\ UNCHANGED <<mainVars, left, loaded, local, mtx, sum>>

\* finalSum = finalSum + 1 and finalSum.store(finalSum.load() + 1) are a read
\* and a write, in any memory order; so is the load before an exchange.
Load(t) ==
  /\ at[t] = "loop" /\ More(t) /\ body \in {"plain", "static", "cas"}
  /\ loaded' = [loaded EXCEPT ![t] = sum]
  /\ Goto(t, "loaded")
  /\ UNCHANGED <<mainVars, left, local, mtx, sum>>

Store(t) ==
  /\ at[t] = "loaded" /\ body \in {"plain", "static"}
  /\ sum' = loaded[t] + 1
  /\ left' = [left EXCEPT ![t] = @ - 1]
  /\ Goto(t, "loop")
  /\ UNCHANGED <<mainVars, loaded, local, mtx>>

\* Mutant: what is expected is not compared.
ExpectedAlways(t) == TRUE

\* compare_exchange_strong()'s comparison; it reloads what it finds instead.
Expected(t) == sum = loaded[t]

Exchange(t) ==
  /\ at[t] = "loaded" /\ body = "cas"
  /\ IF Expected(t)
     THEN /\ sum' = loaded[t] + 1 /\ left' = [left EXCEPT ![t] = @ - 1]
          /\ Goto(t, "loop") /\ UNCHANGED loaded
     ELSE loaded' = [loaded EXCEPT ![t] = sum] /\ UNCHANGED <<sum, left, at>>
  /\ UNCHANGED <<mainVars, local, mtx>>

\* lockfree1 sums up the loops' indices, the benchmark counts.
Addend(t) == IF body = "fetch" THEN 1 ELSE Loops - left[t]

\* finalSum += i and fetch_add()
FetchAdd(t) ==
  /\ at[t] = "loop" /\ More(t) /\ body \in {"atomic", "fetch"}
  /\ sum' = sum + Addend(t) /\ left' = [left EXCEPT ![t] = @ - 1]
  /\ UNCHANGED <<mainVars, at, loaded, local, mtx>>

AddLocal(t) ==
  /\ at[t] = "loop" /\ More(t) /\ body = "local"
  /\ local' = [local EXCEPT ![t] = @ + Addend(t)] /\ left' = [left EXCEPT ![t] = @ - 1]
  /\ UNCHANGED <<mainVars, at, loaded, mtx, sum>>

\* lock_guard: around one increment, one element, or the local sum.
Lock(t) ==
  /\ \/ at[t] = "loop" /\ More(t) /\ body \in {"mutex", "emplace", "churn"}
     \/ at[t] = "add"
  /\ mtx = NoThread /\ mtx' = t
  /\ loaded' = [loaded EXCEPT ![t] = sum]
  /\ Goto(t, "locked")
  /\ UNCHANGED <<mainVars, left, local, sum>>

\* A churning worker replaces an element, the others add.
Gain(t) ==
  CASE body = "local" -> local[t]
    [] body = "churn" -> 0
    [] OTHER          -> 1

Unlock(t) ==
  /\ at[t] = "locked"
  /\ mtx' = NoThread
  /\ sum' = loaded[t] + Gain(t)
  /\ left' = IF body \in {"local", "churn"} THEN left ELSE [left EXCEPT ![t] = @ - 1]
  /\ Goto(t, IF body = "local" THEN "leave" ELSE "loop")
  /\ UNCHANGED <<mainVars, loaded, local>>

\* main() is over, or waits for workers that wait for one that never came.
Finished ==
  /\ \/ main \in {"ended", "thrown"}
     \/ failed /\ \A t \in Workers : at[t] \in {"none", "atstart"}
  /\ UNCHANGED vars

Next ==
  \/ UseVector \/ Fill \/ Spawned \/ Stop \/ Join
  \/ \E t \in Workers :
       \/ Spawn(t) \/ Start(t) \/ EndLoop(t) \/ Leave(t) \/ Load(t) \/ Store(t) \/ Exchange(t)
       \/ FetchAdd(t) \/ AddLocal(t) \/ Lock(t) \/ Unlock(t)
  \/ Finished

Spec == Init /\ [][Next]_vars
-----------------------------------------------------------------------------

\* A fill has returned and main() goes on: nothing has been added since.
Filled ==
  /\ main \in {"phase", "ended"}
  /\ \E i \in 1 .. Len(Phases) :
       Phases[i] = "fill" /\ (i < phase \/ (i = Len(Phases) /\ phase = 1 /\ round > 1))

Total == Loops * Cardinality(Workers)
Triangle == Cardinality(Workers) * ((Loops * (Loops - 1)) \div 2)
AtLeast == IF Loops < 2 \/ Cardinality(Workers) = 1 THEN Loops ELSE 2

\* When a measured function returns, its workers are done and have added
\* everything, whichever way it counts, calls before it to a static sum
\* included; only the plain sum, and the load and store of an atomic
\* ("Obviously an incorrect end value"), lose additions, down to two per call
\* whatever the number of loops: `mutexed' and `lockfree' sum up alike, and a
\* vector holds what all its producers put into it, and whenever main() reads
\* the first vecSize elements, as many are there.
SumExact ==
  /\ main = "phase" /\ Phases[phase] = "read" => sum >= VecSize
  /\ Filled =>
    /\ \A t \in Workers : at[t] = "done"
    /\ CASE body = "plain"   -> sum \in AtLeast .. Total
         [] body = "static"  -> sum \in AtLeast * (round - 1) .. Total * (round - 1)
         [] body \in {"cas", "fetch", "mutex"} -> sum = Total * (round - 1)
         [] body \in {"atomic", "local"} -> sum = Triangle
         [] body = "emplace" -> sum = VecSize + Total
         [] body = "churn"   -> sum = VecSize

\* No worker adds before all of them have come to the start, and none is done
\* while another is still adding; while someone waits, someone else is on the
\* way, unless a thread could not be created, when all that were wait for ever.
BarrierOpens ==
  LET Before == {t \in Workers : at[t] \in {"none", "created", "atstart"}}
      Waiting == {t \in Workers : at[t] \in {"atstart", "atstop"}}
      Done == {t \in Workers : at[t] = "done"}
  IN
  /\ Before \in {{}, Workers}
  /\ Done \in {{}, Workers} \/ body = "emplace"
  /\ Waiting # {} => Waiting # Workers
  /\ Waiting # {} /\ ~failed => main = "spawn" \/ \E t \in Workers \ Waiting : at[t] \notin {"none", "done"}
==============================================================================
