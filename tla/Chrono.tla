-------------------------------- MODULE Chrono --------------------------------
(***************************************************************************)
(* Accumulated time (chrono.hpp): an accumulator makes measurements, each  *)
(* of which adds the time of its life to it when it is destroyed.          *)
(* Measurements overlap, and are moved; accumulators are copied.           *)
(***************************************************************************)
EXTENDS Integers, FiniteSets, Functions

CONSTANTS
  Accs,       \* accumulators
  Measures,   \* measurements
  Memory,     \* what the memory of a new accumulator may hold
  MaxTime     \* bound: how often the clock moves on, and how much is made

VARIABLES
  now,        \* the clock
  elapsed,    \* accumulator::_elapsed, of those there are
  start,      \* measurement::_start, of those there are
  to,         \* the accumulator each captures
  found,      \* history: what the memory of each held when it was made
  extra,      \* history: the sum each is a copy of, and what was added by hand
  inside,     \* history: time its measurements have run
  made

vars == <<now, elapsed, start, to, found, extra, inside, made>>

Init ==
  /\ now = 0 /\ made = 0
  /\ elapsed = << >> /\ start = << >> /\ to = << >>
  /\ found = << >> /\ extra = << >> /\ inside = << >>

With(f, x, v) == [y \in DOMAIN f \cup {x} |-> IF y = x THEN v ELSE f[y]]
Without(f, x) == [y \in DOMAIN f \ {x} |-> f[y]]
Of(a) == {m \in DOMAIN to : to[m] = a}
Count == made < MaxTime /\ made' = made + 1

-----------------------------------------------------------------------------

Tick ==
  /\ now < MaxTime /\ now' = now + 1
  /\ inside' = [a \in DOMAIN inside |-> inside[a] + Cardinality(Of(a))]
  /\ UNCHANGED <<elapsed, start, to, found, extra, made>>

\* accumulator(): _elapsed is not initialised.
MakeAccumulator(a) ==
  /\ a \notin DOMAIN elapsed /\ Count
  /\ \E v \in Memory : elapsed' = With(elapsed, a, v) /\ found' = With(found, a, v)
  /\ extra' = With(extra, a, 0) /\ inside' = With(inside, a, 0)
  /\ UNCHANGED <<now, start, to>>

\* The copy has the sum so far; the measurements go on adding to the first one.
CopyAccumulator(a, b) ==
  /\ a \in DOMAIN elapsed /\ b \notin DOMAIN elapsed /\ Count
  /\ elapsed' = With(elapsed, b, elapsed[a]) /\ found' = With(found, b, 0)
  /\ extra' = With(extra, b, elapsed[a]) /\ inside' = With(inside, b, 0)
  /\ UNCHANGED <<now, start, to>>

\* Its measurements refer to it, so it ends after them.
DestroyAccumulator(a) ==
  /\ a \in DOMAIN elapsed /\ Of(a) = {}
  /\ elapsed' = Without(elapsed, a) /\ found' = Without(found, a)
  /\ extra' = Without(extra, a) /\ inside' = Without(inside, a)
  /\ UNCHANGED <<now, start, to, made>>

\* accumulator::measurement()
Measure(a, m) ==
  /\ a \in DOMAIN elapsed /\ m \notin DOMAIN to /\ Count
  /\ start' = With(start, m, now) /\ to' = With(to, m, a)
  /\ UNCHANGED <<now, elapsed, found, extra, inside>>

\* measurement(measurement&&) = default: its start and what it captures are
\* copied, so both objects run on and both report.
MoveMeasure(m, n) ==
  /\ m \in DOMAIN to /\ n \notin DOMAIN to /\ Count
  /\ start' = With(start, n, start[m]) /\ to' = With(to, n, to[m])
  /\ inside' = [inside EXCEPT ![to[m]] = @ + (now - start[m])]
  /\ UNCHANGED <<now, elapsed, found, extra>>

\* Mutant: the last measurement replaces the sum.
Assigned(a, dur) == dur

\* operator+=
Added(a, dur) == elapsed[a] + dur

\* operator+= of a measurement still running and of another accumulator
Durations == {now - start[m] : m \in DOMAIN start} \cup {elapsed[a] : a \in DOMAIN elapsed}

Plus(a, dur) ==
  /\ a \in DOMAIN elapsed /\ dur \in Durations /\ Count
  /\ elapsed' = [elapsed EXCEPT ![a] = Added(a, dur)]
  /\ extra' = [extra EXCEPT ![a] = @ + dur]
  /\ UNCHANGED <<now, start, to, found, inside>>

\* ~measurement()
End(m) ==
  /\ m \in DOMAIN to
  /\ elapsed' = [elapsed EXCEPT ![to[m]] = Added(to[m], now - start[m])]
  /\ start' = Without(start, m) /\ to' = Without(to, m)
  /\ UNCHANGED <<now, found, extra, inside, made>>

Finished == now = MaxTime /\ made = MaxTime /\ UNCHANGED vars

Next ==
  \/ Tick
  \/ \E a, b \in Accs : CopyAccumulator(a, b)
  \/ \E a \in Accs : MakeAccumulator(a) \/ DestroyAccumulator(a) \/ \E m \in Measures : Measure(a, m)
  \/ \E a \in Accs : \E dur \in Durations : Plus(a, dur)
  \/ \E m \in Measures : End(m) \/ \E n \in Measures : MoveMeasure(m, n)
  \/ Finished

Spec == Init /\ [][Next]_vars
-----------------------------------------------------------------------------

RunningOf(a) == SumFunction([m \in Of(a) |-> now - start[m]])

\* An accumulator's sum grows by what its measurements have run, however they
\* overlap, end and are moved and whatever copies are made, each object counted
\* from its own start: together with the time of the open ones that is all that
\* is added to what was in its memory, to the sum it is a copy of and to what the
\* program added itself.
ElapsedExact ==
  \A a \in DOMAIN elapsed : elapsed[a] + RunningOf(a) = found[a] + extra[a] + inside[a]

\* "std::cout << acc << std::endl; // 4440'000'000 ?" after measurements of
\* 1230 and 3210 milliseconds: the sum starts from nothing.
ElapsedIsMeasured ==
  \A a \in DOMAIN elapsed : elapsed[a] + RunningOf(a) = extra[a] + inside[a]
==============================================================================
