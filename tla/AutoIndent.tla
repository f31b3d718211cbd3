------------------------------ MODULE AutoIndent ------------------------------
(***************************************************************************)
(* The indenting stream (iostream.hpp): a guard raises the level and       *)
(* prints one indent, its destructor sets the level back to what it was,   *)
(* and each newline is followed by as many indents as the level.           *)
(***************************************************************************)
EXTENDS Integers, Sequences, SequencesExt

CONSTANTS
  Deltas,     \* what guards raise the level by, 1 unless said otherwise
  MaxLines    \* bound: how many guards are made and lines printed

VARIABLES
  level,      \* _level
  guards,     \* the guards there are, the last one made last: _oldlevel, delta
  column,     \* how many indents the line starts with
  text,       \* there is text on the line
  crossed,    \* history: guards ended in another order than a scope's
  off,        \* history: a guard ended on this line before its text, or one made
              \* there raised the level by something else than the one indent
  printed

vars == <<level, guards, column, text, crossed, off, printed>>

Init ==
  /\ level = 0 /\ guards = << >> /\ column = 0 /\ text = FALSE
  /\ crossed = FALSE /\ off = FALSE /\ printed = 0

Count == printed < MaxLines /\ printed' = printed + 1

\* level(): never below 0.
Raised(from, delta) == IF from + delta < 0 THEN 0 ELSE from + delta

-----------------------------------------------------------------------------

\* autoindent_guard()
MakeGuard(delta) ==
  /\ Count
  /\ guards' = Append(guards, [old |-> level, delta |-> delta])
  /\ level' = Raised(level, delta)
  /\ column' = IF text THEN column ELSE column + 1
  /\ off' = (off \/ (~text /\ level' # level + 1))
  /\ UNCHANGED <<text, crossed>>

\* Mutant: the level is lowered by what it was raised by.
Lowered(g) == Raised(level, -g.delta)

\* reset(_oldlevel)
Reset(g) == g.old

\* ~autoindent_guard()
EndGuard(i) ==
  /\ level' = Reset(guards[i])
  /\ guards' = RemoveAt(guards, i)
  /\ crossed' = (crossed \/ i # Len(guards))
  /\ off' = (off \/ ~text)
  /\ UNCHANGED <<column, text, printed>>

\* overflow()
PutText ==
  /\ ~text /\ text' = TRUE
  /\ UNCHANGED <<level, guards, column, crossed, off, printed>>

PutNewline ==
  /\ Count
  /\ column' = level /\ text' = FALSE /\ off' = FALSE
  /\ UNCHANGED <<level, guards, crossed>>

Finished == printed = MaxLines /\ UNCHANGED vars

Next ==
  \/ \E d \in Deltas : MakeGuard(d)
  \/ \E i \in 1 .. Len(guards) : EndGuard(i)
  \/ PutText \/ PutNewline
  \/ Finished

Spec == Init /\ [][Next]_vars
-----------------------------------------------------------------------------

\* The level is the one of the guards there are, even where a guard could not
\* lower it, and comes back to 0 with the last of them, if they end as scopes
\* do; and a line's text starts at the level, however guards and newlines come.
IndentFollows ==
  /\ ~crossed => level = IF guards = << >> THEN 0 ELSE Raised(Last(guards).old, Last(guards).delta)
  /\ ~text /\ ~off => column = level
==============================================================================
