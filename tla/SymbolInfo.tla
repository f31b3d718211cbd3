------------------------------ MODULE SymbolInfo ------------------------------
(***************************************************************************)
(* The values of callstack/call_stack.hpp: a call_frame_info holds an      *)
(* address and resolves it when it is printed, a symbol_info is resolved   *)
(* when it is made and keeps pointers to the names.  Where these point     *)
(* depends on the platform: into the modules themselves on GNU/Linux       *)
(* (detail/glibc_call_stack.hpp), into buffers of the object on Windows    *)
(* (detail/win_call_stack.hpp).  Objects are made, copied, moved, swapped  *)
(* and destroyed in any order.                                             *)
(***************************************************************************)
EXTENDS Integers

CONSTANTS
  Objs,       \* the program's objects
  Addrs,      \* addresses with names
  Null,       \* null_address_type
  Garbage,    \* names of a destroyed or blank buffer
  MaxSteps    \* bound: how many operations the program makes

Places == Objs \cup {"temp"}   \* an operator's by-value parameter is one more

VARIABLES
  platform,   \* "glibc" or "windows"
  kind,       \* "frame": call_frame, call_frame_info, call_stack(_info); "symbol"
  alive,      \* the objects there are
  addr,       \* _addr of each
  names,      \* where its names are: "null", "module" (and of what), or whose buffer
  buffer,     \* Windows: what _sym_info, _line_info and _module_info hold
  given,      \* history: the address the program has given to each
  emptied,    \* history: objects a copy was made of
  exchanged,  \* history: objects whose members came from another one
  steps

objVars == <<alive, addr, names, buffer, given, emptied, exchanged>>
vars == <<platform, kind, objVars, steps>>

NoNames == <<"null", Null>>

Init ==
  /\ platform \in {"glibc", "windows"} /\ kind \in {"frame", "symbol"}
  /\ alive = {} /\ emptied = {} /\ exchanged = {} /\ steps = 0
  /\ addr = [o \in Places |-> Null] /\ given = addr
  /\ names = [o \in Places |-> NoNames]
  /\ buffer = [o \in Places |-> Garbage]

-----------------------------------------------------------------------------
(***************************************************************************)
(* What the classes do to the members of an object, as functions of a      *)
(* state [addr, names, buffer].                                            *)
(***************************************************************************)

State == [addr |-> addr, names |-> names, buffer |-> buffer]

\* basic_symbol_info::_resolve(): dladdr()'s names, and none for nullptr.
GlibcResolved(s, o, a) ==
  [s EXCEPT !.addr[o] = a, !.names[o] = IF a = Null THEN NoNames ELSE <<"module", a>>]

\* Here the names are copied into the object's buffers and pointed to there.
WinResolved(s, o, a) ==
  IF a = Null THEN [s EXCEPT !.addr[o] = a, !.names[o] = NoNames]
  ELSE [s EXCEPT !.addr[o] = a, !.names[o] = <<"buffer", o>>, !.buffer[o] = a]

\* A frame is its address.
Resolved(s, o, a) ==
  IF kind = "frame" THEN [s EXCEPT !.addr[o] = a]
  ELSE IF platform = "glibc" THEN GlibcResolved(s, o, a) ELSE WinResolved(s, o, a)

\* A new object: its buffers are blank.
Constructed(s, o, a) == Resolved([s EXCEPT !.buffer[o] = Garbage], o, a)

\* Mutant: the names stay behind.
SwappedAddressOnly(s, o, p) == [s EXCEPT !.addr[o] = s.addr[p], !.addr[p] = s.addr[o]]

\* swap() swaps every member, buffers too.
Swapped(s, o, p) ==
  [s EXCEPT !.addr[o] = s.addr[p], !.addr[p] = s.addr[o],
            !.names[o] = s.names[p], !.names[p] = s.names[o],
            !.buffer[o] = s.buffer[p], !.buffer[p] = s.buffer[o]]

\* A move leaves the moved-from object empty.
MovedTo(s, o, p) == Swapped(Constructed(s, o, Null), o, p)

\* A frame is copied; a symbol_info's copy constructor takes a non-const
\* reference and swaps, which empties what is copied.
CopiedTo(s, o, p) ==
  IF kind = "frame" THEN Constructed(s, o, s.addr[p]) ELSE MovedTo(s, o, p)

-----------------------------------------------------------------------------

Set(s) == addr' = s.addr /\ names' = s.names /\ buffer' = s.buffer

Step ==
  /\ steps < MaxSteps /\ steps' = steps + 1
  /\ UNCHANGED <<platform, kind>>

\* What the program knows afterwards: who was given which address, of whom a
\* copy was made, whose members are another's.
Know(newGiven, copied, mixed, fresh) ==
  /\ given' = newGiven
  /\ emptied' = {o \in emptied : newGiven[o] = given[o]} \cup copied
  /\ exchanged' = (exchanged \cup mixed) \ fresh

Construct(o, a) ==
  /\ Step /\ o \notin alive
  /\ alive' = alive \cup {o}
  /\ Set(Constructed(State, o, a))
  /\ Know([given EXCEPT ![o] = a], {}, {}, {o})

\* resolve(), with which the iterators of call_stack_info move on.
Resolve(o, a) ==
  /\ Step /\ o \in alive /\ kind = "symbol"
  /\ Set(Resolved(State, o, a))
  /\ Know([given EXCEPT ![o] = a], {}, {}, {o})
  /\ UNCHANGED alive

Copy(o, p) ==
  /\ Step /\ o \notin alive /\ p \in alive
  /\ alive' = alive \cup {o}
  /\ Set(CopiedTo(State, o, p))
  /\ Know([given EXCEPT ![o] = addr[p]], {p}, {o, p}, {})

Move(o, p) ==
  /\ Step /\ o \notin alive /\ p \in alive
  /\ alive' = alive \cup {o}
  /\ Set(MovedTo(State, o, p))
  /\ Know([given EXCEPT ![o] = addr[p], ![p] = Null], {}, {o, p}, {})

\* operator=() takes its argument by value, swaps with it and destroys it.
Assign(o, p) ==
  /\ Step /\ o \in alive /\ p \in alive /\ o # p
  /\ LET s == Swapped(CopiedTo(State, "temp", p), o, "temp") IN
       Set([s EXCEPT !.addr["temp"] = Null, !.names["temp"] = NoNames, !.buffer["temp"] = Garbage])
  /\ Know([given EXCEPT ![o] = addr[p]], {p}, {o, p}, {})
  /\ UNCHANGED alive

Swap(o, p) ==
  /\ Step /\ o \in alive /\ p \in alive /\ o # p
  /\ Set(Swapped(State, o, p))
  /\ Know([given EXCEPT ![o] = addr[p], ![p] = addr[o]], {}, {o, p}, {})
  /\ UNCHANGED alive

Destroy(o) ==
  /\ Step /\ o \in alive
  /\ alive' = alive \ {o}
  /\ Set([State EXCEPT !.addr[o] = Null, !.names[o] = NoNames, !.buffer[o] = Garbage])
  /\ Know([given EXCEPT ![o] = Null], {}, {}, {o})

Finished == steps = MaxSteps /\ UNCHANGED vars

Next ==
  \/ \E o \in Objs, a \in Addrs \cup {Null} : Construct(o, a) \/ Resolve(o, a)
  \/ \E o, p \in Objs : Copy(o, p) \/ Move(o, p) \/ Assign(o, p) \/ Swap(o, p)
  \/ \E o \in Objs : Destroy(o)
  \/ Finished

Spec == Init /\ [][Next]_vars
-----------------------------------------------------------------------------

\* What printing an object shows, as the address it is the name of: a frame
\* resolves a symbol of its own for it.
Shown(o) ==
  IF kind = "frame" THEN addr[o]
  ELSE CASE names[o][1] = "null"     -> Null
         [] names[o][1] = "module"   -> names[o][2]
         [] names[o][1] = "buffer"   -> buffer[names[o][2]]

\* An object has the address it was given and shows that address's names,
\* whatever copies, moves, swaps and assignments the program makes: but a
\* symbol_info loses both to the copy that is made of it, and on Windows one
\* whose members came from another object shows that object's buffer.
NamesMatch ==
  \A o \in alive :
    /\ addr[o] = given[o] \/ (kind = "symbol" /\ o \in emptied)
    /\ Shown(o) = addr[o] \/ (kind = "symbol" /\ platform = "windows" /\ o \in exchanged)
==============================================================================
