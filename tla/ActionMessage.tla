---------------------------- MODULE ActionMessage ----------------------------
(***************************************************************************)
(* veides_client_actionMessageReceived: an action message is copied and    *)
(* parsed, its entities are put into an array of VeidesActionEntity, and   *)
(* the handler of its name, or the one for any action, is called with it.  *)
(* Which handler there is, HandlerTable says; here it is any outcome.      *)
(*                                                                         *)
(* The array is requested with the size of a pointer for each entity, and  *)
(* the offsets of the fields, on 64 bits, decide what fits.                *)
(***************************************************************************)
EXTENDS Integers, Sequences, FiniteSets

CONSTANTS
    Usable(_),      \* bytes the allocator gives for a request of so many
    MaxEntities     \* bound: entities of a message

PointerSize == 8

ASSUME MaxEntitiesIsNat == MaxEntities \in Nat
ASSUME UsableIsEnough ==
    \A n \in 0..MaxEntities :
        /\ Usable(n * PointerSize) \in Nat
        /\ Usable(n * PointerSize) >= n * PointerSize
\* glibc: blocks of 24, 40, 56, ... bytes, and no more than is needed.
ASSUME UsableIsRounded ==
    \A n \in 0..MaxEntities :
        Usable(n * PointerSize) <= IF n <= 3 THEN 24 ELSE n * PointerSize + 15

EntitySize  == 40       \* sizeof(VeidesActionEntity)

\* What an element of "entities" may be: an object with a name and a value
\* that is a string, boolean, number or else (absent, null, ...), an object
\* without a name, or no object.
Valued   == {"string", "bool", "double", "int"}
Elements == Valued \cup {"untyped", "nameless", "nonobject"}

\* The first byte after the last field that is stored for an element.
FieldsEnd(e) ==
    CASE e = "string"  -> 24
      [] e = "double"  -> 32
      [] e = "int"     -> 36
      [] e = "bool"    -> 40
      [] e = "untyped" -> 8

VARIABLES
    pc,         \* "copy", "parse", "entities", "fill", "lookup", "call", "end"
    message,    \* the message: valid JSON, named, and its entities
    array,      \* actionEntities: "null", "live" or "freed"
    filled,     \* the elements it holds with their type, by index from 1
    i,          \* the loop's index, from 0
    status,     \* "ok", "overrun" once past the array, "crashed"
    json, pl,   \* whether the parsed tree and the copy are allocated
    handled     \* "none", "running", "done": a handler's call

vars == <<pc, message, array, filled, i, status, json, pl, handled>>

Messages == [valid : BOOLEAN, named : BOOLEAN,
             entities : UNION {[1..n -> Elements] : n \in 0..MaxEntities}]

size == Len(message.entities)

Init ==
    /\ message \in Messages
    /\ pc = "copy"
    /\ array = "null" /\ filled = {}
    /\ i = 0
    /\ status = "ok"
    /\ json = FALSE /\ pl = FALSE
    /\ handled = "none"

Crash ==
    /\ status' = "crashed"
    /\ UNCHANGED <<pc, message, array, filled, i, json, pl, handled>>

Goto(from, to) == pc = from /\ status # "crashed" /\ pc' = to

\* malloc of the copy; a NULL is not looked at, memset faults.
Copy ==
    \/ /\ Goto("copy", "parse")
       /\ pl' = TRUE
       /\ UNCHANGED <<message, array, filled, i, status, json, handled>>
    \/ pc = "copy" /\ status = "ok" /\ Crash

\* Mutant: the result of the parser is not looked at.
ParseUnchecked ==
    \/ /\ message.valid /\ message.named
       /\ Goto("parse", "entities")
       /\ json' = TRUE
       /\ UNCHANGED <<message, array, filled, i, status, pl, handled>>
    \/ pc = "parse" /\ status = "ok" /\ ~(message.valid /\ message.named) /\ Crash

\* cJSON_ParseWithLength.  The name of a message without one is read through
\* NULL.
Parse ==
    \/ /\ ~message.valid
       /\ Goto("parse", "end")
       /\ UNCHANGED <<message, array, filled, i, status, json, pl, handled>>
    \/ /\ message.valid /\ message.named
       /\ Goto("parse", "entities")
       /\ json' = TRUE
       /\ UNCHANGED <<message, array, filled, i, status, pl, handled>>
    \/ pc = "parse" /\ status = "ok" /\ message.valid /\ ~message.named /\ Crash

\* The array, if there are any entities; for want of memory the message is
\* given up.
Allocate ==
    /\ \/ size = 0 /\ Goto("entities", "lookup") /\ UNCHANGED array
       \/ size > 0 /\ Goto("entities", "fill") /\ array' = "live"
       \/ size > 0 /\ Goto("entities", "end") /\ UNCHANGED array
    /\ UNCHANGED <<message, filled, i, status, json, pl, handled>>

element == message.entities[i + 1]

\* Mutant: entries are as long as pointers.
FitsPointers(index, e) == PointerSize * (index + 1) <= Usable(size * PointerSize)

\* What an element stores ends inside the array.
Fits(index, e) == EntitySize * index + FieldsEnd(e) <= Usable(size * PointerSize)

\* Mutant: an element that is no object ends the loop.
FillBreaks ==
    /\ i < size
    /\ \/ element = "nonobject" /\ Goto("fill", "lookup") /\ UNCHANGED <<i, filled, status>>
       \/ /\ element \notin {"nonobject", "nameless"}
          /\ Goto("fill", "fill")
          /\ i' = i + 1
          /\ filled' = filled \cup {i + 1}
          /\ UNCHANGED status
    /\ UNCHANGED <<message, array, json, pl, handled>>

\* Mutant: the loop goes one element too far.
FillPastEnd ==
    /\ i <= size
    /\ Goto("fill", "fill")
    /\ i' = i + 1
    /\ filled' = filled \cup {i + 1}
    /\ UNCHANGED <<message, array, status, json, pl, handled>>

\* One turn of the loop.  An element that is no object leaves its entry as
\* malloc gave it, one without a name is read through NULL.
Fill ==
    \/ /\ i < size
       /\ element # "nameless"
       /\ Goto("fill", "fill")
       /\ i' = i + 1
       /\ IF element = "nonobject"
          THEN UNCHANGED <<filled, status>>
          ELSE /\ filled' = IF element \in Valued THEN filled \cup {i + 1} ELSE filled
               /\ status' \in IF Fits(i, element) THEN {status} ELSE {"overrun", "crashed"}
       /\ UNCHANGED <<message, array, json, pl, handled>>
    \/ i < size /\ pc = "fill" /\ status # "crashed" /\ element = "nameless" /\ Crash

FillEnds ==
    /\ i = size
    /\ Goto("fill", "lookup")
    /\ UNCHANGED <<message, array, filled, i, status, json, pl, handled>>

\* A handler of the name, or for any action, is called; or there is none.
Lookup ==
    /\ \/ Goto("lookup", "call") /\ handled' = "running"
       \/ Goto("lookup", "end") /\ UNCHANGED handled
    /\ UNCHANGED <<message, array, filled, i, status, json, pl>>

\* Mutant: the array is left to the handler.
HandlerKeepsArray ==
    /\ Goto("call", "end")
    /\ handled' = "done"
    /\ UNCHANGED <<message, array, filled, i, status, json, pl>>

\* It has returned, and the array is freed.
HandlerReturns ==
    /\ Goto("call", "end")
    /\ handled' = "done"
    /\ array' = IF array = "live" THEN "freed" ELSE array
    /\ UNCHANGED <<message, filled, i, status, json, pl>>

\* endActionReceived: the tree and the copy are freed.
End ==
    /\ Goto("end", "over")
    /\ json' = FALSE /\ pl' = FALSE
    /\ UNCHANGED <<message, array, filled, i, status, handled>>

Next ==
    \/ Copy \/ Parse \/ Allocate \/ Fill \/ FillEnds
    \/ Lookup \/ HandlerReturns \/ End

Spec == Init /\ [][Next]_vars

-----------------------------------------------------------------------------
(* Properties                                                              *)

TypeOK ==
    /\ pc \in {"copy", "parse", "entities", "fill", "lookup", "call", "end", "over"}
    /\ message \in Messages
    /\ array \in {"null", "live", "freed"}
    /\ filled \subseteq 1..size
    /\ i \in 0..size
    /\ status \in {"ok", "overrun", "crashed"}
    /\ json \in BOOLEAN /\ pl \in BOOLEAN
    /\ handled \in {"none", "running", "done"}

\* A message whose entities are all objects reaches a handler with its array
\* intact only if it has at most one, and that one a string or untyped: the
\* eight bytes asked for each are rounded up to what one of those needs, and
\* to no more.
IntactOnlyIfOne ==
    /\ handled = "running" /\ status = "ok"
    /\ \A j \in 1..size : message.entities[j] # "nonobject"
    => size = 0 \/ (size = 1 /\ message.entities[1] \in {"string", "untyped"})

\* A handler finds a type in an entry exactly if the element is an object
\* whose value has one of the four types.  In the others it finds what malloc
\* left there.
TypedIfValued ==
    handled = "running" =>
        filled = {j \in 1..size : message.entities[j] \in Valued}

\* On every path the copy and the tree are freed, and the array is too,
\* except of a message that no handler took.
FreedUnlessUnhandled ==
    pc = "over" => /\ ~json /\ ~pl
                   /\ array = "live" => handled = "none"

\* A message that is not JSON is dropped.  Only one that lacks a name, its own
\* or an entity's, overruns the array, or finds no memory for its copy can
\* take the process down.
CrashOnlyIfMalformed ==
    status = "crashed" =>
        \/ pc = "copy"
        \/ message.valid /\ ~message.named
        \/ message.valid /\ size > 0 /\ \E j \in 1..size :
              \/ message.entities[j] = "nameless"
              \/ message.entities[j] # "nonobject" /\ ~Fits(j - 1, message.entities[j])
=============================================================================
