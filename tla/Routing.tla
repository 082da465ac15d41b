------------------------------- MODULE Routing -------------------------------
(***************************************************************************)
(* What a table of handlers promises, without its memory: names map to     *)
(* callbacks, a registration takes effect at once, and a message for name  *)
(* msg runs the callback of msg, or, if msg has none when it is looked up, *)
(* the callback for any name, or nothing.  HandlerTable implements it, and *)
(* AgentMessages looks its messages up in the same two steps.              *)
(***************************************************************************)
CONSTANTS
    Names,      \* names of actions, or of methods
    NoName,     \* the NULL name of the handler for any of them
    Callbacks

VARIABLES
    table,      \* a function from the names registered to their callbacks
    phase,      \* the message under way: looking for its name, or for any
    msg,        \* its name
    outcome     \* what became of it

vars == <<table, phase, msg, outcome>>

Pending       == [kind |-> "none", handler |-> NoName, callback |-> NoName]
Dropped       == [kind |-> "dropped", handler |-> NoName, callback |-> NoName]
Called(n, cb) == [kind |-> "called", handler |-> n, callback |-> cb]

Init ==
    /\ table = [n \in {} |-> NoName]
    /\ phase = "idle"
    /\ msg = NoName
    /\ outcome = Pending

\* A handler is added, or the callback of the one there is replaced.
Register(n, cb) ==
    /\ table' = [m \in DOMAIN table \cup {n} |-> IF m = n THEN cb ELSE table[m]]
    /\ UNCHANGED <<phase, msg, outcome>>

Receive(n) ==
    /\ phase = "idle"
    /\ phase' = "named"
    /\ msg' = n
    /\ outcome' = Pending
    /\ UNCHANGED table

RunNamed ==
    /\ phase = "named"
    /\ msg \in DOMAIN table
    /\ phase' = "idle"
    /\ outcome' = Called(msg, table[msg])
    /\ UNCHANGED <<table, msg>>

\* From here on a registration of the name comes too late for this message.
Miss ==
    /\ phase = "named"
    /\ msg \notin DOMAIN table
    /\ phase' = "any"
    /\ UNCHANGED <<table, msg, outcome>>

RunAny ==
    /\ phase = "any"
    /\ NoName \in DOMAIN table
    /\ phase' = "idle"
    /\ outcome' = Called(NoName, table[NoName])
    /\ UNCHANGED <<table, msg>>

Drop ==
    /\ phase = "any"
    /\ NoName \notin DOMAIN table
    /\ phase' = "idle"
    /\ outcome' = Dropped
    /\ UNCHANGED <<table, msg>>

\* The lookup reads memory that a registration has freed.
Crash ==
    /\ phase \in {"named", "any"}
    /\ phase' = "crashed"
    /\ UNCHANGED <<table, msg, outcome>>

Next ==
    \/ \E n \in Names \cup {NoName}, cb \in Callbacks : Register(n, cb)
    \/ \E n \in Names : Receive(n)
    \/ RunNamed \/ Miss \/ RunAny \/ Drop \/ Crash

Spec == Init /\ [][Next]_vars
=============================================================================
