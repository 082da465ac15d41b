---------------------------- MODULE AgentMessages ----------------------------
(***************************************************************************)
(* The session of AgentClient together with the messages that arrive in    *)
(* it.  The Paho thread is one thread: it runs an outcome callback or      *)
(* veides_client_messageArrived, never both, and what the latter calls,    *)
(* the application's own handlers included, holds it up.                   *)
(*                                                                         *)
(* The tables of action and method handlers are sets of names here: the    *)
(* two lookups of a message, first by name and then for any name, are the  *)
(* steps Routing promises and HandlerTable implements.                     *)
(***************************************************************************)
EXTENDS AgentClient, FiniteSets

CONSTANTS
    Names,          \* names of actions and methods
    NoName,         \* the NULL name of the handler for any of them
    MaxMessages,    \* bound: messages the broker publishes
    MaxRegistered   \* bound: handlers the application registers

ASSUME NoNameIsNotAName == NoName \notin Names
ASSUME SomeNames == Names # {}
ASSUME MessageBoundsAreNats == MaxMessages \in Nat /\ MaxRegistered \in Nat

VARIABLES
    actions,    \* names in client->actionHandlers, NoName for any action
    methods,    \* names in client->methodHandlers, NoName for any method
    inbox,      \* messages Paho has received, oldest first
    cbpc,       \* where the Paho thread is in veides_client_messageArrived
    message,    \* the message it is at
    fate,       \* what became of the message it was at last
    known,      \* history: the table of its kind when it was taken
    received    \* messages published so far

messageVars == <<actions, methods, inbox, cbpc, message, fate, known, received>>
allVars     == <<vars, messageVars>>

Messages == [topic : Topics, name : Names]
Fates    == {"none", "lost", "unhandled", "handled"}

\* The table that is searched for a message.
TableFor(m) == IF m.topic = ActionTopic THEN actions ELSE methods

MessagesInit ==
    /\ Init
    /\ actions = {} /\ methods = {}
    /\ inbox = <<>>
    /\ cbpc = "idle"
    /\ message = CHOOSE m \in Messages : TRUE
    /\ fate = "none"
    /\ known = {}
    /\ received = 0

-----------------------------------------------------------------------------
(* The application thread, between its other calls                         *)

CanRegister ==
    /\ pc = "ready" /\ alive /\ cbpc # "crashed"
    /\ Cardinality(actions) + Cardinality(methods) < MaxRegistered

\* VeidesAgentClient_setActionHandler, or setAnyActionHandler for NoName;
\* for want of memory nothing is registered.
SetActionHandler(n) ==
    /\ CanRegister
    /\ n \notin actions
    /\ actions' = actions \cup {n}
    /\ UNCHANGED <<vars, methods, inbox, cbpc, message, fate, known, received>>

SetMethodHandler(n) ==
    /\ CanRegister
    /\ n \notin methods
    /\ methods' = methods \cup {n}
    /\ UNCHANGED <<vars, actions, inbox, cbpc, message, fate, known, received>>

-----------------------------------------------------------------------------
(* The broker and the Paho thread                                          *)

\* The broker publishes on a topic it has granted.
Publish(m) ==
    /\ session = "up" /\ m.topic \in subs
    /\ received < MaxMessages
    /\ cbpc # "crashed"
    /\ inbox' = Append(inbox, m)
    /\ received' = received + 1
    /\ UNCHANGED <<vars, actions, methods, cbpc, message, fate, known>>

Finish(f) == cbpc' = "idle" /\ fate' = f

\* veides_client_getHandler finds an entry for the topic of m.
HasHandler(m) == m.topic \in Range(handlers)

\* Mutant: the name is not taken out of the message.
MessageArrivedNameless ==
    /\ alive /\ cbpc = "idle" /\ inbox # <<>>
    /\ message' = [Head(inbox) EXCEPT !.name = NoName]
    /\ inbox' = Tail(inbox)
    /\ known' = TableFor(Head(inbox))
    /\ IF HasHandler(Head(inbox)) THEN cbpc' = "named" /\ fate' = "none" ELSE Finish("lost")
    /\ UNCHANGED <<vars, actions, methods, received>>

\* Mutant: only the handler added last is looked at.
MessageArrivedLast ==
    /\ alive /\ cbpc = "idle" /\ inbox # <<>>
    /\ message' = Head(inbox)
    /\ inbox' = Tail(inbox)
    /\ known' = TableFor(Head(inbox))
    /\ IF handlers # <<>> /\ handlers[Len(handlers)] = Head(inbox).topic
       THEN cbpc' = "named" /\ fate' = "none" ELSE Finish("lost")
    /\ UNCHANGED <<vars, actions, methods, received>>

\* veides_client_messageArrived: a message whose topic is in no handler is
\* dropped.  The code it returns then is not 0, so Paho takes it as handled.
MessageArrived ==
    /\ alive /\ cbpc = "idle" /\ inbox # <<>>
    /\ message' = Head(inbox)
    /\ inbox' = Tail(inbox)
    /\ known' = TableFor(Head(inbox))
    /\ IF HasHandler(Head(inbox)) THEN cbpc' = "named" /\ fate' = "none" ELSE Finish("lost")
    /\ UNCHANGED <<vars, actions, methods, received>>

\* Mutant: without a handler of its name the message is dropped.
LookupNamedOnly ==
    /\ alive /\ cbpc = "named"
    /\ IF message.name \in TableFor(message)
       THEN cbpc' = "user" /\ UNCHANGED fate
       ELSE Finish("unhandled")
    /\ UNCHANGED <<vars, actions, methods, inbox, message, known, received>>

\* veides_client_getActionHandler or veides_client_getMethodHandler.
LookupNamed ==
    /\ alive /\ cbpc = "named"
    /\ cbpc' = IF message.name \in TableFor(message) THEN "user" ELSE "any"
    /\ UNCHANGED <<vars, actions, methods, inbox, message, fate, known, received>>

\* Mutant: a message that nobody handles is not given up.
LookupAnyWaits ==
    /\ alive /\ cbpc = "any"
    /\ NoName \in TableFor(message)
    /\ cbpc' = "user"
    /\ UNCHANGED <<vars, actions, methods, inbox, message, fate, known, received>>

\* veides_client_getAnyActionHandler or veides_client_getAnyMethodHandler.
LookupAny ==
    /\ alive /\ cbpc = "any"
    /\ IF NoName \in TableFor(message)
       THEN cbpc' = "user" /\ UNCHANGED fate
       ELSE Finish("unhandled")
    /\ UNCHANGED <<vars, actions, methods, inbox, message, known, received>>

\* Mutant: the failed send marks the client as disconnected.
HandlerSendsClears ==
    /\ alive /\ cbpc = "user" /\ connected # 0
    /\ cbpc' = "user"
    /\ connected' = 0
    /\ PahoSend(MQTTASYNC_FAILURE)
    /\ UNCHANGED <<last, overwrote, tableVars, loopVars, callVars, alive, pc, rc, topic, wanted>>
    /\ UNCHANGED <<actions, methods, inbox, message, fate, known, received>>

\* The application's handler calls a send function, as the sample's handlers
\* do.  A send that fails enters the retry loop of veides_client_publish,
\* which does not end (see RetryConnect), in the Paho thread.
HandlerSends ==
    /\ alive /\ cbpc = "user" /\ connected # 0
    /\ cbpc' \in {"stuck", "crashed"}
    /\ PahoSend(MQTTASYNC_FAILURE)
    /\ UNCHANGED <<appVars, actions, methods, inbox, message, fate, known, received>>

\* It returns.  Its other sends succeed or find no connection: no trace here.
HandlerReturns ==
    /\ cbpc = "user"
    /\ Finish("handled")
    /\ UNCHANGED <<vars, actions, methods, inbox, message, known, received>>

\* The client was freed under the message: each access to it finds old data
\* or faults.
MessageAfterFree ==
    /\ ~alive
    /\ \/ cbpc \in {"named", "any"} /\ UNCHANGED <<inbox, message>>
       \/ cbpc = "idle" /\ inbox # <<>> /\ inbox' = Tail(inbox) /\ message' = Head(inbox)
    /\ cbpc' \in {"idle", "crashed"}
    /\ fate' = "none"
    /\ UNCHANGED <<vars, actions, methods, known, received>>

Dispatch == MessageArrived \/ LookupNamed \/ LookupAny \/ MessageAfterFree

-----------------------------------------------------------------------------

SessionStep ==
    /\ cbpc # "crashed"
    /\ StartCall \/ ContinueCall \/ RetryConnect \/ Environment
    /\ UNCHANGED messageVars

\* Outcome callbacks wait for the message the Paho thread is at.
CallbackStep == cbpc = "idle" /\ Callback /\ UNCHANGED messageVars

MessageStep ==
    /\ pc # "crashed"
    /\ \/ \E n \in Names \cup {NoName} : SetActionHandler(n) \/ SetMethodHandler(n)
       \/ \E m \in Messages : Publish(m)
       \/ Dispatch \/ HandlerSends \/ HandlerReturns

MessagesNext == SessionStep \/ CallbackStep \/ MessageStep

MessagesSpec == MessagesInit /\ [][MessagesNext]_allVars

\* As in AgentClient; and the application's handlers return, unless a send
\* holds them.
MessagesFairness ==
    /\ WF_allVars(cbpc # "crashed" /\ ContinueCall /\ UNCHANGED messageVars)
    /\ WF_allVars(cbpc # "crashed" /\ pc # "crashed" /\ PahoProgress
                    /\ UNCHANGED <<appVars, messageVars>>)
    /\ WF_allVars(CallbackStep)
    /\ WF_allVars(pc # "crashed" /\ Dispatch)
    /\ WF_allVars(pc # "crashed" /\ HandlerReturns)

MessagesFairSpec == MessagesSpec /\ MessagesFairness

-----------------------------------------------------------------------------
(* Properties                                                              *)

MessagesTypeOK ==
    /\ actions \subseteq Names \cup {NoName}
    /\ methods \subseteq Names \cup {NoName}
    /\ inbox \in Seq(Messages)
    /\ cbpc \in {"idle", "named", "any", "user", "stuck", "crashed"}
    /\ message \in Messages
    /\ fate \in Fates
    /\ known \subseteq Names \cup {NoName}
    /\ received \in Nat

\* With messages the session is still the one of AgentClient: what holds of
\* its flag, its table and its answers holds here.
ImplementsSession == Spec

\* veides_client_messageArrived finds no handler for a message of a granted
\* topic only while the connect that subscribed it has yet to register the
\* handler, or if memory for it was short: afterwards, across disconnects,
\* reconnects and duplicate entries, no message misses its topic.
LostOnlyInWindow ==
    [][MessageArrived /\ fate' = "lost" =>
          \/ pc = "handle" /\ topic = message'.topic
          \/ message'.topic \in nomem]_allVars

\* A message goes unhandled only if no handler of its kind, neither for its
\* name nor for any, was registered when Paho delivered it.
UnhandledHadNoHandler ==
    fate = "unhandled" => {message.name, NoName} \cap known = {}

\* The Paho thread works off every message it has received and is free again
\* for outcome callbacks, unless a handler's send has stopped it or the process
\* has died.
MessagesDispatched ==
    (inbox # <<>>) ~> (\/ inbox = <<>> /\ cbpc = "idle"
                       \/ cbpc \in {"stuck", "crashed"} \/ pc = "crashed")

\* Even when a handler never gives the Paho thread back, and so no outcome is
\* reported any more, connect and disconnect return: they count their polls.
CallsReturnWithoutCallbacks ==
    (pc \in Locations \ {"ready", "send", "retry", "crashed"})
        ~> (pc \in {"ready", "crashed"} \/ cbpc = "crashed")
=============================================================================
