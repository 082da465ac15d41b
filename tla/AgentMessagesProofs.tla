------------------------ MODULE AgentMessagesProofs ------------------------
(***************************************************************************)
(* Proofs about AgentMessages, for any names and any number of messages,   *)
(* registrations, calls and lost connections: the session under the        *)
(* messages is the one of AgentClient, and no message is lost or goes      *)
(* unhandled but for the reasons the properties name.                      *)
(***************************************************************************)
EXTENDS AgentMessages, AgentClientProofs

-----------------------------------------------------------------------------
(* The session                                                             *)

\* Every step is a step of the session, or leaves it alone.
LEMMA SessionSteps == [MessagesNext]_allVars => [Next]_vars
<1>. SUFFICES ASSUME [MessagesNext]_allVars PROVE [Next]_vars
  OBVIOUS
<1>1. CASE SessionStep \/ CallbackStep
  BY <1>1 DEF SessionStep, CallbackStep, Next
<1>2. CASE HandlerSends
  BY <1>2 DEF HandlerSends, PahoSend, vars
<1>3. CASE MessageStep /\ ~HandlerSends
  BY <1>3 DEF MessageStep, SetActionHandler, SetMethodHandler, Publish, Dispatch, MessageArrived,
              LookupNamed, LookupAny, MessageAfterFree, HandlerReturns
<1>4. CASE UNCHANGED allVars
  BY <1>4 DEF allVars
<1>. QED
  BY <1>1, <1>2, <1>3, <1>4 DEF MessagesNext

\* The client, its messages included, is the session of AgentClient: all that
\* is proved of the flag, the table and the answers there holds with a Paho
\* thread that also runs messages and handlers.
THEOREM SessionImplemented == MessagesSpec => ImplementsSession
<1>1. MessagesInit => Init
  BY DEF MessagesInit
<1>. QED
  BY <1>1, SessionSteps, PTL DEF MessagesSpec, ImplementsSession, Spec

\* What AgentClient promises of the flag, of the answer a connect acts on and of
\* the handlers is kept when messages and application handlers share the Paho
\* thread with the outcome callbacks; and connect and disconnect still count
\* their steps down, even if a handler never gives that thread back.  The flag of
\* an application that connects only when nothing is outstanding is exact here too.
THEOREM SessionKept ==
    MessagesSpec => /\ [](SuccessIsReported /\ OwnAnswerOnQuietClient)
                    /\ [](FlagMirrorsSession /\ SubscribedThenHandled)
                    /\ ClearsOnlyOwnReport
                    /\ [](CallRank \in 0..MaxPolls + 5) /\ [][CallCountsDown]_vars
                    /\ ConnectsWhenQuiet => [](OneOutcome /\ FlagExact)
<1>1. MessagesSpec => Spec
  BY SessionImplemented DEF ImplementsSession
<1>. QED
  BY <1>1, SuccessReported, QuietOwnsAnswer, FlagMirrors, Handled, ClearsOwn, CallsBounded,
     QuietFlagExact, PTL

-----------------------------------------------------------------------------
(* Types                                                                   *)

LEMMA MessagesInitTyped == MessagesInit => MessagesTypeOK
<1>. SUFFICES ASSUME MessagesInit PROVE MessagesTypeOK
  OBVIOUS
<1>1. message \in Messages
  <2>1. PICK n \in Names : TRUE
    BY SomeNames
  <2>2. [topic |-> ActionTopic, name |-> n] \in Messages
    BY DEF Messages, Topics
  <2>. QED
    BY <2>2 DEF MessagesInit
<1>2. inbox \in Seq(Messages)
  BY DEF MessagesInit
<1>. QED
  BY <1>1, <1>2 DEF MessagesInit, MessagesTypeOK, Fates

LEMMA MessagesTyped == MessagesTypeOK /\ [MessagesNext]_allVars => MessagesTypeOK'
<1>. SUFFICES ASSUME MessagesTypeOK, [MessagesNext]_allVars PROVE MessagesTypeOK'
  OBVIOUS
<1>. USE DEF MessagesTypeOK
<1>1. CASE UNCHANGED messageVars
  BY <1>1 DEF messageVars
<1>2. ASSUME NEW n \in Names \cup {NoName}, SetActionHandler(n) \/ SetMethodHandler(n)
      PROVE  MessagesTypeOK'
  BY <1>2 DEF SetActionHandler, SetMethodHandler
<1>3. ASSUME NEW m \in Messages, Publish(m) PROVE MessagesTypeOK'
  BY <1>3 DEF Publish
<1>4. CASE MessageArrived
  <2>1. Head(inbox) \in Messages /\ Tail(inbox) \in Seq(Messages)
    BY <1>4 DEF MessageArrived
  <2>2. TableFor(Head(inbox)) \subseteq Names \cup {NoName}
    BY DEF TableFor
  <2>3. cbpc' \in {"named", "idle"} /\ fate' \in Fates
    BY <1>4 DEF MessageArrived, Finish, Fates
  <2>. QED
    BY <1>4, <2>1, <2>2, <2>3 DEF MessageArrived
<1>5. CASE LookupNamed \/ LookupAny \/ HandlerSends \/ HandlerReturns
  BY <1>5 DEF LookupNamed, LookupAny, HandlerSends, HandlerReturns, Finish, Fates
<1>6. CASE MessageAfterFree
  <2>1. inbox # <<>> => Head(inbox) \in Messages /\ Tail(inbox) \in Seq(Messages)
    OBVIOUS
  <2>. QED
    BY <1>6, <2>1 DEF MessageAfterFree, Fates
<1>. QED
  BY <1>1, <1>2, <1>3, <1>4, <1>5, <1>6
  DEF MessagesNext, SessionStep, CallbackStep, MessageStep, Dispatch, allVars

\* Every variable of the messages keeps its type.
THEOREM MessagesTypeCorrect == MessagesSpec => []MessagesTypeOK
BY MessagesInitTyped, MessagesTyped, PTL DEF MessagesSpec

-----------------------------------------------------------------------------
(* Unhandled messages                                                      *)

\* While a message is looked up, the tables only grow; and it has passed the
\* first lookup only if its name was not there.
LookupInv ==
    /\ cbpc \in {"named", "any"} => known \subseteq TableFor(message) /\ fate # "unhandled"
    /\ cbpc = "any" => message.name \notin known

LEMMA LookupStep ==
    ASSUME LookupInv, UnhandledHadNoHandler, [MessagesNext]_allVars
    PROVE  LookupInv' /\ UnhandledHadNoHandler'
<1>. USE DEF LookupInv, UnhandledHadNoHandler, TableFor
<1>1. CASE UNCHANGED messageVars
  BY <1>1 DEF messageVars
<1>2. ASSUME NEW n \in Names \cup {NoName}, SetActionHandler(n) \/ SetMethodHandler(n)
      PROVE  LookupInv' /\ UnhandledHadNoHandler'
  BY <1>2 DEF SetActionHandler, SetMethodHandler
<1>3. ASSUME NEW m \in Messages, Publish(m) PROVE LookupInv' /\ UnhandledHadNoHandler'
  BY <1>3 DEF Publish
<1>4. CASE MessageArrived
  BY <1>4 DEF MessageArrived, Finish
<1>5. CASE LookupNamed
  BY <1>5 DEF LookupNamed
<1>6. CASE LookupAny
  BY <1>6 DEF LookupAny, Finish
<1>7. CASE HandlerSends \/ HandlerReturns
  BY <1>7 DEF HandlerSends, HandlerReturns, Finish
<1>8. CASE MessageAfterFree
  BY <1>8 DEF MessageAfterFree
<1>. QED
  BY <1>1, <1>2, <1>3, <1>4, <1>5, <1>6, <1>7, <1>8
  DEF MessagesNext, SessionStep, CallbackStep, MessageStep, Dispatch, allVars

\* A message nobody handles had no handler when it was taken, whatever the
\* application registers between the two lookups.
THEOREM Unhandled == MessagesSpec => []UnhandledHadNoHandler
<1>1. MessagesInit => LookupInv /\ UnhandledHadNoHandler
  BY DEF MessagesInit, LookupInv, UnhandledHadNoHandler
<1>. QED
  BY <1>1, LookupStep, PTL DEF MessagesSpec

-----------------------------------------------------------------------------
(* Lost messages                                                           *)

\* The topic has a handler, or is about to have one, or memory was short.
Served(t) ==
    \/ t \in Range(handlers)
    \/ pc = "handle" /\ topic = t
    \/ t \in nomem

\* No step of the session takes a topic's handler away.
LEMMA ServedStep ==
    ASSUME TypeOK, FreedBetweenCalls, [Next]_vars, NEW t, Served(t)
    PROVE  Served(t)'
<1>. USE DEF flagVars, tableVars, loopVars, callVars, Served
<1>1. CASE SetHandler
  <2>1. \/ UNCHANGED <<handlers, nomem>> /\ \E i \in DOMAIN handlers : handlers[i] = topic
        \/ handlers' = Append(handlers, topic) /\ UNCHANGED nomem
        \/ nomem' = nomem \cup {topic} /\ UNCHANGED handlers
    BY <1>1 DEF SetHandler, TopicMatches
  <2>2. handlers \in Seq(Topics) /\ topic \in Topics
    BY DEF TypeOK
  <2>3. Range(handlers) \subseteq Range(handlers') /\ nomem \subseteq nomem'
    <3>1. CASE UNCHANGED handlers
      BY <2>1, <3>1 DEF Range
    <3>2. CASE handlers' = Append(handlers, topic) /\ UNCHANGED nomem
      BY <2>2, <3>2, RangeAppend
    <3>. QED
      BY <2>1, <3>1, <3>2
  <2>4. topic \in Range(handlers') \cup nomem'
    BY <2>1, <2>2, RangeAppend DEF Range
  <2>. QED
    BY <2>3, <2>4
<1>2. CASE ConnectStart \/ DisconnectStart \/ PublishStart \/ Destroy
  BY <1>2 DEF ConnectStart, DisconnectStart, PublishStart, Destroy, Enter
<1>3. CASE ConnectPoll \/ ConnectReset \/ Subscribe
  BY <1>3 DEF ConnectPoll, ConnectReset, Subscribe
<1>4. CASE DisconnectCall \/ DisconnectRead \/ DisconnectPoll \/ DisconnectReset
  BY <1>4 DEF DisconnectCall, DisconnectRead, DisconnectPoll, DisconnectReset
<1>5. CASE Send \/ RetryConnect
  BY <1>5 DEF Send, RetryConnect
<1>6. CASE DeliverAnswer \/ DeliverAfterFree
  BY <1>6 DEF DeliverAnswer, DeliverAfterFree, FreedBetweenCalls
<1>7. CASE Environment \/ UNCHANGED vars
  BY <1>7 DEF Environment, vars, appVars
<1>. QED
  BY <1>1, <1>2, <1>3, <1>4, <1>5, <1>6, <1>7 DEF Next, StartCall, ContinueCall, Callback

\* The topic of every message received is served.
InboxServed == \A i \in DOMAIN inbox : Served(inbox[i].topic)

LostInv == TypeOK /\ FreedBetweenCalls /\ SubscribedThenHandled /\ MessagesTypeOK /\ InboxServed

LEMMA InboxStep ==
    ASSUME LostInv, [MessagesNext]_allVars
    PROVE  InboxServed'
<1>1. [Next]_vars
  BY SessionSteps
<1>2. \A t : Served(t) => Served(t)'
  BY <1>1, ServedStep DEF LostInv
<1>3. CASE UNCHANGED inbox
  BY <1>2, <1>3 DEF LostInv, InboxServed, Served
<1>4. ASSUME NEW m \in Messages, Publish(m) PROVE InboxServed'
  <2>1. Served(m.topic)
    BY <1>4 DEF Publish, LostInv, SubscribedThenHandled, Served
  <2>2. inbox' = Append(inbox, m) /\ inbox \in Seq(Messages)
    BY <1>4 DEF Publish, LostInv, MessagesTypeOK
  <2>3. \A i \in DOMAIN inbox' : inbox'[i] = m \/ (i \in DOMAIN inbox /\ inbox'[i] = inbox[i])
    BY <2>2
  <2>. QED
    BY <1>2, <2>1, <2>3 DEF LostInv, InboxServed, Served
<1>5. CASE inbox # <<>> /\ inbox' = Tail(inbox)
  <2>1. inbox \in Seq(Messages)
    BY DEF LostInv, MessagesTypeOK
  <2>2. \A i \in DOMAIN inbox' : i + 1 \in DOMAIN inbox /\ inbox'[i] = inbox[i + 1]
    BY <1>5, <2>1, TailCases
  <2>. QED
    BY <1>2, <2>2 DEF LostInv, InboxServed, Served
<1>. QED
  BY <1>3, <1>4, <1>5
  DEF MessagesNext, SessionStep, CallbackStep, MessageStep, Dispatch, allVars, messageVars,
      SetActionHandler, SetMethodHandler, MessageArrived, LookupNamed, LookupAny,
      HandlerSends, HandlerReturns, MessageAfterFree

\* A message of a granted topic is lost only in the window before the connect
\* that subscribed the topic has registered its handler, or for want of memory:
\* never later, over any sequence of disconnects, lost connections and connects.
THEOREM LostOnly == MessagesSpec => LostOnlyInWindow
<1>1. MessagesInit => LostInv
  BY InitTyped, MessagesInitTyped
  DEF LostInv, MessagesInit, Init, PahoInit, FreedBetweenCalls, SubscribedThenHandled, InboxServed
<1>2. LostInv /\ [MessagesNext]_allVars => LostInv'
  BY SessionSteps, NextTyped, HandledStep, MessagesTyped, InboxStep DEF LostInv
<1>3. LostInv => (MessageArrived /\ fate' = "lost" =>
                    \/ pc = "handle" /\ topic = message'.topic
                    \/ message'.topic \in nomem)
  <2>. SUFFICES ASSUME LostInv, MessageArrived, fate' = "lost"
                PROVE  \/ pc = "handle" /\ topic = message'.topic
                       \/ message'.topic \in nomem
    OBVIOUS
  <2>1. message' = inbox[1] /\ 1 \in DOMAIN inbox
    BY TailCases DEF MessageArrived, LostInv, MessagesTypeOK
  <2>2. message'.topic \notin Range(handlers)
    BY DEF MessageArrived, HasHandler
  <2>. QED
    BY <2>1, <2>2 DEF LostInv, InboxServed, Served
<1>. QED
  BY <1>1, <1>2, <1>3, PTL DEF MessagesSpec, LostOnlyInWindow

-----------------------------------------------------------------------------
(* The number of steps that the messages received take.                    *)

\* At most four steps for a message, of which some are done for the one at hand.
DispatchRank ==
    4 * Len(inbox)
        + CASE cbpc = "named" -> 3 [] cbpc = "any" -> 2 [] cbpc = "user" -> 1 [] OTHER -> 0

\* The steps of the Paho thread at a message lower the rank, and only a message
\* that the broker publishes raises it: not a registration, nor a call, nor an
\* outcome callback.
DispatchCountsDown ==
    /\ Dispatch \/ HandlerSends \/ HandlerReturns => DispatchRank' < DispatchRank
    /\ (\A m \in Messages : ~Publish(m)) => DispatchRank' <= DispatchRank

LEMMA DispatchStep ==
    ASSUME MessagesTypeOK, MessagesTypeOK', MessagesNext
    PROVE  DispatchCountsDown
<1>. USE DEF DispatchRank
<1>1. DispatchRank \in Nat /\ DispatchRank' \in Nat
  <2>1. Len(inbox) \in Nat /\ Len(inbox') \in Nat
    BY DEF MessagesTypeOK
  <2>. QED
    BY <2>1
<1>2. inbox # <<>> => Len(inbox) \in Nat /\ Len(Tail(inbox)) = Len(inbox) - 1
  BY DEF MessagesTypeOK
<1>3. CASE MessageArrived \/ MessageAfterFree
  <2>1. CASE inbox # <<>> /\ inbox' = Tail(inbox) /\ cbpc = "idle"
             /\ cbpc' \in {"idle", "named", "crashed"}
    <3>1. Len(inbox') = Len(inbox) - 1 /\ Len(inbox) \in Nat
      BY <1>2, <2>1
    <3>2. DispatchRank' < DispatchRank
      BY <2>1, <3>1
    <3>. QED
      BY <1>1, <3>2 DEF DispatchCountsDown
  <2>2. CASE UNCHANGED inbox /\ cbpc \in {"named", "any"} /\ cbpc' \in {"idle", "crashed"}
    <3>1. Len(inbox) \in Nat
      BY DEF MessagesTypeOK
    <3>2. DispatchRank' < DispatchRank
      BY <2>2, <3>1
    <3>. QED
      BY <1>1, <3>2 DEF DispatchCountsDown
  <2>. QED
    BY <1>3, <2>1, <2>2 DEF MessageArrived, MessageAfterFree, Finish
<1>4. CASE LookupNamed \/ LookupAny \/ HandlerSends \/ HandlerReturns
  <2>1. Len(inbox) \in Nat /\ UNCHANGED inbox
    BY <1>4 DEF MessagesTypeOK, LookupNamed, LookupAny, HandlerSends, HandlerReturns
  <2>2. DispatchRank' < DispatchRank
    BY <1>4, <2>1 DEF LookupNamed, LookupAny, HandlerSends, HandlerReturns, Finish
  <2>. QED
    BY <1>1, <2>2 DEF DispatchCountsDown
<1>5. CASE UNCHANGED <<inbox, cbpc>> /\ ~(Dispatch \/ HandlerSends \/ HandlerReturns)
  BY <1>1, <1>5 DEF DispatchCountsDown
<1>6. CASE (\E m \in Messages : Publish(m)) /\ ~(Dispatch \/ HandlerSends \/ HandlerReturns)
  BY <1>6 DEF DispatchCountsDown
<1>7. CASE SessionStep \/ CallbackStep
  <2>1. UNCHANGED messageVars
    BY <1>7 DEF SessionStep, CallbackStep
  <2>2. ~(Dispatch \/ HandlerSends \/ HandlerReturns)
    BY <1>2, <2>1 DEF messageVars, Dispatch, MessageArrived, MessageAfterFree, LookupNamed, LookupAny,
                HandlerSends, HandlerReturns, Finish
  <2>. QED
    BY <1>5, <2>1, <2>2 DEF messageVars
<1>8. ASSUME NEW n \in Names \cup {NoName}, SetActionHandler(n) \/ SetMethodHandler(n)
      PROVE  DispatchCountsDown
  <2>1. actions' # actions \/ methods' # methods
    BY <1>8 DEF SetActionHandler, SetMethodHandler
  <2>2. ~(Dispatch \/ HandlerSends \/ HandlerReturns)
    BY <2>1 DEF Dispatch, MessageArrived, MessageAfterFree, LookupNamed, LookupAny,
                HandlerSends, HandlerReturns
  <2>. QED
    BY <1>5, <1>8, <2>2 DEF SetActionHandler, SetMethodHandler
<1>. QED
  BY <1>3, <1>4, <1>6, <1>7, <1>8 DEF MessagesNext, MessageStep, Dispatch

\* The Paho thread is done with each message after at most four steps of its
\* own, whatever the application thread does meanwhile, destroying the client
\* included, unless a send from a handler holds it for good.
THEOREM DispatchBounded ==
    MessagesSpec => [](DispatchRank \in Nat) /\ [][DispatchCountsDown]_allVars
<1>1. MessagesTypeOK => DispatchRank \in Nat
  BY DEF MessagesTypeOK, DispatchRank
<1>2. MessagesTypeOK /\ MessagesTypeOK' /\ [MessagesNext]_allVars => [DispatchCountsDown]_allVars
  BY DispatchStep
<1>. QED
  BY <1>1, <1>2, MessagesTypeCorrect, MessagesTyped, PTL DEF MessagesSpec
=============================================================================
