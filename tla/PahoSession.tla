----------------------------- MODULE PahoSession -----------------------------
(***************************************************************************)
(* The Paho MQTTAsync client and the broker behind it, as far as the SDK   *)
(* can observe them.  This is an environment model: Paho is not part of    *)
(* the repository, and what it may do is read off the options and the      *)
(* callbacks veides_base_client.c hands to it (automaticReconnect = 1,     *)
(* cleansession = 1, sendWhileDisconnected = 1, no connectionLost and no   *)
(* connected callback).                                                    *)
(*                                                                         *)
(* A request returns a code at once; its outcome comes later as an answer, *)
(* one of the SDK's four callbacks, which the Paho thread delivers in the  *)
(* order the outcomes occurred.  Delivery is an action of AgentClient.     *)
(***************************************************************************)
EXTENDS VeidesRC, Sequences

CONSTANTS
    ActionTopic,    \* "agent/<id>/action_received"
    MethodTopic,    \* "agent/<id>/method/+"
    FailureCodes,   \* codes a failed connect or disconnect is answered with
    BrokerRefuses,  \* topics the broker may refuse to grant
    MaxDrops        \* bound: connections the network may lose

Topics == {ActionTopic, MethodTopic}

ASSUME TopicsDistinct == ActionTopic # MethodTopic
ASSUME CodesAreInts   == FailureCodes \subseteq Int
ASSUME RefusesTopics  == BrokerRefuses \subseteq Topics
ASSUME MaxDropsIsNat  == MaxDrops \in Nat

VARIABLES
    session,    \* the connection as Paho sees it
    attempt,    \* the number of the connect call being carried out, 0 if none
    answers,    \* outcomes whose callback has not run yet, oldest first
    requests,   \* topics asked for and not yet acknowledged
    subs,       \* topics the broker delivers to this session
    drops       \* connections lost so far

pahoVars == <<session, attempt, answers, requests, subs, drops>>

Sessions  == {"idle", "connecting", "up", "down", "closing"}
Callbacks == {"onConnect", "onConnectFailure", "onDisconnect", "onDisconnectFailure"}

\* An answer names its callback, the code it carries (0 when the response is
\* NULL) and the connect call it answers (0 for the disconnect callbacks).
Answer(cb, code, call) == [cb |-> cb, code |-> code, call |-> call]

PahoInit ==
    /\ session = "idle"
    /\ attempt = 0
    /\ answers = <<>>
    /\ requests = {}
    /\ subs = {}
    /\ drops = 0

-----------------------------------------------------------------------------
(* Requests of the SDK; r is the code the request returns at once.         *)

\* MQTTAsync_connect of call n.  It is carried out when there is no
\* connection; a client that is connecting, connected or closing accepts the
\* request and drops it, and one that waits to reconnect may do either.
PahoConnect(n, r) ==
    /\ UNCHANGED <<answers, requests, subs, drops>>
    /\ \/ /\ r = MQTTASYNC_SUCCESS
          /\ session \in {"idle", "down"}
          /\ session' = "connecting"
          /\ attempt' = n
       \/ /\ r = MQTTASYNC_SUCCESS
          /\ session # "idle"
          /\ UNCHANGED <<session, attempt>>
       \/ /\ r = MQTTASYNC_FAILURE
          /\ UNCHANGED <<session, attempt>>

\* MQTTAsync_disconnect.  Without a connection it reports so, gives up
\* reconnecting and never calls back.
PahoDisconnect(r) ==
    /\ UNCHANGED <<attempt, answers, requests, subs, drops>>
    /\ \/ /\ r = MQTTASYNC_SUCCESS
          /\ session \in {"up", "closing"}
          /\ session' = "closing"
       \/ /\ r = MQTTASYNC_DISCONNECTED
          /\ session \notin {"up", "closing"}
          /\ session' = IF session = "down" THEN "idle" ELSE session
       \/ /\ r = MQTTASYNC_FAILURE
          /\ session \in {"up", "closing"}
          /\ UNCHANGED session

\* MQTTAsync_subscribe of topic t.
PahoSubscribe(t, r) ==
    /\ UNCHANGED <<session, attempt, answers, subs, drops>>
    /\ \/ /\ r = MQTTASYNC_SUCCESS
          /\ session \in {"up", "closing"}
          /\ requests' = requests \cup {t}
       \/ /\ r = MQTTASYNC_FAILURE
          /\ session \in {"up", "closing"}
          /\ UNCHANGED requests
       \/ /\ r = MQTTASYNC_DISCONNECTED
          /\ session \notin {"up", "closing"}
          /\ UNCHANGED requests

\* MQTTAsync_send: sendWhileDisconnected lets it buffer while Paho is
\* reconnecting; a full buffer and a client that is not connected fail.
PahoSend(r) ==
    /\ UNCHANGED pahoVars
    /\ \/ r = MQTTASYNC_SUCCESS /\ session # "idle"
       \/ r = MQTTASYNC_FAILURE

-----------------------------------------------------------------------------
(* Events of the network and the broker.                                   *)

SessionAccept ==
    /\ session = "connecting"
    /\ session' = "up"
    /\ attempt' = 0
    /\ answers' = Append(answers, Answer("onConnect", 0, attempt))
    /\ UNCHANGED <<requests, subs, drops>>

SessionRefuse(c) ==
    /\ session = "connecting"
    /\ session' = "idle"
    /\ attempt' = 0
    /\ answers' = Append(answers, Answer("onConnectFailure", c, attempt))
    /\ UNCHANGED <<requests, subs, drops>>

\* A clean session takes its subscriptions with it.
SessionDrop ==
    /\ session = "up"
    /\ drops < MaxDrops
    /\ session' = "down"
    /\ drops' = drops + 1
    /\ requests' = {}
    /\ subs' = {}
    /\ UNCHANGED <<attempt, answers>>

\* The automatic reconnect: Paho calls neither onSuccess nor, as none is
\* set, a connected callback.
SessionReconnect ==
    /\ session = "down"
    /\ session' = "up"
    /\ UNCHANGED <<attempt, answers, requests, subs, drops>>

SessionClosed(cb, c) ==
    /\ session = "closing"
    /\ session' = "idle"
    /\ answers' = Append(answers, Answer(cb, c, 0))
    /\ requests' = {}
    /\ subs' = {}
    /\ UNCHANGED <<attempt, drops>>

SubscribeAck(t) ==
    /\ t \in requests
    /\ requests' = requests \ {t}
    /\ \/ subs' = subs \cup {t}
       \/ t \in BrokerRefuses /\ UNCHANGED subs
    /\ UNCHANGED <<session, attempt, answers, drops>>

\* What Paho and the broker owe: an attempt, a close and a subscription are
\* answered, a lost connection is re-established.
PahoProgress ==
    \/ SessionAccept
    \/ \E c \in FailureCodes : SessionRefuse(c)
    \/ SessionReconnect
    \/ SessionClosed("onDisconnect", 0)
    \/ \E c \in FailureCodes : SessionClosed("onDisconnectFailure", c)
    \/ \E t \in Topics : SubscribeAck(t)

PahoStep == PahoProgress \/ SessionDrop
=============================================================================
