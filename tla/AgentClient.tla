----------------------------- MODULE AgentClient -----------------------------
(***************************************************************************)
(* One VeidesAgentClient (veides_base_client.c, veides_agent_client.c)     *)
(* between two threads: the application thread, which calls connect,       *)
(* disconnect, the send functions and destroy one after another and is     *)
(* interrupted wherever it sleeps, waits or gives up the mutex, and the    *)
(* Paho thread, which runs the SDK's callbacks.  They share one integer,   *)
(* client->connected: 1 after onConnect, 0 after onDisconnect, 0 - code    *)
(* after a failure.                                                        *)
(*                                                                         *)
(* A location of pc stands for a point in the code where the other thread  *)
(* may run; everything between two locations is one step.                  *)
(***************************************************************************)
EXTENDS PahoSession, Functions

CONSTANTS
    MaxPolls,   \* polls of a wait loop before VEIDES_RC_TIMEOUT, 30 in the code
    MaxCalls    \* bound: calls the application makes before destroy

ASSUME MaxPollsIsPositive == MaxPolls \in Nat \ {0}
ASSUME MaxCallsIsNat      == MaxCalls \in Nat

VARIABLES
    connected,  \* VeidesClient.connected
    handlers,   \* VeidesClient.handlers: the topics, in table order
    alive,      \* FALSE once the client is freed
    pc,         \* where the application thread is
    rc,         \* what the last finished call returned (or its running rc)
    topic,      \* the local topic of VeidesAgentClient_connect
    polls,      \* completed iterations of the wait loop being run
    seen,       \* the flag as last read, with the answer that was last then
    calls,      \* history: calls started
    last,       \* history: the answer delivered last
    quiet,      \* history: the current connect began with nothing outstanding
    overwrote,  \* history: a clear of the flag destroyed the newest report
    nomem,      \* history: topics whose registration failed
    wanted      \* history: topics subscribed since the last disconnect

flagVars  == <<connected, last, overwrote>>
tableVars == <<handlers, nomem>>
loopVars  == <<polls, seen>>
callVars  == <<calls, quiet>>
appVars   == <<flagVars, tableVars, loopVars, callVars, alive, pc, rc, topic, wanted>>
vars      == <<pahoVars, appVars>>

Locations == {"ready", "connect_poll", "connect_reset", "subscribe", "handle",
              "disconnect_call", "disconnect_read", "disconnect_poll",
              "disconnect_reset", "send", "retry", "crashed"}

\* What a callback stores in client->connected.
Effect(a) ==
    CASE a.cb = "onConnect"    -> 1
      [] a.cb = "onDisconnect" -> 0
      [] OTHER                 -> 0 - a.code

\* Before any answer the flag is 0, as after a disconnect.
NoAnswer == Answer("onDisconnect", 0, 0)

Init ==
    /\ PahoInit
    /\ connected = 0
    /\ handlers = <<>>
    /\ alive = TRUE
    /\ pc = "ready"
    /\ rc = VEIDES_RC_SUCCESS
    /\ topic = ActionTopic
    /\ polls = 0
    /\ seen = [flag |-> 0, answer |-> NoAnswer]
    /\ calls = 0
    /\ last = NoAnswer
    /\ quiet = FALSE
    /\ overwrote = FALSE
    /\ nomem = {}
    /\ wanted = {}

\* The application thread enters a call.
Enter ==
    /\ pc = "ready"
    /\ alive
    /\ calls < MaxCalls
    /\ calls' = calls + 1

Return(code) == pc' = "ready" /\ rc' = code

\* Reading client->connected under the mutex.
ReadFlag == seen' = [flag |-> connected, answer |-> last]

\* Clearing it under the mutex, after a failure was read from it.
ClearFlag ==
    /\ connected' = 0
    /\ overwrote' = (overwrote \/ connected # seen.flag)

-----------------------------------------------------------------------------
(* connect                                                                 *)

ConnectStart ==
    /\ Enter
    /\ quiet' = (connected = 0 /\ answers = <<>> /\ session = "idle")
    /\ polls' = 0
    /\ topic' = ActionTopic
    /\ \E r \in {MQTTASYNC_SUCCESS, MQTTASYNC_FAILURE} :
          /\ PahoConnect(calls + 1, r)
          /\ IF r = MQTTASYNC_SUCCESS THEN pc' = "connect_poll" /\ rc' = r
                                      ELSE Return(r)
    /\ UNCHANGED <<flagVars, tableVars, alive, seen, wanted>>

\* Mutant: the while is forgotten, one look at the flag is enough.
ConnectPollOnce ==
    /\ pc = "connect_poll"
    /\ ReadFlag
    /\ IF connected < 0 THEN pc' = "connect_reset" ELSE pc' = "subscribe"
    /\ UNCHANGED <<pahoVars, flagVars, tableVars, callVars, alive, rc, topic, polls, wanted>>

\* Mutant: the timeout ends the loop and leaves rc as it was.
ConnectPollTimeoutIsSuccess ==
    /\ pc = "connect_poll"
    /\ ReadFlag
    /\ polls' = polls + 1
    /\ IF connected < 0 THEN pc' = "connect_reset"
       ELSE IF connected # 0 \/ polls + 1 >= MaxPolls THEN pc' = "subscribe"
       ELSE pc' = "connect_poll"
    /\ UNCHANGED <<pahoVars, flagVars, tableVars, callVars, alive, rc, topic, wanted>>

\* Mutant: the loop has no limit.
ConnectPollForever ==
    /\ pc = "connect_poll"
    /\ ReadFlag
    /\ pc' = IF connected < 0 THEN "connect_reset"
             ELSE IF connected = 0 THEN "connect_poll" ELSE "subscribe"
    /\ UNCHANGED <<pahoVars, flagVars, tableVars, callVars, alive, rc, topic, polls, wanted>>

\* Mutant: a failure makes the loop ask Paho again before it is recorded.
ConnectPollAsksAgain ==
    /\ pc = "connect_poll"
    /\ ReadFlag
    /\ IF connected < 0
       THEN pc' = "connect_reset" /\ PahoConnect(calls, MQTTASYNC_SUCCESS)
       ELSE pc' = (IF connected = 0 THEN "connect_poll" ELSE "subscribe")
            /\ UNCHANGED pahoVars
    /\ UNCHANGED <<flagVars, tableVars, callVars, alive, rc, topic, polls, wanted>>

\* One turn of the wait loop.  A flag above 1, which a failure with a code
\* below -1 leaves, ends the loop with rc still 0.
ConnectPoll ==
    /\ pc = "connect_poll"
    /\ ReadFlag
    /\ \/ connected = 1 /\ pc' = "subscribe" /\ UNCHANGED <<rc, polls>>
       \/ connected < 0 /\ pc' = "connect_reset" /\ UNCHANGED <<rc, polls>>
       \/ /\ connected # 1 /\ connected >= 0
          /\ polls' = polls + 1
          /\ IF polls + 1 >= MaxPolls
             THEN Return(VEIDES_RC_TIMEOUT)
             ELSE /\ pc' = IF connected = 0 THEN "connect_poll" ELSE "subscribe"
                  /\ UNCHANGED rc
    /\ UNCHANGED <<pahoVars, flagVars, tableVars, callVars, alive, topic, wanted>>

\* The failure is taken from the flag under a second lock.
ConnectReset ==
    /\ pc = "connect_reset"
    /\ ClearFlag
    /\ Return(0 - seen.flag)
    /\ UNCHANGED <<pahoVars, tableVars, callVars, loopVars, alive, topic, last, wanted>>

\* veides_client_subscribe of the current topic.  It waits while the flag is
\* 0, five times at most, and then asks whatever the flag is.  The caller
\* logs a failure and goes on.
Subscribe ==
    /\ pc = "subscribe"
    /\ pc' = "handle"
    /\ \E r \in {MQTTASYNC_SUCCESS, MQTTASYNC_FAILURE, MQTTASYNC_DISCONNECTED} :
          /\ PahoSubscribe(topic, r)
          /\ rc' = r
          /\ wanted' = IF r = MQTTASYNC_SUCCESS THEN wanted \cup {topic} ELSE wanted
    /\ UNCHANGED <<flagVars, tableVars, callVars, loopVars, alive, topic>>

\* Mutant: the result of the comparison is tested the wrong way round.
TopicDiffers(sub, t) == sub # t

\* veides_utils_topic_match of the two topics the SDK subscribes to: a topic
\* that holds a wildcard matches nothing, not even the same subscription.
TopicMatches(sub, t) == sub = t /\ t # MethodTopic

\* VeidesAgentClient_connect goes on with the second topic, or is done, whatever
\* the codes of the first were; rc is overwritten by the next one.
NextTopic ==
    IF topic = ActionTopic THEN topic' = MethodTopic /\ pc' = "subscribe"
                           ELSE pc' = "ready" /\ UNCHANGED topic

\* Mutant: the new handler is added before its topic is copied into it.
SetHandlerWithoutTopic ==
    /\ pc = "handle"
    /\ handlers' = Append(handlers, "")
    /\ rc' = VEIDES_RC_SUCCESS
    /\ pc' = "ready"
    /\ UNCHANGED <<pahoVars, flagVars, callVars, loopVars, alive, topic, nomem, wanted>>

\* veides_client_setHandler of the current topic: a handler whose topic matches
\* is updated, or else one is added, or realloc fails.
SetHandler ==
    /\ pc = "handle"
    /\ \/ /\ \E i \in DOMAIN handlers : TopicMatches(handlers[i], topic)
          /\ rc' = VEIDES_RC_SUCCESS
          /\ UNCHANGED <<handlers, nomem>>
       \/ /\ ~ \E i \in DOMAIN handlers : TopicMatches(handlers[i], topic)
          /\ \/ /\ handlers' = Append(handlers, topic)
                /\ rc' = VEIDES_RC_SUCCESS
                /\ UNCHANGED nomem
             \/ /\ rc' = VEIDES_RC_NOMEM
                /\ nomem' = nomem \cup {topic}
                /\ UNCHANGED handlers
    /\ NextTopic
    /\ UNCHANGED <<pahoVars, flagVars, callVars, loopVars, alive, wanted>>

-----------------------------------------------------------------------------
(* disconnect                                                              *)

\* The flag decides whether anything is done at all.
DisconnectStart ==
    /\ Enter
    /\ IF connected = 1 THEN pc' = "disconnect_call" /\ rc' = VEIDES_RC_SUCCESS
                        ELSE Return(VEIDES_RC_SUCCESS)
    /\ polls' = 0
    /\ UNCHANGED <<pahoVars, flagVars, tableVars, alive, topic, seen, quiet, wanted>>

\* Mutant: the client is marked disconnected as soon as it has been asked to.
DisconnectCallClears ==
    /\ pc = "disconnect_call"
    /\ \E r \in {MQTTASYNC_SUCCESS, MQTTASYNC_FAILURE, MQTTASYNC_DISCONNECTED} :
          PahoDisconnect(r) /\ Return(r)
    /\ connected' = 0
    /\ wanted' = {}
    /\ UNCHANGED <<last, overwrote, tableVars, callVars, loopVars, alive, topic>>

\* Only the code that says there was no connection leads to the wait loop;
\* every other one, success included, is returned.
DisconnectCall ==
    /\ pc = "disconnect_call"
    /\ \E r \in {MQTTASYNC_SUCCESS, MQTTASYNC_FAILURE, MQTTASYNC_DISCONNECTED} :
          /\ PahoDisconnect(r)
          /\ IF r = MQTTASYNC_DISCONNECTED
             THEN pc' = "disconnect_read" /\ rc' = VEIDES_RC_SUCCESS
             ELSE Return(r)
    /\ wanted' = {}
    /\ UNCHANGED <<flagVars, tableVars, callVars, loopVars, alive, topic>>

DisconnectRead ==
    /\ pc = "disconnect_read"
    /\ ReadFlag
    /\ pc' = IF connected = 1 THEN "disconnect_poll" ELSE "ready"
    /\ UNCHANGED <<pahoVars, flagVars, tableVars, callVars, alive, rc, topic, polls, wanted>>

\* Mutant: the loop has no limit.
DisconnectPollForever ==
    /\ pc = "disconnect_poll"
    /\ ReadFlag
    /\ pc' = IF connected < 0 THEN "disconnect_reset"
             ELSE IF connected = 1 THEN "disconnect_poll" ELSE "ready"
    /\ UNCHANGED <<pahoVars, flagVars, tableVars, callVars, alive, rc, topic, polls, wanted>>

DisconnectPoll ==
    /\ pc = "disconnect_poll"
    /\ ReadFlag
    /\ \/ connected = 0 /\ Return(rc) /\ UNCHANGED polls
       \/ connected < 0 /\ pc' = "disconnect_reset" /\ UNCHANGED <<rc, polls>>
       \/ /\ connected > 0
          /\ polls' = polls + 1
          /\ IF polls + 1 >= MaxPolls
             THEN Return(VEIDES_RC_TIMEOUT)
             ELSE /\ pc' = IF connected = 1 THEN "disconnect_poll" ELSE "ready"
                  /\ UNCHANGED rc
    /\ UNCHANGED <<pahoVars, flagVars, tableVars, callVars, alive, topic, wanted>>

DisconnectReset ==
    /\ pc = "disconnect_reset"
    /\ ClearFlag
    /\ Return(0 - seen.flag)
    /\ UNCHANGED <<pahoVars, tableVars, callVars, loopVars, alive, topic, last, wanted>>

-----------------------------------------------------------------------------
(* publish, under every send function                                      *)

PublishStart ==
    /\ Enter
    /\ IF connected = 0 THEN Return(VEIDES_RC_NOT_CONNECTED)
                        ELSE pc' = "send" /\ rc' = VEIDES_RC_SUCCESS
    /\ UNCHANGED <<pahoVars, flagVars, tableVars, loopVars, alive, topic, quiet, wanted>>

Send ==
    /\ pc = "send"
    /\ \E r \in {MQTTASYNC_SUCCESS, MQTTASYNC_FAILURE} :
          /\ PahoSend(r)
          /\ IF r = MQTTASYNC_SUCCESS THEN Return(r) ELSE pc' = "retry" /\ rc' = r
    /\ UNCHANGED <<flagVars, tableVars, callVars, loopVars, alive, topic, wanted>>

\* veides_client_retry_connection is given the Paho handle where it expects a
\* VeidesClient, so connect reads its properties from foreign memory.  Either
\* they fail veides_properties_validate, at this and every later attempt, or
\* reading them faults.
RetryConnect ==
    /\ pc = "retry"
    /\ pc' \in {"retry", "crashed"}
    /\ UNCHANGED <<pahoVars, flagVars, tableVars, callVars, loopVars, alive, rc, topic, wanted>>

-----------------------------------------------------------------------------
(* destroy and the callbacks                                               *)

\* The client is freed; the Paho client is not, and keeps running.
Destroy ==
    /\ pc = "ready"
    /\ alive
    /\ alive' = FALSE
    /\ UNCHANGED <<pahoVars, flagVars, tableVars, callVars, loopVars, pc, rc, topic, wanted>>

\* onConnect, onConnectFailure, onDisconnect or onDisconnectFailure.
DeliverAnswer ==
    /\ alive
    /\ answers # <<>>
    /\ connected' = Effect(Head(answers))
    /\ last' = Head(answers)
    /\ overwrote' = FALSE
    /\ answers' = Tail(answers)
    /\ UNCHANGED <<tableVars, callVars, loopVars, alive, pc, rc, topic, wanted>>
    /\ UNCHANGED <<session, attempt, requests, subs, drops>>

\* The same callback writing into freed memory: it corrupts the heap, or by
\* luck nothing.
DeliverAfterFree ==
    /\ ~alive
    /\ answers # <<>>
    /\ answers' = Tail(answers)
    /\ pc' \in {pc, "crashed"}
    /\ UNCHANGED <<flagVars, tableVars, callVars, loopVars, alive, rc, topic, wanted>>
    /\ UNCHANGED <<session, attempt, requests, subs, drops>>

-----------------------------------------------------------------------------

\* The steps of a call that has begun and is not stuck in veides_client_publish.
ContinueCall ==
    \/ ConnectPoll \/ ConnectReset \/ Subscribe \/ SetHandler
    \/ DisconnectCall \/ DisconnectRead \/ DisconnectPoll \/ DisconnectReset
    \/ Send

StartCall == ConnectStart \/ DisconnectStart \/ PublishStart \/ Destroy

Environment == pc # "crashed" /\ PahoStep /\ UNCHANGED appVars
Callback    == pc # "crashed" /\ (DeliverAnswer \/ DeliverAfterFree)

Next == StartCall \/ ContinueCall \/ RetryConnect \/ Callback \/ Environment

Spec == Init /\ [][Next]_vars

\* A thread that is awake runs on, Paho runs its callbacks, and Paho and the
\* broker answer what they were asked.  Nothing makes the application call.
Fairness ==
    /\ WF_vars(ContinueCall)
    /\ WF_vars(Callback)
    /\ WF_vars(pc # "crashed" /\ PahoProgress /\ UNCHANGED appVars)

FairSpec == Spec /\ Fairness

-----------------------------------------------------------------------------
(* Properties                                                              *)

AnswerRecords == [cb : Callbacks, code : FailureCodes \cup {0}, call : Nat]

\* Type correctness.

TypeOK ==
    /\ session \in Sessions
    /\ attempt \in Nat
    /\ answers \in Seq(AnswerRecords)
    /\ requests \subseteq Topics /\ subs \subseteq Topics
    /\ drops \in Nat
    /\ connected \in Int
    /\ handlers \in Seq(Topics)
    /\ alive \in BOOLEAN
    /\ pc \in Locations
    /\ rc \in Int
    /\ topic \in Topics
    /\ polls \in Nat
    /\ seen \in [flag : Int, answer : AnswerRecords]
    /\ calls \in Nat
    /\ last \in AnswerRecords
    /\ quiet \in BOOLEAN /\ overwrote \in BOOLEAN
    /\ nomem \subseteq Topics /\ wanted \subseteq Topics

\* A connect that goes on to subscribe was told to by a callback: it read a
\* flag set by onConnect, or by a failure whose code is negative (the only
\* way 0 - code is above 0).  It never goes on after a timeout, a failure
\* with a positive code or a disconnect.
SuccessIsReported ==
    pc \in {"subscribe", "handle"} =>
        seen.answer.cb = "onConnect" \/ seen.answer.code < 0

\* The answer a connect acts on is its own if nothing was outstanding when it
\* began: the flag was 0, no callback was due, Paho had no session.  (Callers
\* whose earlier call timed out, or who connect right after a disconnect, get
\* no such promise: the code does not tell answers of different calls apart.)
OwnAnswerOnQuietClient ==
    quiet /\ pc \in {"connect_reset", "subscribe", "handle"} =>
        seen.answer.call = calls

\* connect reads a failure under the mutex and clears the flag under a second
\* lock.  The clear can destroy a newer report only if the failure it read
\* was an old one, left behind by an earlier call.
ClearsOnlyOwnReport ==
    [][ConnectReset /\ seen.answer.call = calls => connected = seen.flag]_vars

\* While Paho holds a session, and every callback that is due has run, the
\* flag that gates publish and disconnect says connected, unless a failed call
\* cleared it after the report of that session had come in.
FlagMirrorsSession ==
    session \in {"up", "down", "closing"} /\ answers = <<>> /\ alive =>
        connected = 1 \/ overwrote

\* A topic the broker has or may grant to this session is in the handler
\* table, or its registration is the next step of the running connect, or it
\* failed for want of memory: no other path leaves messages without handler.
SubscribedThenHandled ==
    \A t \in subs \cup requests :
        \/ t \in Range(handlers)
        \/ pc = "handle" /\ topic = t
        \/ t \in nomem

\* A connect or disconnect returns (or the process dies), whatever the
\* network does: the wait loops are bounded.
CallsReturn ==
    (pc \in Locations \ {"ready", "send", "retry", "crashed"})
        ~> (pc \in {"ready", "crashed"})

-----------------------------------------------------------------------------
(* Statements of the documentation that the code does not keep             *)

\* CHANGELOG.md: "Automatic reconnect/resubscribe".  Whenever there is a
\* session, the topics subscribed before are subscribed in it.
ResubscribesAfterReconnect ==
    (alive /\ session = "up" /\ wanted # {})
        ~> (wanted \subseteq subs \/ session # "up" \/ ~alive)

\* "Connect Agent to Veides": connect succeeds only if it was connected.
ConnectedOnlyIfAccepted ==
    pc \in {"subscribe", "handle"} => seen.answer.cb = "onConnect"

\* samples/agentBasic.c disconnects and then clears the client, as if the
\* disconnect were over when the call returns: once the client is freed, no
\* answer to a disconnect is to come.
DisconnectOverBeforeDestroy ==
    ~alive => session # "closing" /\ \A i \in DOMAIN answers : answers[i].call # 0

\* "Connection is lost, retry connection and republish message.": publish
\* returns after retrying.
PublishReturns == (pc = "send") ~> (pc = "ready")
=============================================================================
