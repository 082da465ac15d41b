-------------------------- MODULE AgentClientProofs --------------------------
(***************************************************************************)
(* Proofs about AgentClient: its type invariant and its safety properties, *)
(* for every number of calls, polls and lost connections and every set of  *)
(* failure codes.                                                          *)
(***************************************************************************)
EXTENDS AgentClient, TLAPS

\* What the environment does, one disjunct per event.
LEMMA PahoCases ==
    ASSUME PahoStep
    PROVE  \/ SessionAccept
           \/ \E c \in FailureCodes : SessionRefuse(c)
           \/ SessionReconnect
           \/ SessionClosed("onDisconnect", 0)
           \/ \E c \in FailureCodes : SessionClosed("onDisconnectFailure", c)
           \/ \E t \in Topics : SubscribeAck(t)
           \/ SessionDrop
BY DEF PahoStep, PahoProgress

\* An answer made of a callback, a code and a call number is an answer record.
LEMMA AnswerTyped ==
    ASSUME NEW cb \in Callbacks, NEW code \in FailureCodes \cup {0}, NEW call \in Nat
    PROVE  Answer(cb, code, call) \in AnswerRecords
BY DEF Answer, AnswerRecords

\* What a callback stores in client->connected is an integer.
LEMMA EffectTyped ==
    ASSUME NEW a \in AnswerRecords
    PROVE  Effect(a) \in Int
BY CodesAreInts DEF Effect, AnswerRecords

\* Types of Paho's variables across a request or an event.
LEMMA PahoTyped ==
    ASSUME TypeOK, PahoStep
    PROVE  /\ session' \in Sessions
           /\ attempt' \in Nat
           /\ answers' \in Seq(AnswerRecords)
           /\ requests' \subseteq Topics /\ subs' \subseteq Topics
           /\ drops' \in Nat
<1>1. CASE SessionAccept
  <2>1. Answer("onConnect", 0, attempt) \in AnswerRecords
    BY AnswerTyped DEF TypeOK, Callbacks
  <2> QED BY <1>1, <2>1 DEF SessionAccept, TypeOK, Sessions
<1>2. ASSUME NEW c \in FailureCodes, SessionRefuse(c)
      PROVE  /\ session' \in Sessions
             /\ attempt' \in Nat
             /\ answers' \in Seq(AnswerRecords)
             /\ requests' \subseteq Topics /\ subs' \subseteq Topics
             /\ drops' \in Nat
  <2>1. Answer("onConnectFailure", c, attempt) \in AnswerRecords
    BY AnswerTyped DEF TypeOK, Callbacks
  <2> QED BY <1>2, <2>1 DEF SessionRefuse, TypeOK, Sessions
<1>3. CASE SessionReconnect
  BY <1>3 DEF SessionReconnect, TypeOK, Sessions
<1>4. ASSUME NEW cb \in Callbacks, NEW c \in FailureCodes \cup {0}, SessionClosed(cb, c)
      PROVE  /\ session' \in Sessions
             /\ attempt' \in Nat
             /\ answers' \in Seq(AnswerRecords)
             /\ requests' \subseteq Topics /\ subs' \subseteq Topics
             /\ drops' \in Nat
  <2>1. Answer(cb, c, 0) \in AnswerRecords
    BY AnswerTyped
  <2> QED BY <1>4, <2>1 DEF SessionClosed, TypeOK, Sessions
<1>5. ASSUME NEW t \in Topics, SubscribeAck(t)
      PROVE  /\ session' \in Sessions
             /\ attempt' \in Nat
             /\ answers' \in Seq(AnswerRecords)
             /\ requests' \subseteq Topics /\ subs' \subseteq Topics
             /\ drops' \in Nat
  BY <1>5 DEF SubscribeAck, TypeOK
<1>6. CASE SessionDrop
  BY <1>6 DEF SessionDrop, TypeOK, Sessions
<1> QED
  BY <1>1, <1>2, <1>3, <1>4, <1>5, <1>6, PahoCases DEF Callbacks

\* veides_client_create leaves every variable in its type.
LEMMA InitTyped == Init => TypeOK
<1> SUFFICES ASSUME Init PROVE TypeOK
  OBVIOUS
<1>1. NoAnswer \in AnswerRecords
  BY AnswerTyped DEF NoAnswer, Callbacks
<1>2. [flag |-> 0, answer |-> NoAnswer] \in [flag : Int, answer : AnswerRecords]
  BY <1>1
<1>3. answers \in Seq(AnswerRecords) /\ handlers \in Seq(Topics)
  BY DEF Init, PahoInit
<1> QED
  BY <1>1, <1>2, <1>3 DEF Init, PahoInit, TypeOK, Sessions, Locations, Topics,
    VEIDES_RC_SUCCESS

\* Every step of either thread keeps every variable in its type.
LEMMA NextTyped == TypeOK /\ [Next]_vars => TypeOK'
<1> SUFFICES ASSUME TypeOK, [Next]_vars PROVE TypeOK'
  OBVIOUS
<1> USE DEF appVars, flagVars, tableVars, loopVars, callVars, pahoVars
<1>1. CASE ConnectStart
  BY <1>1 DEF TypeOK, ConnectStart, Enter, Return, PahoConnect, Sessions, Locations,
    Topics, MQTTASYNC_SUCCESS, MQTTASYNC_FAILURE
<1>2. CASE ConnectPoll
  BY <1>2 DEF TypeOK, ConnectPoll, ReadFlag, Return, Locations, VEIDES_RC_TIMEOUT
<1>3. CASE ConnectReset
  BY <1>3 DEF TypeOK, ConnectReset, ClearFlag, Return, Locations
<1>4. CASE Subscribe
  BY <1>4 DEF TypeOK, Subscribe, PahoSubscribe, Locations, MQTTASYNC_SUCCESS,
    MQTTASYNC_FAILURE, MQTTASYNC_DISCONNECTED
<1>5. CASE SetHandler
  <2>1. /\ handlers \in Seq(Topics) /\ topic \in Topics /\ nomem \subseteq Topics
        /\ MethodTopic \in Topics
    BY DEF TypeOK, Topics
  <2>2. handlers' \in Seq(Topics) /\ nomem' \subseteq Topics /\ rc' \in Int
    BY <1>5, <2>1 DEF SetHandler, VEIDES_RC_SUCCESS, VEIDES_RC_NOMEM
  <2>3. topic' \in Topics /\ pc' \in Locations
    BY <1>5, <2>1 DEF SetHandler, NextTopic, Locations
  <2> QED BY <1>5, <2>2, <2>3 DEF TypeOK, SetHandler
<1>6. CASE DisconnectStart
  BY <1>6 DEF TypeOK, DisconnectStart, Enter, Return, Locations, VEIDES_RC_SUCCESS
<1>7. CASE DisconnectCall
  BY <1>7 DEF TypeOK, DisconnectCall, PahoDisconnect, Return, Sessions, Locations,
    MQTTASYNC_SUCCESS, MQTTASYNC_FAILURE, MQTTASYNC_DISCONNECTED, VEIDES_RC_SUCCESS
<1>8. CASE DisconnectRead
  BY <1>8 DEF TypeOK, DisconnectRead, ReadFlag, Locations
<1>9. CASE DisconnectPoll
  BY <1>9 DEF TypeOK, DisconnectPoll, ReadFlag, Return, Locations, VEIDES_RC_TIMEOUT
<1>10. CASE DisconnectReset
  BY <1>10 DEF TypeOK, DisconnectReset, ClearFlag, Return, Locations
<1>11. CASE PublishStart
  BY <1>11 DEF TypeOK, PublishStart, Enter, Return, Locations, VEIDES_RC_SUCCESS,
    VEIDES_RC_NOT_CONNECTED
<1>12. CASE Send
  BY <1>12 DEF TypeOK, Send, PahoSend, Return, Locations, MQTTASYNC_SUCCESS, MQTTASYNC_FAILURE
<1>13. CASE RetryConnect
  BY <1>13 DEF TypeOK, RetryConnect, Locations
<1>14. CASE Destroy
  BY <1>14 DEF TypeOK, Destroy
<1>15. CASE DeliverAnswer
  <2>1. Head(answers) \in AnswerRecords /\ Tail(answers) \in Seq(AnswerRecords)
    BY <1>15 DEF TypeOK, DeliverAnswer
  <2>2. Effect(Head(answers)) \in Int
    BY <2>1, EffectTyped
  <2> QED BY <1>15, <2>1, <2>2 DEF TypeOK, DeliverAnswer
<1>16. CASE DeliverAfterFree
  <2>1. Tail(answers) \in Seq(AnswerRecords)
    BY <1>16 DEF TypeOK, DeliverAfterFree
  <2> QED BY <1>16, <2>1 DEF TypeOK, DeliverAfterFree, Locations
<1>17. CASE Environment
  BY <1>17, PahoTyped DEF TypeOK, Environment
<1>18. CASE UNCHANGED vars
  BY <1>18 DEF TypeOK, vars
<1> QED
  BY <1>1, <1>2, <1>3, <1>4, <1>5, <1>6, <1>7, <1>8, <1>9, <1>10, <1>11, <1>12,
    <1>13, <1>14, <1>15, <1>16, <1>17, <1>18
  DEF Next, StartCall, ContinueCall, Callback

\* Every variable keeps its type, whatever the bounds.
THEOREM TypeCorrect == Spec => []TypeOK
BY InitTyped, NextTyped, PTL DEF Spec

-----------------------------------------------------------------------------
(* Sequences.                                                              *)

\* An element of an extended sequence is an old one or the new one.
LEMMA AppendCases ==
    ASSUME NEW S, NEW s \in Seq(S), NEW e \in S, NEW i \in DOMAIN Append(s, e)
    PROVE  \/ i \in DOMAIN s /\ Append(s, e)[i] = s[i]
           \/ i = Len(s) + 1 /\ Append(s, e)[i] = e
OBVIOUS

\* The tail is the sequence without its first element.
LEMMA TailCases ==
    ASSUME NEW S, NEW s \in Seq(S), s # <<>>
    PROVE  /\ 1 \in DOMAIN s /\ Head(s) = s[1] /\ Len(s) \in Nat \ {0}
           /\ Len(Tail(s)) = Len(s) - 1
           /\ \A i \in DOMAIN Tail(s) : i + 1 \in DOMAIN s /\ Tail(s)[i] = s[i + 1]
OBVIOUS

\* Appending an element adds it to the range.
LEMMA RangeAppend ==
    ASSUME NEW S, NEW s \in Seq(S), NEW e \in S
    PROVE  Range(Append(s, e)) = Range(s) \cup {e}
<1>1. /\ DOMAIN Append(s, e) = DOMAIN s \cup {Len(s) + 1}
      /\ \A i \in DOMAIN s : Append(s, e)[i] = s[i]
      /\ Append(s, e)[Len(s) + 1] = e
  OBVIOUS
<1> QED BY <1>1 DEF Range

\* A sequence of length 0 is the empty one.
LEMMA EmptyAnswers ==
    ASSUME NEW S, NEW s \in Seq(S), Len(s) = 0
    PROVE  s = <<>>
OBVIOUS

\* A sequence whose tail is empty has one element, its head.
LEMMA LastAnswer ==
    ASSUME NEW S, NEW s \in Seq(S), s # <<>>, Tail(s) = <<>>
    PROVE  Len(s) = 1 /\ Head(s) = s[1]
<1>1. Len(Tail(s)) = 0
  <2>1. Len(<<>>) = 0
    OBVIOUS
  <2> QED BY <2>1
<1> QED BY <1>1, TailCases

\* The numbers of calls that answers carry are naturals.
LEMMA CallsTyped ==
    ASSUME TypeOK
    PROVE  /\ calls \in Nat /\ attempt \in Nat /\ last.call \in Nat
           /\ \A i \in DOMAIN answers : answers[i].call \in Nat
<1>1. answers \in Seq(AnswerRecords) /\ last \in AnswerRecords
  BY DEF TypeOK
<1>2. \A i \in DOMAIN answers : answers[i] \in AnswerRecords
  BY <1>1
<1>3. \A a \in AnswerRecords : a.call \in Nat
  BY DEF AnswerRecords
<1>4. calls \in Nat /\ attempt \in Nat
  BY DEF TypeOK
<1> QED BY <1>1, <1>2, <1>3, <1>4

-----------------------------------------------------------------------------
(* Who writes what.                                                        *)

\* client->connected is written by the callbacks and the two resets only.
LEMMA FlagWriters ==
    ASSUME [Next]_vars
    PROVE  UNCHANGED flagVars \/ ConnectReset \/ DisconnectReset \/ DeliverAnswer
BY DEF Next, StartCall, ContinueCall, Callback, Environment, vars, appVars,
   ConnectStart, ConnectPoll, Subscribe, SetHandler, DisconnectStart, DisconnectCall,
   DisconnectRead, DisconnectPoll, PublishStart, Send, RetryConnect, Destroy, DeliverAfterFree

\* A call is counted when it begins, and connect alone decides quiet.
LEMMA CallWriters ==
    ASSUME [Next]_vars
    PROVE  UNCHANGED callVars \/ ConnectStart \/ DisconnectStart \/ PublishStart
BY DEF Next, StartCall, ContinueCall, Callback, Environment, vars, appVars,
   ConnectPoll, ConnectReset, Subscribe, SetHandler, DisconnectCall, DisconnectRead,
   DisconnectPoll, DisconnectReset, Send, RetryConnect, Destroy, DeliverAnswer, DeliverAfterFree

\* Steps that can change Paho's session or the answers due.
LEMMA SessionWriters ==
    ASSUME [Next]_vars
    PROVE  \/ UNCHANGED <<session, attempt, answers>>
           \/ ConnectStart \/ DisconnectCall \/ DeliverAnswer \/ DeliverAfterFree
           \/ Environment
BY DEF Next, StartCall, ContinueCall, Callback, vars, pahoVars, PahoSubscribe, PahoSend,
   ConnectPoll, ConnectReset, Subscribe, SetHandler, DisconnectStart, DisconnectRead,
   DisconnectPoll, DisconnectReset, PublishStart, Send, RetryConnect, Destroy

\* Events that reach session, attempt or answers.
LEMMA SessionEvents ==
    ASSUME PahoStep
    PROVE  \/ UNCHANGED <<session, attempt, answers>>
           \/ SessionAccept
           \/ \E c \in FailureCodes : SessionRefuse(c)
           \/ SessionReconnect
           \/ SessionClosed("onDisconnect", 0)
           \/ \E c \in FailureCodes : SessionClosed("onDisconnectFailure", c)
           \/ SessionDrop
BY PahoCases DEF SubscribeAck

-----------------------------------------------------------------------------
(* The flag is what the answer delivered last made it, or was cleared.     *)

FlagFollowsAnswer == connected \in {0, Effect(last)}

\* No step sets the flag to anything but 0 or what an answer says.
LEMMA FlagFollows ==
    ASSUME FlagFollowsAnswer, [Next]_vars
    PROVE  FlagFollowsAnswer'
<1>1. CASE UNCHANGED flagVars
  BY <1>1 DEF FlagFollowsAnswer, flagVars
<1>2. CASE ConnectReset \/ DisconnectReset
  BY <1>2 DEF FlagFollowsAnswer, ConnectReset, DisconnectReset, ClearFlag
<1>3. CASE DeliverAnswer
  BY <1>3 DEF FlagFollowsAnswer, DeliverAnswer
<1> QED
  BY <1>1, <1>2, <1>3, FlagWriters

\* A flag above 0 comes from onConnect or from a negative failure code.
LEMMA PositiveEffect ==
    ASSUME NEW a \in AnswerRecords, Effect(a) > 0
    PROVE  a.cb = "onConnect" \/ a.code < 0
BY CodesAreInts DEF Effect, AnswerRecords

\* A flag below 0 comes from one of the two failure callbacks.
LEMMA NegativeEffect ==
    ASSUME NEW a \in AnswerRecords, Effect(a) < 0
    PROVE  a.cb \in {"onConnectFailure", "onDisconnectFailure"}
BY CodesAreInts DEF Effect, AnswerRecords, Callbacks

\* Only ConnectPoll enters the subscriptions, and it does so on a flag above 0.
LEMMA SuccessStep ==
    ASSUME TypeOK, FlagFollowsAnswer, SuccessIsReported, [Next]_vars
    PROVE  SuccessIsReported'
<1>1. CASE ConnectPoll
  <2>1. last \in AnswerRecords /\ seen'.answer = last /\ connected \in Int
    BY <1>1 DEF ConnectPoll, ReadFlag, TypeOK
  <2>2. CASE connected > 0
    BY <2>1, <2>2, PositiveEffect DEF SuccessIsReported, FlagFollowsAnswer
  <2>3. CASE connected <= 0
    BY <1>1, <2>1, <2>3 DEF SuccessIsReported, ConnectPoll, Return
  <2> QED BY <2>1, <2>2, <2>3
<1>2. CASE Subscribe \/ SetHandler
  BY <1>2 DEF SuccessIsReported, Subscribe, SetHandler, NextTopic, loopVars
<1>3. CASE ConnectStart \/ ConnectReset
  BY <1>3 DEF SuccessIsReported, ConnectStart, ConnectReset, Return
<1>4. CASE DisconnectStart \/ DisconnectCall \/ DisconnectRead \/ DisconnectPoll
           \/ DisconnectReset
  BY <1>4 DEF SuccessIsReported, DisconnectStart, DisconnectCall, DisconnectRead,
    DisconnectPoll, DisconnectReset, Return
<1>5. CASE PublishStart \/ Send \/ RetryConnect
  BY <1>5 DEF SuccessIsReported, PublishStart, Send, RetryConnect, Return
<1>6. CASE Destroy \/ Callback \/ Environment \/ UNCHANGED vars
  BY <1>6 DEF SuccessIsReported, Destroy, Callback, DeliverAnswer, DeliverAfterFree,
    Environment, vars, appVars, loopVars
<1> QED
  BY <1>1, <1>2, <1>3, <1>4, <1>5, <1>6 DEF Next, StartCall, ContinueCall

\* A connect never goes on after a timeout, a positive failure code or a
\* disconnect.
THEOREM SuccessReported == Spec => []SuccessIsReported
<1> DEFINE IInv == TypeOK /\ FlagFollowsAnswer /\ SuccessIsReported
<1>1. Init => IInv
  BY InitTyped DEF Init, FlagFollowsAnswer, SuccessIsReported
<1>2. IInv /\ [Next]_vars => IInv'
  BY NextTyped, FlagFollows, SuccessStep
<1>3. IInv => SuccessIsReported
  OBVIOUS
<1> QED
  <2> HIDE DEF IInv
  <2> QED BY <1>1, <1>2, <1>3, PTL DEF Spec

-----------------------------------------------------------------------------
(* A connect that began quietly acts on its own answer.                    *)

\* While such a connect runs, everything that can reach its flag is its own:
\* the answers due, the attempt being made and the answer the flag shows.
QuietConnect ==
    quiet /\ pc \in {"connect_poll", "connect_reset", "subscribe", "handle"} =>
        /\ \A i \in DOMAIN answers : answers[i].call = calls
        /\ session = "connecting" => attempt = calls
        /\ session # "closing"
        /\ connected # 0 => last.call = calls
        /\ pc # "connect_poll" => seen.answer.call = calls

\* Events of the network keep the answers due to a quiet connect its own.
LEMMA QuietEvent ==
    ASSUME TypeOK, QuietConnect, PahoStep, UNCHANGED appVars
    PROVE  QuietConnect'
<1> SUFFICES ASSUME quiet, pc \in {"connect_poll", "connect_reset", "subscribe", "handle"}
             PROVE  /\ \A i \in DOMAIN answers' : answers'[i].call = calls
                    /\ session' = "connecting" => attempt' = calls
                    /\ session' # "closing"
  BY DEF QuietConnect, appVars, flagVars, callVars, loopVars
<1> USE DEF QuietConnect
<1>1. CASE UNCHANGED <<session, attempt, answers>>
  BY <1>1
<1>2. CASE SessionAccept
  <2>1. Answer("onConnect", 0, attempt) \in AnswerRecords
    BY AnswerTyped DEF TypeOK, Callbacks
  <2>2. \A i \in DOMAIN answers' : answers'[i].call = calls
    BY <1>2, <2>1, AppendCases DEF SessionAccept, TypeOK, Answer
  <2> QED BY <1>2, <2>2 DEF SessionAccept
<1>3. ASSUME NEW c \in FailureCodes, SessionRefuse(c)
      PROVE  /\ \A i \in DOMAIN answers' : answers'[i].call = calls
             /\ session' = "connecting" => attempt' = calls
             /\ session' # "closing"
  <2>1. Answer("onConnectFailure", c, attempt) \in AnswerRecords
    BY AnswerTyped DEF TypeOK, Callbacks
  <2>2. \A i \in DOMAIN answers' : answers'[i].call = calls
    BY <1>3, <2>1, AppendCases DEF SessionRefuse, TypeOK, Answer
  <2> QED BY <1>3, <2>2 DEF SessionRefuse
<1>4. CASE SessionReconnect \/ SessionDrop
  BY <1>4 DEF SessionReconnect, SessionDrop
<1>5. ASSUME NEW cb, NEW c PROVE ~SessionClosed(cb, c)
  BY DEF SessionClosed
<1> QED
  BY <1>1, <1>2, <1>3, <1>4, <1>5, SessionEvents

\* So does every step of the program.
LEMMA QuietStep ==
    ASSUME TypeOK, QuietConnect, [Next]_vars
    PROVE  QuietConnect'
<1> USE DEF flagVars, tableVars, loopVars, callVars, pahoVars
<1>1. CASE ConnectStart
  <2>1. /\ calls' = calls + 1 /\ UNCHANGED <<answers, connected>>
        /\ quiet' = (connected = 0 /\ answers = <<>> /\ session = "idle")
        /\ pc' \in {"connect_poll", "ready"}
    BY <1>1 DEF ConnectStart, Enter, PahoConnect, Return
  <2>2. pc' = "connect_poll" /\ session = "idle" => session' = "connecting" /\ attempt' = calls + 1
    BY <1>1 DEF ConnectStart, PahoConnect, Return, MQTTASYNC_SUCCESS, MQTTASYNC_FAILURE
  <2>3. SUFFICES ASSUME quiet', pc' = "connect_poll"
                 PROVE  QuietConnect'
    BY <2>1 DEF QuietConnect
  <2>4. connected = 0 /\ answers = <<>> /\ session = "idle"
    BY <2>1, <2>3
  <2> QED BY <2>1, <2>2, <2>3, <2>4 DEF QuietConnect
<1>2. CASE ConnectPoll
  BY <1>2 DEF ConnectPoll, ReadFlag, Return, TypeOK, QuietConnect
<1>3. CASE ConnectReset \/ DisconnectReset
  BY <1>3 DEF ConnectReset, DisconnectReset, Return, QuietConnect
<1>4. CASE Subscribe
  BY <1>4 DEF Subscribe, PahoSubscribe, QuietConnect
<1>5. CASE SetHandler
  BY <1>5 DEF SetHandler, NextTopic, QuietConnect
<1>6. CASE DisconnectStart \/ DisconnectCall \/ DisconnectRead \/ DisconnectPoll
  BY <1>6 DEF DisconnectStart, DisconnectCall, DisconnectRead, DisconnectPoll, Return,
    QuietConnect
<1>7. CASE PublishStart \/ Send \/ RetryConnect
  BY <1>7 DEF PublishStart, Send, RetryConnect, Return, QuietConnect
<1>8. CASE Destroy \/ UNCHANGED vars
  BY <1>8 DEF Destroy, vars, appVars, QuietConnect
<1>9. CASE DeliverAnswer
  <2>1. /\ \A i \in DOMAIN answers' : i + 1 \in DOMAIN answers /\ answers'[i] = answers[i + 1]
        /\ 1 \in DOMAIN answers /\ last' = answers[1]
    BY <1>9, TailCases DEF DeliverAnswer, TypeOK
  <2> QED BY <1>9, <2>1 DEF DeliverAnswer, QuietConnect
<1>10. CASE DeliverAfterFree
  <2>1. /\ \A i \in DOMAIN answers' : i + 1 \in DOMAIN answers /\ answers'[i] = answers[i + 1]
    BY <1>10, TailCases DEF DeliverAfterFree, TypeOK
  <2> QED BY <1>10, <2>1 DEF DeliverAfterFree, QuietConnect
<1>11. CASE Environment
  BY <1>11, QuietEvent DEF Environment
<1> QED
  BY <1>1, <1>2, <1>3, <1>4, <1>5, <1>6, <1>7, <1>8, <1>9, <1>10, <1>11
  DEF Next, StartCall, ContinueCall, Callback

\* No late answer of another call reaches a connect that began with nothing
\* outstanding.
THEOREM QuietOwnsAnswer == Spec => []OwnAnswerOnQuietClient
<1> DEFINE IInv == TypeOK /\ QuietConnect
<1>1. Init => IInv
  BY InitTyped DEF Init, QuietConnect
<1>2. IInv /\ [Next]_vars => IInv'
  BY NextTyped, QuietStep
<1>3. IInv => OwnAnswerOnQuietClient
  BY DEF QuietConnect, OwnAnswerOnQuietClient
<1> QED
  <2> HIDE DEF IInv
  <2> QED BY <1>1, <1>2, <1>3, PTL DEF Spec

-----------------------------------------------------------------------------
(* The clear after a failed connect destroys no newer report of that call. *)

\* Answers carry the number of a call already made, those to a disconnect 0.
Numbered(a) ==
    /\ a.call <= calls
    /\ a.cb \in {"onDisconnect", "onDisconnectFailure"} => a.call = 0

AnswersNumbered ==
    /\ attempt <= calls
    /\ Numbered(last)
    /\ \A i \in DOMAIN answers : Numbered(answers[i])
    /\ pc \notin {"ready", "crashed"} => calls > 0

OwnFailure(a) == a.cb = "onConnectFailure" /\ a.call = calls

\* The failure of the current connect ends its attempt: Paho is idle and has
\* nothing more to report, before and after the callback and while connect is
\* about to clear the flag.
FailureIsFinal ==
    /\ \A i \in DOMAIN answers :
          OwnFailure(answers[i]) => i = Len(answers) /\ session = "idle"
    /\ OwnFailure(last) => answers = <<>> /\ session = "idle"
    /\ pc = "connect_reset" /\ seen.answer.call = calls =>
          connected = seen.flag /\ answers = <<>> /\ session = "idle"

\* Events of the network add only answers to calls already made.
LEMMA NumberedEvent ==
    ASSUME TypeOK, AnswersNumbered, PahoStep, UNCHANGED appVars
    PROVE  AnswersNumbered'
<1> SUFFICES attempt' <= calls /\ \A i \in DOMAIN answers' : Numbered(answers'[i])
  BY DEF AnswersNumbered, Numbered, appVars, flagVars, callVars
<1> USE DEF AnswersNumbered
<1>1. CASE UNCHANGED <<session, attempt, answers>>
  BY <1>1
<1>2. ASSUME NEW cb \in Callbacks, NEW c \in FailureCodes \cup {0}, NEW n \in Nat,
             answers' = Append(answers, Answer(cb, c, n)), Numbered(Answer(cb, c, n))
      PROVE  \A i \in DOMAIN answers' : Numbered(answers'[i])
  BY <1>2, AnswerTyped, AppendCases DEF TypeOK
<1>3. CASE SessionAccept
  <2>1. Numbered(Answer("onConnect", 0, attempt))
    BY DEF Numbered, Answer
  <2> QED BY <1>2, <1>3, <2>1 DEF SessionAccept, TypeOK, Callbacks
<1>4. ASSUME NEW c \in FailureCodes, SessionRefuse(c)
      PROVE  attempt' <= calls /\ \A i \in DOMAIN answers' : Numbered(answers'[i])
  <2>1. Numbered(Answer("onConnectFailure", c, attempt))
    BY DEF Numbered, Answer
  <2> QED BY <1>2, <1>4, <2>1 DEF SessionRefuse, TypeOK, Callbacks
<1>5. CASE SessionReconnect \/ SessionDrop
  BY <1>5 DEF SessionReconnect, SessionDrop
<1>6. ASSUME NEW cb \in {"onDisconnect", "onDisconnectFailure"},
             NEW c \in FailureCodes \cup {0}, SessionClosed(cb, c)
      PROVE  attempt' <= calls /\ \A i \in DOMAIN answers' : Numbered(answers'[i])
  <2>1. Numbered(Answer(cb, c, 0))
    BY DEF Numbered, Answer, TypeOK
  <2> QED BY <1>2, <1>6, <2>1 DEF SessionClosed, Callbacks
<1> QED
  BY <1>1, <1>3, <1>4, <1>5, <1>6, SessionEvents, SMT

\* So does every step of the program.
LEMMA NumberedStep ==
    ASSUME TypeOK, AnswersNumbered, [Next]_vars
    PROVE  AnswersNumbered'
<1> USE DEF flagVars, tableVars, loopVars, callVars, pahoVars, AnswersNumbered, Numbered
<1>1. CASE ConnectStart \/ DisconnectStart \/ PublishStart
  <2>1. calls' = calls + 1 /\ UNCHANGED <<answers, last>> /\ attempt' \in {attempt, calls + 1}
    BY <1>1 DEF ConnectStart, DisconnectStart, PublishStart, Enter, PahoConnect
  <2>2. /\ calls \in Nat /\ attempt \in Nat /\ last.call \in Nat
        /\ \A i \in DOMAIN answers : answers[i].call \in Nat
    BY CallsTyped
  <2> QED BY <2>1, <2>2
<1>2. CASE ConnectPoll \/ ConnectReset \/ Subscribe \/ SetHandler
  BY <1>2 DEF ConnectPoll, ConnectReset, Subscribe, PahoSubscribe, SetHandler, NextTopic
<1>3. CASE DisconnectCall \/ DisconnectRead \/ DisconnectPoll \/ DisconnectReset
  BY <1>3 DEF DisconnectCall, PahoDisconnect, DisconnectRead, DisconnectPoll, DisconnectReset
<1>4. CASE Send \/ RetryConnect \/ Destroy \/ UNCHANGED vars
  BY <1>4 DEF Send, PahoSend, RetryConnect, Destroy, vars, appVars
<1>5. CASE DeliverAnswer \/ DeliverAfterFree
  <2>1. /\ \A i \in DOMAIN answers' : i + 1 \in DOMAIN answers /\ answers'[i] = answers[i + 1]
        /\ 1 \in DOMAIN answers /\ last' \in {last, answers[1]}
    BY <1>5, TailCases DEF DeliverAnswer, DeliverAfterFree, TypeOK
  <2> QED BY <1>5, <2>1 DEF DeliverAnswer, DeliverAfterFree
<1>6. CASE Environment
  BY <1>6, NumberedEvent DEF Environment
<1> QED
  BY <1>1, <1>2, <1>3, <1>4, <1>5, <1>6 DEF Next, StartCall, ContinueCall, Callback

\* No event follows the failure of the current connect.
LEMMA FinalEvent ==
    ASSUME TypeOK, FailureIsFinal, PahoStep, UNCHANGED appVars
    PROVE  FailureIsFinal'
<1> USE DEF FailureIsFinal, OwnFailure, appVars, flagVars, callVars, loopVars
<1>1. CASE UNCHANGED <<session, attempt, answers>>
  BY <1>1
<1>2. ASSUME NEW a \in AnswerRecords, answers' = Append(answers, a), session # "idle",
             OwnFailure(a) => session' = "idle"
      PROVE  FailureIsFinal'
  <2>1. /\ \A i \in DOMAIN answers : ~OwnFailure(answers[i])
        /\ ~OwnFailure(last) /\ ~(pc = "connect_reset" /\ seen.answer.call = calls)
    BY <1>2
  <2>2. Len(answers') = Len(answers) + 1
    BY <1>2 DEF TypeOK
  <2>3. \A i \in DOMAIN answers' : OwnFailure(answers'[i]) =>
           i = Len(answers') /\ session' = "idle"
    BY <1>2, <2>1, <2>2, AppendCases DEF TypeOK
  <2> QED BY <2>1, <2>3
<1>3. CASE SessionAccept
  BY <1>2, <1>3, AnswerTyped DEF SessionAccept, TypeOK, Callbacks, Answer
<1>4. ASSUME NEW c \in FailureCodes, SessionRefuse(c)
      PROVE  FailureIsFinal'
  BY <1>2, <1>4, AnswerTyped DEF SessionRefuse, TypeOK, Callbacks
<1>5. CASE SessionReconnect \/ SessionDrop
  BY <1>5 DEF SessionReconnect, SessionDrop
<1>6. ASSUME NEW cb \in {"onDisconnect", "onDisconnectFailure"},
             NEW c \in FailureCodes \cup {0}, SessionClosed(cb, c)
      PROVE  FailureIsFinal'
  BY <1>2, <1>6, AnswerTyped DEF SessionClosed, TypeOK, Callbacks, Answer
<1> QED
  BY <1>1, <1>3, <1>4, <1>5, <1>6, SessionEvents, SMT

\* connect reads a failure of its own number only when that failure is the
\* end of its attempt.
LEMMA FinalPoll ==
    ASSUME TypeOK, FlagFollowsAnswer, AnswersNumbered, FailureIsFinal, ConnectPoll
    PROVE  FailureIsFinal'
<1> USE DEF flagVars, callVars, pahoVars
<1>1. CASE pc' = "connect_reset" /\ last.call = calls
  <2>1. connected < 0 /\ seen' = [flag |-> connected, answer |-> last]
    BY <1>1 DEF ConnectPoll, ReadFlag, Return, TypeOK
  <2>2. Effect(last) < 0 /\ last \in AnswerRecords
    BY <2>1 DEF FlagFollowsAnswer, TypeOK
  <2>3. last.cb = "onConnectFailure"
    BY <1>1, <2>2, NegativeEffect DEF AnswersNumbered, Numbered, ConnectPoll
  <2> QED BY <1>1, <2>1, <2>3 DEF FailureIsFinal, OwnFailure, ConnectPoll
<1>2. CASE ~(pc' = "connect_reset" /\ last.call = calls)
  BY <1>2 DEF FailureIsFinal, OwnFailure, ConnectPoll, ReadFlag
<1> QED BY <1>1, <1>2

\* The failure of the current connect stays the last report until it is read.
LEMMA FinalStep ==
    ASSUME TypeOK, FlagFollowsAnswer, AnswersNumbered, FailureIsFinal, [Next]_vars
    PROVE  FailureIsFinal'
<1> USE DEF flagVars, tableVars, loopVars, callVars, pahoVars
<1>1. CASE ConnectStart \/ DisconnectStart \/ PublishStart
  <2>1. calls' = calls + 1 /\ UNCHANGED <<answers, last>> /\ pc' # "connect_reset"
    BY <1>1 DEF ConnectStart, DisconnectStart, PublishStart, Enter, PahoConnect, Return
  <2>2. /\ calls \in Nat /\ last.call \in Nat /\ last.call <= calls
        /\ \A i \in DOMAIN answers : answers[i].call \in Nat /\ answers[i].call <= calls
    BY CallsTyped DEF AnswersNumbered, Numbered
  <2> QED BY <2>1, <2>2 DEF FailureIsFinal, OwnFailure
<1>2. CASE ConnectPoll
  BY <1>2, FinalPoll
<1>3. CASE ConnectReset \/ Subscribe \/ SetHandler
  BY <1>3 DEF ConnectReset, Subscribe, PahoSubscribe, SetHandler, NextTopic, Return, FailureIsFinal,
    OwnFailure
<1>4. CASE DisconnectCall
  BY <1>4 DEF DisconnectCall, PahoDisconnect, Return, FailureIsFinal, OwnFailure
<1>5. CASE DisconnectRead \/ DisconnectPoll \/ DisconnectReset
  BY <1>5 DEF DisconnectRead, DisconnectPoll, DisconnectReset, Return, FailureIsFinal,
    OwnFailure
<1>6. CASE Send \/ RetryConnect \/ Destroy \/ UNCHANGED vars
  BY <1>6 DEF Send, PahoSend, RetryConnect, Destroy, Return, vars, appVars, FailureIsFinal,
    OwnFailure
<1>7. CASE DeliverAnswer \/ DeliverAfterFree
  <2>1. /\ answers # <<>> /\ answers' = Tail(answers) /\ pc' \in {pc, "crashed"}
        /\ UNCHANGED <<session, callVars, loopVars>>
    BY <1>7 DEF DeliverAnswer, DeliverAfterFree
  <2>2. ~(pc' = "connect_reset" /\ seen'.answer.call = calls')
    BY <2>1 DEF FailureIsFinal
  <2>3. answers \in Seq(AnswerRecords) /\ answers' \in Seq(AnswerRecords)
    BY <2>1 DEF TypeOK
  <2>4. /\ 1 \in DOMAIN answers /\ Len(answers) \in Nat \ {0}
        /\ Len(answers') = Len(answers) - 1
        /\ \A i \in DOMAIN answers' : i + 1 \in DOMAIN answers /\ answers'[i] = answers[i + 1]
    BY <2>1, <2>3, TailCases
  <2>5. \A i \in DOMAIN answers' : OwnFailure(answers'[i]) =>
           i = Len(answers') /\ session = "idle"
    <3> SUFFICES ASSUME NEW i \in DOMAIN answers', OwnFailure(answers[i + 1])
                 PROVE  i = Len(answers') /\ session = "idle"
      BY <2>4
    <3>1. i + 1 = Len(answers) /\ session = "idle"
      BY <2>4 DEF FailureIsFinal
    <3>2. i \in Int
      BY <2>3
    <3> QED BY <2>4, <3>1, <3>2
  <2>6. OwnFailure(answers[1]) => answers' = <<>> /\ session = "idle"
    <3>1. OwnFailure(answers[1]) => Len(answers') = 0 /\ session = "idle"
      BY <2>4 DEF FailureIsFinal
    <3> QED BY <2>3, <3>1, EmptyAnswers
  <2>7. OwnFailure(last) => answers' = <<>> /\ session = "idle"
    BY <2>1 DEF FailureIsFinal
  <2>8. last' \in {last, answers[1]}
    BY <1>7, <2>3, TailCases DEF DeliverAnswer, DeliverAfterFree
  <2> QED BY <2>1, <2>2, <2>5, <2>6, <2>7, <2>8 DEF FailureIsFinal, OwnFailure
<1>8. CASE Environment
  BY <1>8, FinalEvent DEF Environment
<1> QED
  BY <1>1, <1>2, <1>3, <1>4, <1>5, <1>6, <1>7, <1>8 DEF Next, StartCall, ContinueCall, Callback

\* The second lock of connect does no harm to the report of its own attempt.
THEOREM ClearsOwn == Spec => ClearsOnlyOwnReport
<1> DEFINE IInv == TypeOK /\ FlagFollowsAnswer /\ AnswersNumbered /\ FailureIsFinal
           A == ConnectReset /\ seen.answer.call = calls => connected = seen.flag
<1>1. Init => IInv
  BY InitTyped DEF Init, PahoInit, FlagFollowsAnswer, AnswersNumbered, Numbered,
    FailureIsFinal, OwnFailure, NoAnswer, Answer
<1>2. IInv /\ [Next]_vars => IInv'
  BY NextTyped, FlagFollows, NumberedStep, FinalStep
<1>3. IInv => A
  BY DEF FailureIsFinal, ConnectReset
<1>4. Spec => []IInv
  <2> HIDE DEF IInv
  <2> QED BY <1>1, <1>2, PTL DEF Spec
<1> QED
  <2>1. IInv /\ [Next]_vars => [A]_vars
    BY <1>3
  <2> HIDE DEF IInv, A
  <2>2. Spec => [][A]_vars
    BY <1>4, <2>1, PTL DEF Spec
  <2> QED BY <2>2 DEF ClearsOnlyOwnReport, A

-----------------------------------------------------------------------------
(* The flag and Paho's session.                                            *)

Held == session \in {"up", "down", "closing"} /\ alive

\* While a session is held, the newest report, delivered or due, is the
\* onConnect of that session.
ReportOfSession ==
    /\ Held => /\ answers = <<>> => connected = 1 \/ overwrote
               /\ answers # <<>> => answers[Len(answers)].cb = "onConnect"
    /\ pc \in {"connect_reset", "disconnect_reset"} => seen.flag < 0

\* Events of the network keep onConnect the newest report of a session.
LEMMA ReportEvent ==
    ASSUME TypeOK, ReportOfSession, PahoStep, UNCHANGED appVars
    PROVE  ReportOfSession'
<1> USE DEF ReportOfSession, Held, appVars, flagVars, loopVars
<1>1. CASE UNCHANGED <<session, attempt, answers>>
  BY <1>1
<1>2. CASE SessionAccept
  <2>1. Answer("onConnect", 0, attempt) \in AnswerRecords /\ answers \in Seq(AnswerRecords)
    BY AnswerTyped DEF TypeOK, Callbacks
  <2>2. /\ answers' # <<>> /\ Len(answers') = Len(answers) + 1
        /\ answers'[Len(answers) + 1] = Answer("onConnect", 0, attempt)
    BY <1>2, <2>1 DEF SessionAccept
  <2> QED BY <1>2, <2>2 DEF Answer
<1>3. ASSUME NEW c \in FailureCodes, SessionRefuse(c) PROVE ReportOfSession'
  BY <1>3 DEF SessionRefuse
<1>4. CASE SessionReconnect \/ SessionDrop
  BY <1>4 DEF SessionReconnect, SessionDrop
<1>5. ASSUME NEW cb, NEW c, SessionClosed(cb, c) PROVE ReportOfSession'
  BY <1>5 DEF SessionClosed
<1> QED
  BY <1>1, <1>2, <1>3, <1>4, <1>5, SessionEvents

\* So does every step of the program, unless a reset comes too late.
LEMMA ReportStep ==
    ASSUME TypeOK, ReportOfSession, [Next]_vars
    PROVE  ReportOfSession'
<1> USE DEF flagVars, tableVars, loopVars, callVars, pahoVars, ReportOfSession, Held
<1>1. CASE ConnectStart
  BY <1>1 DEF ConnectStart, PahoConnect, Return
<1>2. CASE ConnectPoll \/ DisconnectPoll
  BY <1>2 DEF ConnectPoll, DisconnectPoll, ReadFlag, Return, TypeOK
<1>3. CASE ConnectReset \/ DisconnectReset
  <2>1. pc' = "ready" /\ UNCHANGED <<session, alive, answers>>
    BY <1>3 DEF ConnectReset, DisconnectReset, Return
  <2>2. overwrote \/ connected = 1 => overwrote'
    <3>1. seen.flag < 0 /\ overwrote' = (overwrote \/ connected # seen.flag)
      BY <1>3 DEF ConnectReset, DisconnectReset, ClearFlag
    <3>2. connected = 1 => connected # seen.flag
      BY <3>1
    <3> QED BY <3>1, <3>2
  <2> QED BY <2>1, <2>2
<1>4. CASE Subscribe \/ SetHandler \/ Send \/ RetryConnect
  BY <1>4 DEF Subscribe, PahoSubscribe, SetHandler, NextTopic, Send, PahoSend, Return, RetryConnect
<1>5. CASE DisconnectCall
  BY <1>5 DEF DisconnectCall, PahoDisconnect, Return
<1>6. CASE DisconnectStart \/ DisconnectRead \/ PublishStart
  BY <1>6 DEF DisconnectStart, DisconnectRead, PublishStart, Return
<1>7. CASE Destroy \/ UNCHANGED vars
  BY <1>7 DEF Destroy, vars, appVars
<1>8. CASE DeliverAfterFree
  BY <1>8 DEF DeliverAfterFree
<1>9. CASE DeliverAnswer
  <2>1. /\ answers \in Seq(AnswerRecords) /\ answers # <<>>
        /\ answers' = Tail(answers) /\ connected' = Effect(Head(answers))
        /\ UNCHANGED <<session, alive, pc, seen>>
    BY <1>9 DEF DeliverAnswer, TypeOK
  <2>2. CASE answers' = <<>>
    <3>1. Len(answers) = 1 /\ Head(answers) = answers[1]
      BY <2>1, <2>2, LastAnswer
    <3>2. Held => connected' = 1
      BY <2>1, <3>1 DEF Effect
    <3> QED BY <2>1, <2>2, <3>2
  <2>3. CASE answers' # <<>>
    <3>1. answers'[Len(answers')] = answers[Len(answers)]
      BY <2>1, <2>3
    <3> QED BY <2>1, <2>3, <3>1
  <2> QED BY <2>2, <2>3
<1>10. CASE Environment
  BY <1>10, ReportEvent DEF Environment
<1> QED
  BY <1>1, <1>2, <1>3, <1>4, <1>5, <1>6, <1>7, <1>8, <1>9, <1>10
  DEF Next, StartCall, ContinueCall, Callback

\* publish and disconnect refuse while Paho holds a session only before its
\* onConnect has run, or after a failed call cleared the flag too late.
THEOREM FlagMirrors == Spec => []FlagMirrorsSession
<1> DEFINE IInv == TypeOK /\ ReportOfSession
<1>1. Init => IInv
  BY InitTyped DEF Init, PahoInit, ReportOfSession, Held
<1>2. IInv /\ [Next]_vars => IInv'
  BY NextTyped, ReportStep
<1>3. IInv => FlagMirrorsSession
  BY DEF ReportOfSession, Held, FlagMirrorsSession
<1> QED
  <2> HIDE DEF IInv
  <2> QED BY <1>1, <1>2, <1>3, PTL DEF Spec

-----------------------------------------------------------------------------
(* Every topic the broker may deliver has a handler.                       *)

FreedBetweenCalls == ~alive => pc \in {"ready", "crashed"}

\* Every step keeps a handler, or a failed registration, for each topic.
LEMMA HandledStep ==
    ASSUME TypeOK, FreedBetweenCalls, SubscribedThenHandled, [Next]_vars
    PROVE  FreedBetweenCalls' /\ SubscribedThenHandled'
<1> USE DEF flagVars, tableVars, loopVars, callVars, pahoVars, FreedBetweenCalls,
        SubscribedThenHandled
<1>1. CASE ConnectStart \/ DisconnectStart \/ PublishStart
  BY <1>1 DEF ConnectStart, DisconnectStart, PublishStart, Enter, PahoConnect
<1>2. CASE ConnectPoll \/ ConnectReset
  BY <1>2 DEF ConnectPoll, ConnectReset
<1>3. CASE Subscribe
  BY <1>3 DEF Subscribe, PahoSubscribe
<1>4. CASE SetHandler
  <2>1. UNCHANGED <<subs, requests, alive>> /\ pc = "handle"
    BY <1>4 DEF SetHandler
  <2>2. \/ UNCHANGED <<handlers, nomem>> /\ \E i \in DOMAIN handlers : handlers[i] = topic
        \/ handlers' = Append(handlers, topic) /\ UNCHANGED nomem
        \/ nomem' = nomem \cup {topic} /\ UNCHANGED handlers
    BY <1>4 DEF SetHandler, TopicMatches
  <2>3. handlers \in Seq(Topics) /\ topic \in Topics
    BY DEF TypeOK
  <2>4. Range(handlers) \subseteq Range(handlers') /\ nomem \subseteq nomem'
    <3>1. CASE UNCHANGED handlers
      BY <2>2, <3>1 DEF Range
    <3>2. CASE handlers' = Append(handlers, topic) /\ UNCHANGED nomem
      BY <2>3, <3>2, RangeAppend
    <3> QED BY <2>2, <3>1, <3>2
  <2>5. topic \in Range(handlers') \cup nomem'
    BY <2>2, <2>3, RangeAppend DEF Range
  <2> QED BY <2>1, <2>4, <2>5
<1>5. CASE DisconnectCall
  BY <1>5 DEF DisconnectCall, PahoDisconnect
<1>6. CASE DisconnectRead \/ DisconnectPoll \/ DisconnectReset
  BY <1>6 DEF DisconnectRead, DisconnectPoll, DisconnectReset
<1>7. CASE Send \/ RetryConnect \/ Destroy \/ UNCHANGED vars
  BY <1>7 DEF Send, PahoSend, RetryConnect, Destroy, vars, appVars
<1>8. CASE DeliverAnswer \/ DeliverAfterFree
  BY <1>8 DEF DeliverAnswer, DeliverAfterFree
<1>9. CASE Environment
  <2>1. UNCHANGED appVars /\ subs' \cup requests' \subseteq subs \cup requests
    BY <1>9, PahoCases DEF Environment, SessionAccept, SessionRefuse, SessionReconnect,
      SessionClosed, SubscribeAck, SessionDrop
  <2> QED BY <2>1 DEF appVars
<1> QED
  BY <1>1, <1>2, <1>3, <1>4, <1>5, <1>6, <1>7, <1>8, <1>9
  DEF Next, StartCall, ContinueCall, Callback

\* No topic stays subscribed without a handler, except for want of memory.
THEOREM Handled == Spec => []SubscribedThenHandled
<1> DEFINE IInv == TypeOK /\ FreedBetweenCalls /\ SubscribedThenHandled
<1>1. Init => IInv
  BY InitTyped DEF Init, PahoInit, FreedBetweenCalls, SubscribedThenHandled
<1>2. IInv /\ [Next]_vars => IInv'
  BY NextTyped, HandledStep
<1>3. IInv => SubscribedThenHandled
  OBVIOUS
<1> QED
  <2> HIDE DEF IInv
  <2> QED BY <1>1, <1>2, <1>3, PTL DEF Spec

-----------------------------------------------------------------------------
(* What connect would promise if no code were negative.                    *)

\* The run that finds ConnectedOnlyIfAccepted violated needs a negative code:
\* were every failure reported with a code of zero or more, connect would go on
\* only after onConnect, whatever the timing.
THEOREM AcceptedUnlessNegative ==
    ASSUME FailureCodes \subseteq Nat
    PROVE  Spec => []ConnectedOnlyIfAccepted
<1>1. TypeOK /\ SuccessIsReported => ConnectedOnlyIfAccepted
  <2> SUFFICES ASSUME TypeOK, SuccessIsReported, pc \in {"subscribe", "handle"}
               PROVE  seen.answer.cb = "onConnect"
    BY DEF ConnectedOnlyIfAccepted
  <2>1. seen.answer.code \in Nat
    <3>1. seen.answer \in AnswerRecords
      BY DEF TypeOK
    <3>2. seen.answer.code \in FailureCodes \cup {0}
      BY <3>1 DEF AnswerRecords
    <3>3. \A c \in FailureCodes \cup {0} : c \in Nat
      OBVIOUS
    <3> QED BY <3>2, <3>3
  <2>2. ~(seen.answer.code < 0)
    BY <2>1
  <2> QED BY <2>2 DEF SuccessIsReported
<1> QED
  BY <1>1, TypeCorrect, SuccessReported, PTL

-----------------------------------------------------------------------------
(* The number of steps that a call takes.                                  *)

\* What is left of a call at each place: the subscriptions and handlers of two
\* topics, and as many polls as the limit leaves.
CallRank ==
    CASE pc = "connect_poll"    -> 5 + (MaxPolls - polls)
      [] pc = "subscribe"       -> IF topic = ActionTopic THEN 4 ELSE 2
      [] pc = "handle"          -> IF topic = ActionTopic THEN 3 ELSE 1
      [] pc = "disconnect_call" -> MaxPolls + 3
      [] pc = "disconnect_read" -> MaxPolls + 2
      [] pc = "disconnect_poll" -> 1 + (MaxPolls - polls)
      [] pc \in {"connect_reset", "disconnect_reset", "send"} -> 1
      [] OTHER                  -> 0

\* The limit is not passed, and each loop begins with all its polls.
PollsCounted ==
    /\ polls \in Nat
    /\ pc \in {"connect_poll", "disconnect_poll"} => polls < MaxPolls
    /\ pc \in {"disconnect_call", "disconnect_read"} => polls = 0

\* Each step of the application thread inside a call lowers the rank; a callback
\* and an event of the network, however many come, do not raise it.
CallCountsDown ==
    /\ ContinueCall => CallRank' < CallRank
    /\ pc # "ready" => CallRank' <= CallRank

LEMMA PollsStep ==
    ASSUME PollsCounted, [Next]_vars
    PROVE  PollsCounted'
<1> USE MaxPollsIsPositive DEF PollsCounted, flagVars, tableVars, loopVars, callVars, Return
<1>1. CASE ConnectStart \/ DisconnectStart \/ PublishStart
  BY <1>1 DEF ConnectStart, DisconnectStart, PublishStart
<1>2. CASE ConnectPoll \/ DisconnectPoll
  BY <1>2 DEF ConnectPoll, DisconnectPoll
<1>3. CASE ConnectReset \/ DisconnectReset \/ Subscribe
  BY <1>3 DEF ConnectReset, DisconnectReset, Subscribe
<1>4. CASE SetHandler
  BY <1>4 DEF SetHandler, NextTopic
<1>5. CASE DisconnectCall \/ DisconnectRead
  BY <1>5 DEF DisconnectCall, DisconnectRead
<1>6. CASE Send \/ RetryConnect \/ Destroy
  BY <1>6 DEF Send, RetryConnect, Destroy
<1>7. CASE DeliverAnswer \/ DeliverAfterFree
  BY <1>7 DEF DeliverAnswer, DeliverAfterFree
<1>8. CASE Environment \/ UNCHANGED vars
  BY <1>8 DEF Environment, vars, appVars
<1> QED
  BY <1>1, <1>2, <1>3, <1>4, <1>5, <1>6, <1>7, <1>8 DEF Next, StartCall, ContinueCall, Callback

LEMMA RankStep ==
    ASSUME PollsCounted, PollsCounted', Next
    PROVE  CallCountsDown
<1> USE MaxPollsIsPositive DEF PollsCounted, flagVars, tableVars, loopVars, callVars, Return,
                               CallRank
<1>1. ContinueCall => CallRank' < CallRank
  <2>1. CASE ConnectPoll
    BY <2>1 DEF ConnectPoll
  <2>2. CASE ConnectReset \/ DisconnectReset
    BY <2>2 DEF ConnectReset, DisconnectReset
  <2>3. CASE Subscribe
    BY <2>3 DEF Subscribe
  <2>4. CASE SetHandler
    BY <2>4, TopicsDistinct DEF SetHandler, NextTopic
  <2>5. CASE DisconnectCall
    BY <2>5 DEF DisconnectCall
  <2>6. CASE DisconnectRead
    BY <2>6 DEF DisconnectRead
  <2>7. CASE DisconnectPoll
    BY <2>7 DEF DisconnectPoll
  <2>8. CASE Send
    BY <2>8 DEF Send
  <2> QED
    BY <2>1, <2>2, <2>3, <2>4, <2>5, <2>6, <2>7, <2>8 DEF ContinueCall
<1>2. CallRank \in Nat /\ CallRank' \in Nat
  OBVIOUS
<1>3. pc # "ready" /\ ~ContinueCall => CallRank' <= CallRank
  <2>1. CASE StartCall
    BY <2>1 DEF StartCall, ConnectStart, DisconnectStart, PublishStart, Destroy, Enter
  <2>2. CASE RetryConnect
    BY <2>2 DEF RetryConnect
  <2>3. CASE Callback
    BY <1>2, <2>3 DEF Callback, DeliverAnswer, DeliverAfterFree
  <2>4. CASE Environment
    BY <1>2, <2>4 DEF Environment, appVars
  <2> QED BY <2>1, <2>2, <2>3, <2>4 DEF Next
<1> QED
  BY <1>1, <1>2, <1>3 DEF CallCountsDown

\* connect and disconnect end within MaxPolls and five steps of their own thread,
\* whatever Paho answers and when, and even if it never answers.  (The steps of
\* publish are bounded up to its retry loop, which is a step that stays where it
\* is.)
THEOREM CallsBounded == Spec => [](CallRank \in 0..MaxPolls + 5) /\ [][CallCountsDown]_vars
<1>1. Init => PollsCounted
  BY DEF Init, PollsCounted
<1>2. PollsCounted => CallRank \in 0..MaxPolls + 5
  BY MaxPollsIsPositive DEF PollsCounted, CallRank
<1>3. PollsCounted /\ [Next]_vars => PollsCounted' /\ [CallCountsDown]_vars
  BY PollsStep, RankStep
<1> QED
  BY <1>1, <1>2, <1>3, PTL DEF Spec

-----------------------------------------------------------------------------
(* The size of the topic table.                                            *)

\* The entry of the wildcard topic which a running connect may still add.
StillToAdd == IF pc \in {"connect_poll", "connect_reset", "subscribe", "handle"} THEN 1 ELSE 0

\* The action topic has one entry at most.
OneActionEntry ==
    \A i, j \in DOMAIN handlers :
        handlers[i] = ActionTopic /\ handlers[j] = ActionTopic => i = j

\* The wildcard topic finds no entry to update, not even its own, and may have
\* one for each connect that is over.
TableCounted ==
    /\ OneActionEntry
    /\ Len(handlers) + StillToAdd
          <= calls + (IF ActionTopic \in Range(handlers) THEN 1 ELSE 0)

\* Arithmetic of the count below.
LEMMA SumsKeep ==
    ASSUME NEW l \in Int, NEW p \in Int, NEW q \in Int, NEW m \in Int, NEW n \in Int,
           NEW e \in Int, l + p <= m + e, m + q <= n + p
    PROVE  l + q <= n + e
OBVIOUS

\* Only a registration changes the table.
LEMMA TableWriters ==
    ASSUME [Next]_vars
    PROVE  UNCHANGED handlers \/ SetHandler
BY DEF Next, StartCall, ContinueCall, Callback, Environment, vars, appVars, tableVars,
   ConnectStart, ConnectPoll, ConnectReset, Subscribe, DisconnectStart, DisconnectCall,
   DisconnectRead, DisconnectPoll, DisconnectReset, PublishStart, Send, RetryConnect,
   Destroy, DeliverAnswer, DeliverAfterFree

\* A step that registers nothing takes on no entry to add unless it is the start
\* of a connect.
LEMMA PendingStep ==
    ASSUME TypeOK, [Next]_vars, ~SetHandler
    PROVE  calls + StillToAdd' <= calls' + StillToAdd
<1>1. calls \in Nat
  BY DEF TypeOK
<1> USE <1>1 DEF StillToAdd, flagVars, tableVars, loopVars, callVars, Return
<1>2. CASE ConnectStart \/ DisconnectStart \/ PublishStart
  BY <1>2 DEF ConnectStart, DisconnectStart, PublishStart, Enter
<1>3. CASE ConnectPoll \/ ConnectReset \/ Subscribe
  BY <1>3 DEF ConnectPoll, ConnectReset, Subscribe
<1>4. CASE DisconnectCall \/ DisconnectRead \/ DisconnectPoll \/ DisconnectReset
  BY <1>4 DEF DisconnectCall, DisconnectRead, DisconnectPoll, DisconnectReset
<1>5. CASE Send \/ RetryConnect \/ Destroy \/ UNCHANGED vars
  BY <1>5 DEF Send, RetryConnect, Destroy, vars, appVars
<1>6. CASE Callback \/ Environment
  BY <1>6 DEF Callback, DeliverAnswer, DeliverAfterFree, Environment, appVars
<1> QED
  BY <1>2, <1>3, <1>4, <1>5, <1>6 DEF Next, StartCall, ContinueCall

LEMMA TableStep ==
    ASSUME TypeOK, TableCounted, [Next]_vars
    PROVE  TableCounted'
<1>1. /\ handlers \in Seq(Topics) /\ topic \in Topics /\ calls \in Nat
      /\ Len(handlers) \in Nat /\ StillToAdd \in {0, 1}
  BY DEF TypeOK, StillToAdd
<1>2. CASE UNCHANGED handlers
  <2>1. CASE ~SetHandler
    <3>1. calls' \in Nat /\ StillToAdd' \in {0, 1}
      BY NextTyped DEF TypeOK, StillToAdd
    <3>2. calls + StillToAdd' <= calls' + StillToAdd
      BY <2>1, PendingStep
    <3>3. OneActionEntry'
      BY <1>2 DEF TableCounted, OneActionEntry
    <3> DEFINE one == IF ActionTopic \in Range(handlers) THEN 1 ELSE 0
    <3>4. one \in Nat /\ one' = one
      BY <1>2
    <3>5. Len(handlers) + StillToAdd <= calls + one
      BY DEF TableCounted
    <3> HIDE DEF one
    <3>6. Len(handlers') + StillToAdd' <= calls' + one'
      <4>1. Len(handlers') = Len(handlers)
        BY <1>2
      <4>2. calls \in Int /\ StillToAdd \in Int /\ calls' \in Int /\ StillToAdd' \in Int
        BY <1>1, <3>1
      <4>3. Len(handlers) \in Int /\ one \in Int
        BY <1>1, <3>4
      <4>4. Len(handlers) + StillToAdd' <= calls' + one
        BY <3>2, <3>5, <4>2, <4>3, SumsKeep
      <4> QED BY <3>4, <4>1, <4>4
    <3> QED
      BY <3>3, <3>6 DEF TableCounted, one
  <2>2. CASE SetHandler
    <3>1. calls' = calls /\ StillToAdd = 1 /\ StillToAdd' \in {0, 1}
      BY <2>2 DEF SetHandler, callVars, StillToAdd
    <3> QED
      BY <1>1, <1>2, <3>1 DEF TableCounted, OneActionEntry
  <2> QED BY <2>1, <2>2
<1>3. CASE SetHandler /\ handlers' # handlers
  <2>1. /\ pc = "handle" /\ calls' = calls
        /\ handlers' = Append(handlers, topic)
        /\ ~ \E i \in DOMAIN handlers : TopicMatches(handlers[i], topic)
        /\ NextTopic
    BY <1>3 DEF SetHandler, callVars
  <2>2. /\ Len(handlers') = Len(handlers) + 1
        /\ DOMAIN handlers' = 1..Len(handlers) + 1 /\ DOMAIN handlers = 1..Len(handlers)
        /\ \A i \in DOMAIN handlers : handlers'[i] = handlers[i]
        /\ handlers'[Len(handlers) + 1] = topic
        /\ Range(handlers') = Range(handlers) \cup {topic}
    BY <1>1, <2>1, RangeAppend
  <2>3. CASE topic = ActionTopic
    <3>1. \A i \in DOMAIN handlers : handlers[i] # ActionTopic
      BY <2>1, <2>3, TopicsDistinct DEF TopicMatches
    <3>2. ActionTopic \notin Range(handlers) /\ ActionTopic \in Range(handlers')
      BY <2>2, <2>3, <3>1 DEF Range
    <3>3. StillToAdd = 1 /\ StillToAdd' = 1
      BY <2>1, <2>3 DEF StillToAdd, NextTopic
    <3>4. OneActionEntry'
      BY <1>1, <2>2, <3>1 DEF OneActionEntry
    <3> QED
      BY <1>1, <2>1, <2>2, <3>2, <3>3, <3>4 DEF TableCounted
  <2>4. CASE topic # ActionTopic
    <3>1. ActionTopic \in Range(handlers') <=> ActionTopic \in Range(handlers)
      BY <2>2, <2>4
    <3>2. StillToAdd = 1 /\ StillToAdd' = 0
      BY <2>1, <2>4 DEF StillToAdd, NextTopic
    <3>3. OneActionEntry'
      BY <1>1, <2>2, <2>4 DEF TableCounted, OneActionEntry
    <3> QED
      BY <1>1, <2>1, <2>2, <3>1, <3>2, <3>3 DEF TableCounted
  <2> QED BY <2>3, <2>4
<1> QED
  BY <1>2, <1>3, TableWriters

\* The topic table grows by one entry for each connect at most, and besides by
\* the one of the action topic, which later connects update: the entries of
\* agent/<id>/method/+, which the matcher does not find again, are all it
\* collects.
THEOREM TableGrowth == Spec => [](OneActionEntry /\ Len(handlers) <= calls + 1)
<1> DEFINE IInv == TypeOK /\ TableCounted
<1>1. Init => IInv
  BY InitTyped DEF Init, TableCounted, OneActionEntry, StillToAdd
<1>2. IInv /\ [Next]_vars => IInv'
  BY NextTyped, TableStep
<1>3. IInv => OneActionEntry /\ Len(handlers) <= calls + 1
  BY DEF TypeOK, TableCounted, StillToAdd
<1> QED
  <2> HIDE DEF IInv
  <2> QED BY <1>1, <1>2, <1>3, PTL DEF Spec

-----------------------------------------------------------------------------
(* Applications that connect only when nothing is outstanding              *)

\* What the promises of the session need of the application: it calls connect
\* only with the flag 0, no callback due and no session.  One that connects
\* once, as the sample does, keeps to it.
ConnectsWhenQuiet == [][ConnectStart => quiet']_vars

\* Then one outcome is due at most, and it tells where the session is.
OneOutcome ==
    /\ Len(answers) <= 1
    /\ session = "connecting" => answers = <<>> /\ connected = 0
    /\ answers # <<>> =>
          /\ session \in {"up", "down", "idle"}
          /\ session # "idle" => answers[1].cb = "onConnect"
          /\ answers[1].cb = "onConnect" => session # "idle" /\ connected = 0

\* The flag says connected whenever a session is held and reported, and a
\* failure stands in it until the call that reads it has cleared it.
FlagExact ==
    /\ Held /\ answers = <<>> => connected = 1
    /\ connected < 0 => session = "idle" /\ answers = <<>>
    /\ pc \in {"connect_reset", "disconnect_reset"} => seen.flag < 0 /\ connected = seen.flag
    /\ pc = "disconnect_call" => /\ session # "connecting"
                                 /\ answers # <<>> => session = "idle"
    /\ ~overwrote

\* An answer that is the only one.
LEMMA OneAnswer ==
    ASSUME NEW S, NEW s \in Seq(S), Len(s) <= 1
    PROVE  /\ s # <<>> => Len(s) = 1 /\ Head(s) = s[1] /\ Tail(s) = <<>>
           /\ s = <<>> => \A e \in S : /\ Len(Append(s, e)) = 1 /\ Append(s, e)[1] = e
                                       /\ Append(s, e) # <<>>
<1>1. CASE s # <<>>
  <2>1. Len(s) \in Nat \ {0} /\ Len(Tail(s)) = Len(s) - 1 /\ Head(s) = s[1]
    BY <1>1, TailCases
  <2>2. Len(s) = 1 /\ Len(Tail(s)) = 0
    BY <2>1
  <2>3. Tail(s) \in Seq(S)
    BY <1>1
  <2>4. Tail(s) = <<>>
    BY <2>2, <2>3, EmptyAnswers
  <2> QED BY <1>1, <2>1, <2>2, <2>4
<1>2. CASE s = <<>>
  BY <1>2
<1> QED BY <1>1, <1>2

LEMMA ExactEvent ==
    ASSUME TypeOK, OneOutcome, FlagExact, PahoStep, UNCHANGED appVars
    PROVE  OneOutcome' /\ FlagExact'
<1> USE DEF OneOutcome, FlagExact, Held
<1>1. UNCHANGED <<connected, overwrote, alive, pc, seen>>
  BY DEF appVars, flagVars, loopVars
<1>2. answers \in Seq(AnswerRecords) /\ attempt \in Nat /\ Len(answers) <= 1
  BY DEF TypeOK
<1>3. CASE UNCHANGED <<session, attempt, answers>>
  BY <1>1, <1>3
<1>4. CASE SessionAccept
  <2>1. answers = <<>> /\ Answer("onConnect", 0, attempt) \in AnswerRecords
    BY <1>2, <1>4, AnswerTyped DEF SessionAccept, Callbacks
  <2>2. /\ session' = "up" /\ session = "connecting"
        /\ Len(answers') = 1 /\ answers' # <<>> /\ answers'[1].cb = "onConnect"
    BY <1>2, <1>4, <2>1, OneAnswer DEF SessionAccept, Answer
  <2> QED BY <1>1, <2>2
<1>5. ASSUME NEW c \in FailureCodes, SessionRefuse(c)
      PROVE  OneOutcome' /\ FlagExact'
  <2>1. answers = <<>> /\ Answer("onConnectFailure", c, attempt) \in AnswerRecords
    BY <1>2, <1>5, AnswerTyped DEF SessionRefuse, Callbacks
  <2>2. /\ session' = "idle" /\ session = "connecting"
        /\ Len(answers') = 1 /\ answers' # <<>> /\ answers'[1].cb = "onConnectFailure"
    BY <1>2, <1>5, <2>1, OneAnswer DEF SessionRefuse, Answer
  <2> QED BY <1>1, <2>2
<1>6. CASE SessionReconnect \/ SessionDrop
  BY <1>1, <1>6 DEF SessionReconnect, SessionDrop
<1>7. ASSUME NEW cb \in {"onDisconnect", "onDisconnectFailure"}, NEW c \in FailureCodes \cup {0},
             SessionClosed(cb, c)
      PROVE  OneOutcome' /\ FlagExact'
  <2>1. answers = <<>> /\ Answer(cb, c, 0) \in AnswerRecords
    BY <1>7, AnswerTyped DEF SessionClosed, Callbacks
  <2>2. /\ session' = "idle" /\ session = "closing"
        /\ Len(answers') = 1 /\ answers' # <<>> /\ answers'[1].cb # "onConnect"
    BY <1>2, <1>7, <2>1, OneAnswer DEF SessionClosed, Answer
  <2> QED BY <1>1, <2>2
<1> QED
  BY <1>3, <1>4, <1>5, <1>6, <1>7, SessionEvents

LEMMA ExactStep ==
    ASSUME TypeOK, OneOutcome, FlagExact, [Next]_vars, ConnectStart => quiet'
    PROVE  OneOutcome' /\ FlagExact'
<1> USE DEF OneOutcome, FlagExact, Held, flagVars, tableVars, loopVars, callVars, pahoVars
<1>1. CASE ConnectStart
  <2>1. quiet'
    BY <1>1
  <2>2. connected = 0 /\ answers = <<>> /\ session = "idle"
    BY <1>1, <2>1 DEF ConnectStart
  <2>3. /\ UNCHANGED <<answers, connected, overwrote, alive, seen>>
        /\ session' \in {"idle", "connecting"}
        /\ pc' \in {"connect_poll", "ready"}
    BY <1>1, <2>2 DEF ConnectStart, PahoConnect, Return
  <2> QED BY <2>2, <2>3
<1>2. CASE ConnectPoll \/ DisconnectPoll
  <2>1. /\ UNCHANGED <<session, answers, connected, overwrote, alive>>
        /\ seen' = [flag |-> connected, answer |-> last]
        /\ pc' = "disconnect_call" => pc = "disconnect_call"
        /\ pc' \in {"connect_reset", "disconnect_reset"} => connected < 0
    BY <1>2 DEF ConnectPoll, DisconnectPoll, ReadFlag, Return
  <2> QED BY <2>1
<1>3. CASE ConnectReset \/ DisconnectReset
  <2>1. /\ pc' = "ready" /\ UNCHANGED <<session, alive, answers, seen>>
        /\ connected < 0 /\ connected = seen.flag
        /\ connected' = 0 /\ overwrote' = (overwrote \/ connected # seen.flag)
    BY <1>3 DEF ConnectReset, DisconnectReset, ClearFlag, Return
  <2> QED BY <2>1
<1>4. CASE Subscribe \/ SetHandler \/ Send \/ RetryConnect
  BY <1>4 DEF Subscribe, PahoSubscribe, SetHandler, NextTopic, Send, PahoSend, Return, RetryConnect
<1>5. CASE DisconnectCall
  BY <1>5 DEF DisconnectCall, PahoDisconnect, Return
<1>6. CASE DisconnectStart \/ DisconnectRead \/ PublishStart
  BY <1>6 DEF DisconnectStart, DisconnectRead, PublishStart, Return
<1>7. CASE Destroy \/ UNCHANGED vars
  BY <1>7 DEF Destroy, vars, appVars
<1>8. CASE DeliverAfterFree \/ DeliverAnswer
  <2>1. /\ answers \in Seq(AnswerRecords) /\ answers # <<>> /\ Len(answers) <= 1
        /\ answers' = Tail(answers) /\ UNCHANGED <<session, alive, seen>>
    BY <1>8 DEF DeliverAnswer, DeliverAfterFree, TypeOK
  <2>2. answers' = <<>> /\ Head(answers) = answers[1]
    BY <2>1, OneAnswer
  <2>3. CASE DeliverAfterFree
    BY <2>1, <2>2, <2>3 DEF DeliverAfterFree
  <2>4. CASE DeliverAnswer
    <3>1. connected' = Effect(answers[1]) /\ overwrote' = FALSE /\ pc' = pc
      BY <2>2, <2>4 DEF DeliverAnswer
    <3>2. session # "idle" => connected' = 1
      BY <2>1, <3>1 DEF Effect
    <3> QED BY <2>1, <2>2, <3>1, <3>2
  <2> QED BY <1>8, <2>3, <2>4
<1>9. CASE Environment
  BY <1>9, ExactEvent DEF Environment
<1> QED
  BY <1>1, <1>2, <1>3, <1>4, <1>5, <1>6, <1>7, <1>8, <1>9
  DEF Next, StartCall, ContinueCall, Callback

\* If the application connects only when nothing is outstanding, the flag, with
\* all its unlocked reads and its clearing under a second lock, is exact: it
\* says connected whenever Paho holds a session it has reported, no clear ever
\* destroys a report, no two outcomes are due at once, and each connect acts on
\* its own answer.
THEOREM QuietFlagExact ==
    Spec /\ ConnectsWhenQuiet => [](OneOutcome /\ FlagExact /\ OwnAnswerOnQuietClient)
<1> DEFINE IInv == TypeOK /\ OneOutcome /\ FlagExact
           A == ConnectStart => quiet'
<1>1. Init => IInv
  BY InitTyped DEF Init, PahoInit, OneOutcome, FlagExact, Held
<1>2. IInv /\ [Next]_vars /\ [A]_vars => IInv'
  <2> SUFFICES ASSUME IInv, [Next]_vars, [A]_vars PROVE IInv'
    OBVIOUS
  <2>1. ConnectStart => quiet'
    <3>1. CASE UNCHANGED vars
      <4>1. ConnectStart => calls' = calls + 1 /\ calls' = calls
        BY <3>1 DEF vars, appVars, callVars, ConnectStart, Enter
      <4> QED BY <4>1 DEF TypeOK
    <3> QED BY <3>1
  <2> QED BY <2>1, NextTyped, ExactStep
<1>3. IInv => OneOutcome /\ FlagExact
  OBVIOUS
<1> QED
  <2> HIDE DEF IInv, A
  <2>1. Spec /\ [][A]_vars => [](OneOutcome /\ FlagExact)
    BY <1>1, <1>2, <1>3, PTL DEF Spec
  <2> QED BY <2>1, QuietOwnsAnswer, PTL DEF ConnectsWhenQuiet, A

\* Of destroy: the flag is 0, no callback is due and no attempt is under way.
\* The sample does not keep to it, as disconnect returns before it is over.
DestroysWhenOver ==
    [][Destroy => connected = 0 /\ answers = <<>> /\ session # "connecting"]_vars

\* What is then left of a freed client: Paho has no session and owes nothing.
FreedSettled == ~alive => session = "idle" /\ answers = <<>>

\* Only destroy frees the client.
LEMMA AliveWriters ==
    ASSUME [Next]_vars
    PROVE  UNCHANGED alive \/ Destroy
BY DEF Next, StartCall, ContinueCall, Callback, Environment, vars, appVars,
   ConnectStart, ConnectPoll, ConnectReset, Subscribe, SetHandler, DisconnectStart,
   DisconnectCall, DisconnectRead, DisconnectPoll, DisconnectReset, PublishStart, Send,
   RetryConnect, DeliverAnswer, DeliverAfterFree

LEMMA SettledStep ==
    ASSUME TypeOK, FlagExact, FreedBetweenCalls, FreedSettled, [Next]_vars,
           Destroy => connected = 0 /\ answers = <<>> /\ session # "connecting"
    PROVE  FreedSettled'
<1>1. CASE Destroy
  <2>1. connected = 0 /\ answers = <<>> /\ session # "connecting" /\ alive
    BY <1>1 DEF Destroy
  <2>2. session \notin {"up", "down", "closing"}
    BY <2>1 DEF FlagExact, Held
  <2>3. session = "idle"
    BY <2>1, <2>2 DEF TypeOK, Sessions
  <2> QED BY <1>1, <2>1, <2>3 DEF Destroy, FreedSettled, pahoVars
<1>2. CASE alive /\ UNCHANGED alive
  BY <1>2 DEF FreedSettled
<1>3. CASE ~alive
  <2>1. session = "idle" /\ answers = <<>> /\ pc \in {"ready", "crashed"}
    BY <1>3 DEF FreedSettled, FreedBetweenCalls
  <2>2. ~ConnectStart /\ ~DisconnectCall /\ ~DeliverAnswer /\ ~DeliverAfterFree
    BY <1>3, <2>1 DEF ConnectStart, Enter, DisconnectCall, DeliverAnswer, DeliverAfterFree
  <2>3. CASE UNCHANGED <<session, attempt, answers>>
    BY <2>1, <2>3 DEF FreedSettled
  <2>4. CASE Environment
    <3>1. UNCHANGED <<session, attempt, answers>>
      BY <2>1, <2>4, SessionEvents DEF Environment, SessionAccept, SessionRefuse,
         SessionReconnect, SessionClosed, SessionDrop
    <3> QED BY <2>3, <3>1
  <2> QED BY <2>2, <2>3, <2>4, SessionWriters
<1> QED
  BY <1>1, <1>2, <1>3, AliveWriters

\* If besides the application destroys the client only when the flag is 0 and
\* nothing is outstanding, no callback ever reaches the freed client, and each
\* disconnect is over before: what the run agent_destroy shows is the fault of
\* destroying earlier, and of nothing else.
THEOREM QuietDestroySafe ==
    Spec /\ ConnectsWhenQuiet /\ DestroysWhenOver =>
        [](FreedSettled /\ DisconnectOverBeforeDestroy) /\ [][~DeliverAfterFree]_vars
<1> DEFINE Kept == TypeOK /\ OneOutcome /\ FlagExact
           IInv == FreedBetweenCalls /\ SubscribedThenHandled /\ FreedSettled
           A == Destroy => connected = 0 /\ answers = <<>> /\ session # "connecting"
<1>1. Init => IInv
  BY DEF Init, PahoInit, FreedBetweenCalls, SubscribedThenHandled, FreedSettled
<1>2. Kept /\ IInv /\ [Next]_vars /\ [A]_vars => IInv'
  <2> SUFFICES ASSUME Kept, IInv, [Next]_vars, [A]_vars PROVE IInv'
    OBVIOUS
  <2>1. FreedBetweenCalls' /\ SubscribedThenHandled'
    BY HandledStep
  <2>2. CASE A
    BY <2>1, <2>2, SettledStep
  <2>3. CASE UNCHANGED vars
    <3>1. FreedSettled'
      BY <2>3 DEF FreedSettled, vars, pahoVars, appVars
    <3> QED BY <2>1, <3>1
  <2> QED BY <2>2, <2>3
<1>3. IInv => FreedSettled /\ DisconnectOverBeforeDestroy
  BY DEF FreedSettled, DisconnectOverBeforeDestroy
<1>4. IInv => ~DeliverAfterFree
  BY DEF FreedSettled, DeliverAfterFree
<1>5. Spec /\ ConnectsWhenQuiet => []Kept
  BY TypeCorrect, QuietFlagExact, PTL
<1> QED
  <2>1. IInv /\ [Next]_vars => [~DeliverAfterFree]_vars
    BY <1>4
  <2> HIDE DEF Kept, IInv, A
  <2>2. Spec /\ []Kept /\ [][A]_vars => []IInv
    BY <1>1, <1>2, PTL DEF Spec
  <2>3. Spec /\ []IInv => [][~DeliverAfterFree]_vars
    BY <2>1, PTL DEF Spec
  <2>4. DestroysWhenOver => [][A]_vars
    BY DEF DestroysWhenOver, A
  <2> QED BY <1>3, <1>5, <2>2, <2>3, <2>4, PTL
=============================================================================
