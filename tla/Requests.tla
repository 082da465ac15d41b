------------------------------ MODULE Requests ------------------------------
(***************************************************************************)
(* The texts the SDK composes: broker url, topics and payloads.  Each is   *)
(* printed with snprintf into a buffer whose size is worked out from the   *)
(* length of the format, less its %s and %d, plus the lengths of the       *)
(* arguments; what does not fit is cut off without a word.  Only lengths   *)
(* matter here.  A send composes its texts before it finds out whether     *)
(* there is a connection.                                                  *)
(***************************************************************************)
EXTENDS VeidesRC

CONSTANTS
    MaxLength,  \* bound: length of an argument
    Codes,      \* codes of method responses
    Ports       \* ports of a broker, at most 65535

ASSUME MaxLengthIsNat == MaxLength \in Nat
ASSUME CodesAreInts   == Codes \subseteq Int
ASSUME PortsArePorts  == \A p \in Ports : p \in Nat /\ 0 < p /\ p <= 65535

VARIABLES
    composed,   \* the texts of the request under way, in characters
    outcome,    \* "ok", or "crashed"
    rc          \* what its checks returned

requestVars == <<composed, outcome, rc>>

NULL    == -1               \* the length of an argument that is NULL
Lengths == 0..MaxLength
Arguments == Lengths \cup {NULL}
Empty(s) == s <= 0          \* !s || *s == '\0'

\* The characters of the decimal digits of n, and of n printed with %d.
Digits(n) ==
    IF n < 10 THEN 1 ELSE IF n < 100 THEN 2 ELSE IF n < 1000 THEN 3
    ELSE IF n < 10000 THEN 4 ELSE IF n < 100000 THEN 5 ELSE IF n < 1000000 THEN 6
    ELSE IF n < 10000000 THEN 7 ELSE IF n < 100000000 THEN 8
    ELSE IF n < 1000000000 THEN 9 ELSE 10
Chars(n) == IF n < 0 THEN 1 + Digits(-n) ELSE Digits(n)

\* A text of want characters in a buffer of size characters, with its end.
Text(want, size) == [want |-> want, got |-> IF want < size THEN want ELSE size - 1]
NoText   == Text(0, 1)
Whole(t) == t.got = t.want

\* Mutant: a port is thought to have four digits.
UrlShort(host, port) == Text(7 + host + Chars(port), host + 12)

\* "ssl://%s:%d" or "tcp://%s:%d"
Url(host, port) == Text(7 + host + Chars(port), host + 13)

\* "agent/%s/%s", 11 characters long
Topic(id, type) == Text(7 + id + type, 11 + id + type - 2)

\* "agent/%s/%s/%s", 14 characters long
TopicWithName(id, type, name) == Text(8 + id + type + name, 14 + id + type + name - 3)

\* Mutant: the buffer is as long as the text, with no room for its end.
NamedTight(name) == Text(12 + name, 14 + name - 2)

\* {"name": "%s"}, 14 characters long
Named(name) == Text(12 + name, 14 + name - 1)

\* {"value": "%s"}, 15 characters long
TrailValue(value) == Text(13 + value, 15 + value - 1)

\* Mutant: sizeof(int) is left out.
ResponseWithoutCode(payload, code) == Text(23 + payload + Chars(code), 27 + payload - 2)

\* {"payload": %s, "code": %d}, 27 characters long, and sizeof(int) for the code
Response(payload, code) == Text(23 + payload + Chars(code), 27 + payload + 4 - 2)

\* The type that the topic of each kind of request names, in characters:
\* event, trail, facts, method_response, action_completed, action_received,
\* method.
TypeOf == [event |-> 5, trail |-> 5, facts |-> 5, response |-> 15, completed |-> 16,
           actions |-> 15, methods |-> 6]

Composed(kind, topic, payload, code) ==
    [kind |-> kind, topic |-> topic, payload |-> payload, code |-> code]
Nothing == Composed("none", NoText, NoText, 0)

RequestsInit == composed = Nothing /\ outcome = "ok" /\ rc = VEIDES_RC_SUCCESS

\* The checks all send functions begin with: the handle, then the arguments
\* that must be there.  A live client has an id.
Send(client, required, request) ==
    /\ composed = Nothing /\ outcome = "ok"
    /\ rc' = IF client = NULL THEN VEIDES_RC_INVALID_HANDLE
             ELSE IF \E a \in required : Empty(a) THEN VEIDES_RC_NULL_PARAM
             ELSE VEIDES_RC_SUCCESS
    /\ composed' = IF rc' = VEIDES_RC_SUCCESS THEN request ELSE Nothing
    /\ UNCHANGED outcome

\* What was composed has been passed on, and the function returns.  What
\* veides_client_publish does with it is in AgentClient.
Sent ==
    /\ composed # Nothing
    /\ composed' = Nothing
    /\ UNCHANGED <<outcome, rc>>

\* VeidesAgentClient_sendMethodResponse.
SendMethodResponse(client, name, payload, code) ==
    Send(client, {name, payload},
         Composed("response", TopicWithName(client, TypeOf.response, name),
                  Response(payload, code), code))

\* VeidesAgentClient_sendActionCompleted.
SendActionCompleted(client, name) ==
    Send(client, {name},
         Composed("completed", Topic(client, TypeOf.completed), Named(name), 0))

\* VeidesAgentClient_sendEvent.
SendEvent(client, name) ==
    Send(client, {name}, Composed("event", Topic(client, TypeOf.event), Named(name), 0))

\* VeidesAgentClient_sendTrail.  The length of a NULL value is asked for.
SendTrail(client, name, value) ==
    \/ /\ value # NULL \/ client = NULL \/ Empty(name)
       /\ Send(client, {name},
               Composed("trail", TopicWithName(client, TypeOf.trail, name), TrailValue(value), 0))
    \/ /\ composed = Nothing /\ outcome = "ok"
       /\ value = NULL /\ client # NULL /\ ~Empty(name)
       /\ outcome' = "crashed"
       /\ UNCHANGED <<composed, rc>>

\* VeidesAgentClient_sendFacts: the payload is the text cJSON has allocated.
SendFacts(client, data) ==
    Send(client, {}, Composed("facts", Topic(client, TypeOf.facts), Text(data, data + 1), 0))

\* The url of veides_client_create, from properties that are valid.
CreateUrl(host, port) ==
    Send(1, {}, Composed("url", Url(host, port), NoText, 0))

\* The two topics of VeidesAgentClient_connect, the second with the name "+".
Connect(client) ==
    \/ Send(client, {}, Composed("actions", Topic(client, TypeOf.actions), NoText, 0))
    \/ Send(client, {}, Composed("methods", TopicWithName(client, TypeOf.methods, 1), NoText, 0))

RequestsNext ==
    \/ Sent
    \/ \E client \in (Lengths \ {0}) \cup {NULL} :
          \/ Connect(client)
          \/ \E data \in Lengths : SendFacts(client, data)
          \/ \E name \in Arguments :
                \/ SendEvent(client, name) \/ SendActionCompleted(client, name)
                \/ \E value \in Arguments :
                      \/ SendTrail(client, name, value)
                      \/ \E code \in Codes : SendMethodResponse(client, name, value, code)
    \/ \E host \in Lengths \ {0}, port \in Ports : CreateUrl(host, port)

RequestsSpec == RequestsInit /\ [][RequestsNext]_requestVars

-----------------------------------------------------------------------------
(* Properties                                                              *)

\* No url, no topic and no payload but that of a method response is ever cut
\* off, whatever the lengths of host, client id, name and value and whatever
\* the port: the formats' own lengths leave room, to the terminator.
TextsWhole ==
    /\ Whole(composed.topic)
    /\ composed.kind # "response" => Whole(composed.payload)

\* The answer to a method is cut off exactly if its code needs more than five
\* characters: what the formula counts for the code is sizeof(int) and one.
ResponseCutIfWide ==
    composed.kind = "response" =>
        (Whole(composed.payload) <=> -9999 <= composed.code /\ composed.code <= 99999)
=============================================================================
