------------------------- MODULE ActionRepliesProofs -------------------------
(***************************************************************************)
(* Proofs about ActionReplies: which texts are whole, for arguments of any *)
(* length, any codes and any ports; and what becomes of an action message, *)
(* of its array and of the process, for any number of entities.            *)
(***************************************************************************)
EXTENDS ActionReplies, TLAPS

-----------------------------------------------------------------------------
(* The texts of a request                                                  *)

\* A text is whole exactly if its buffer has room for its end.
LEMMA WholeIfRoom ==
    ASSUME NEW want \in Int, NEW room \in Int
    PROVE  Whole(Text(want, room)) <=> want < room
BY DEF Whole, Text

\* A port has up to five digits.
LEMMA PortChars ==
    ASSUME NEW port \in Nat, port <= 65535
    PROVE  Chars(port) \in Nat /\ 1 <= Chars(port) /\ Chars(port) <= 5
BY DEF Chars, Digits

\* Five characters are enough for these codes and for no others.
LEMMA CodeChars ==
    ASSUME NEW code \in Int
    PROVE  /\ Chars(code) \in Int
           /\ Chars(code) <= 5 <=> -9999 <= code /\ code <= 99999
<1>1. CASE code < 0
  <2>1. -code \in Int /\ -code > 0
    BY <1>1
  <2>2. Digits(-code) \in Int /\ (Digits(-code) <= 4 <=> -code < 10000)
    BY <2>1 DEF Digits
  <2>. QED
    BY <1>1, <2>2 DEF Chars
<1>2. CASE code >= 0
  <2>1. Digits(code) \in Int /\ (Digits(code) <= 5 <=> code < 100000)
    BY <1>2 DEF Digits
  <2>. QED
    BY <1>2, <2>1 DEF Chars
<1>. QED
  BY <1>1, <1>2

LEMMA LengthsAreNats == Lengths \subseteq Nat /\ Arguments \subseteq Int /\ NULL = -1
BY MaxLengthIsNat DEF Lengths, Arguments, NULL

-----------------------------------------------------------------------------
(* The two properties, as one about a request                              *)

Fine(request) ==
    /\ Whole(request.topic)
    /\ request.kind # "response" => Whole(request.payload)
    /\ request.kind = "response" =>
          (Whole(request.payload) <=> -9999 <= request.code /\ request.code <= 99999)

LEMMA FineIsBoth == TextsWhole /\ ResponseCutIfWide <=> Fine(composed)
BY DEF TextsWhole, ResponseCutIfWide, Fine

\* A request is fine if its parts are.
LEMMA ComposedFine ==
    ASSUME NEW kind, NEW topic, NEW payload, NEW code,
           Whole(topic),
           kind # "response" => Whole(payload),
           kind = "response" =>
              (Whole(payload) <=> -9999 <= code /\ code <= 99999)
    PROVE  Fine(Composed(kind, topic, payload, code))
BY DEF Fine, Composed

LEMMA NothingFine == Fine(Nothing)
<1>1. Whole(NoText)
  BY WholeIfRoom DEF NoText
<1>. QED
  BY <1>1, ComposedFine DEF Nothing

LEMMA TopicsFine ==
    ASSUME NEW id \in Nat, NEW type \in Nat, NEW name \in Nat
    PROVE  Whole(Topic(id, type)) /\ Whole(TopicWithName(id, type, name))
BY WholeIfRoom DEF Topic, TopicWithName

\* The lengths of the types of topics.
LEMMA TypeLengths ==
    /\ TypeOf.event \in Nat /\ TypeOf.trail \in Nat /\ TypeOf.facts \in Nat
    /\ TypeOf.response \in Nat /\ TypeOf.completed \in Nat
    /\ TypeOf.actions \in Nat /\ TypeOf.methods \in Nat
BY DEF TypeOf

\* A send whose checks pass has a fine request.
LEMMA SendFine ==
    ASSUME NEW client, NEW required, NEW request, Fine(composed),
           Send(client, required, request),
           (client # NULL /\ \A a \in required : ~Empty(a)) => Fine(request)
    PROVE  Fine(composed')
<1>1. CASE rc' = VEIDES_RC_SUCCESS
  <2>1. client # NULL /\ \A a \in required : ~Empty(a)
    BY <1>1 DEF Send, VEIDES_RC_SUCCESS, VEIDES_RC_INVALID_HANDLE, VEIDES_RC_NULL_PARAM
  <2>. QED
    BY <1>1, <2>1 DEF Send
<1>2. CASE rc' # VEIDES_RC_SUCCESS
  BY <1>2, NothingFine DEF Send
<1>. QED
  BY <1>1, <1>2

LEMMA StepFine == Fine(composed) /\ [RequestsNext]_requestVars => Fine(composed')
<1>. SUFFICES ASSUME Fine(composed), [RequestsNext]_requestVars
              PROVE  Fine(composed')
  OBVIOUS
<1>. USE LengthsAreNats, TypeLengths
<1>0. \A client \in (Lengths \ {0}) \cup {NULL} : client # NULL => client \in Nat
  OBVIOUS
<1>1. CASE UNCHANGED requestVars
  BY <1>1 DEF requestVars
<1>2. CASE Sent
  BY <1>2, NothingFine DEF Sent
<1>3. ASSUME NEW client \in (Lengths \ {0}) \cup {NULL}, Connect(client)
      PROVE  Fine(composed')
  <2>1. Whole(NoText)
    BY WholeIfRoom DEF NoText
  <2>2. client # NULL => /\ Whole(Topic(client, TypeOf.actions))
                         /\ Whole(TopicWithName(client, TypeOf.methods, 1))
    BY <1>0, TopicsFine
  <2>3. client # NULL =>
           /\ Fine(Composed("actions", Topic(client, TypeOf.actions), NoText, 0))
           /\ Fine(Composed("methods", TopicWithName(client, TypeOf.methods, 1), NoText, 0))
    BY <2>1, <2>2, ComposedFine
  <2>. QED
    BY <1>3, <2>3, SendFine DEF Connect
<1>4. ASSUME NEW client \in (Lengths \ {0}) \cup {NULL}, NEW data \in Lengths,
             SendFacts(client, data)
      PROVE  Fine(composed')
  <2>1. Whole(Text(data, data + 1))
    BY WholeIfRoom
  <2>2. client # NULL => Whole(Topic(client, TypeOf.facts))
    BY <1>0, TopicsFine
  <2>3. client # NULL =>
           Fine(Composed("facts", Topic(client, TypeOf.facts), Text(data, data + 1), 0))
    BY <2>1, <2>2, ComposedFine
  <2>. QED
    BY <1>4, <2>3, SendFine DEF SendFacts
<1>5. ASSUME NEW name \in Arguments, ~Empty(name)
      PROVE  name \in Nat /\ Whole(Named(name))
  <2>1. name \in Nat
    BY <1>5 DEF Empty
  <2>. QED
    BY <2>1, WholeIfRoom DEF Named
<1>6. ASSUME NEW client \in (Lengths \ {0}) \cup {NULL}, NEW name \in Arguments,
             SendEvent(client, name)
      PROVE  Fine(composed')
  <2>1. client # NULL /\ ~Empty(name) =>
           Fine(Composed("event", Topic(client, TypeOf.event), Named(name), 0))
    BY <1>5, <1>0, TopicsFine, ComposedFine
  <2>. QED
    BY <1>6, <2>1, SendFine DEF SendEvent
<1>7. ASSUME NEW client \in (Lengths \ {0}) \cup {NULL}, NEW name \in Arguments,
             SendActionCompleted(client, name)
      PROVE  Fine(composed')
  <2>1. client # NULL /\ ~Empty(name) =>
           Fine(Composed("completed", Topic(client, TypeOf.completed), Named(name), 0))
    BY <1>5, <1>0, TopicsFine, ComposedFine
  <2>. QED
    BY <1>7, <2>1, SendFine DEF SendActionCompleted
<1>8. ASSUME NEW client \in (Lengths \ {0}) \cup {NULL}, NEW name \in Arguments,
             NEW value \in Arguments, SendTrail(client, name, value)
      PROVE  Fine(composed')
  <2>1. CASE value = NULL /\ client # NULL /\ ~Empty(name)
    BY <1>8, <2>1 DEF SendTrail
  <2>2. CASE ~(value = NULL /\ client # NULL /\ ~Empty(name))
    <3>1. Send(client, {name},
               Composed("trail", TopicWithName(client, TypeOf.trail, name),
                        TrailValue(value), 0))
      BY <1>8, <2>2 DEF SendTrail
    <3>2. client # NULL /\ ~Empty(name) => Whole(TrailValue(value))
      BY <2>2, WholeIfRoom DEF TrailValue
    <3>3. client # NULL /\ ~Empty(name) =>
             Fine(Composed("trail", TopicWithName(client, TypeOf.trail, name),
                           TrailValue(value), 0))
      BY <1>5, <3>2, <1>0, TopicsFine, ComposedFine
    <3>. QED
      BY <3>1, <3>3, SendFine
  <2>. QED
    BY <2>1, <2>2
<1>9. ASSUME NEW client \in (Lengths \ {0}) \cup {NULL}, NEW name \in Arguments,
             NEW payload \in Arguments, NEW code \in Codes,
             SendMethodResponse(client, name, payload, code)
      PROVE  Fine(composed')
  <2>1. ~Empty(payload) =>
           (Whole(Response(payload, code)) <=> -9999 <= code /\ code <= 99999)
    <3>1. code \in Int
      BY CodesAreInts
    <3>2. Chars(code) \in Int /\ (Chars(code) <= 5 <=> -9999 <= code /\ code <= 99999)
      BY <3>1, CodeChars
    <3>3. ASSUME ~Empty(payload)
          PROVE  /\ 23 + payload + Chars(code) \in Int
                 /\ 27 + payload + 4 - 2 \in Int
                 /\ 23 + payload + Chars(code) < 27 + payload + 4 - 2 <=> Chars(code) <= 5
      BY <3>2
    <3>. QED
      BY <3>2, <3>3, WholeIfRoom DEF Response
  <2>2. client # NULL /\ ~Empty(name) /\ ~Empty(payload) =>
           Fine(Composed("response", TopicWithName(client, TypeOf.response, name),
                         Response(payload, code), code))
    BY <1>5, <2>1, <1>0, TopicsFine, ComposedFine
  <2>. QED
    BY <1>9, <2>2, SendFine DEF SendMethodResponse
<1>10. ASSUME NEW host \in Lengths \ {0}, NEW port \in Ports, CreateUrl(host, port)
       PROVE  Fine(composed')
  <2>1. Chars(port) \in Nat /\ 1 <= Chars(port) /\ Chars(port) <= 5
    BY PortChars, PortsArePorts
  <2>2. Whole(Url(host, port)) /\ Whole(NoText)
    BY <2>1, WholeIfRoom DEF Url, NoText
  <2>3. Fine(Composed("url", Url(host, port), NoText, 0))
    BY <2>2, ComposedFine
  <2>. QED
    BY <1>10, <2>3, SendFine DEF CreateUrl
<1>. QED
  BY <1>1, <1>2, <1>3, <1>4, <1>6, <1>7, <1>8, <1>9, <1>10 DEF RequestsNext

\* The handler's requests, and nothing else, compose texts.
LEMMA RequestSteps ==
    RepliesSpec => RequestsInit /\ [][RequestsNext]_requestVars
<1>1. RepliesInit => RequestsInit
  BY DEF RepliesInit
<1>2. [RepliesNext]_<<vars, requestVars>> => [RequestsNext]_requestVars
  BY DEF RepliesNext, HandlerSends, MessageGoesOn
<1>. QED
  BY <1>1, <1>2, PTL DEF RepliesSpec

LEMMA TextsFine == RepliesSpec => []Fine(composed)
<1>1. RequestsInit => Fine(composed)
  BY NothingFine DEF RequestsInit
<1>2. Fine(composed) /\ [RequestsNext]_requestVars => Fine(composed)'
  BY StepFine DEF Fine, Whole
<1>. QED
  BY <1>1, <1>2, RequestSteps, PTL

\* No url, topic or payload of an event, action completed, trail or facts is
\* cut off by the snprintf that composes it.
THEOREM AllTextsWhole == RepliesSpec => []TextsWhole
<1>1. Fine(composed) => TextsWhole
  BY FineIsBoth
<1>. QED
  BY <1>1, TextsFine, PTL

\* A method response is cut off exactly if its code has over five characters.
THEOREM ResponsesCut == RepliesSpec => []ResponseCutIfWide
<1>1. Fine(composed) => ResponseCutIfWide
  BY FineIsBoth
<1>. QED
  BY <1>1, TextsFine, PTL

-----------------------------------------------------------------------------
(* The message                                                             *)

\* What a place in the code says of what was done before it.
Progress ==
    /\ pc \in {"copy", "parse", "entities"} => i = 0 /\ array = "null"
    /\ pc \in {"entities", "fill"} => message.valid /\ message.named
    /\ pc \in {"lookup", "call"} => i = size
    /\ handled = "none" \/ pc \in {"call", "end", "over"}
    /\ handled = "running" => pc = "call"

\* What the loop has stored.
Stored ==
    /\ filled = {j \in 1..i : message.entities[j] \in Valued}
    /\ \A j \in 1..i : message.entities[j] # "nameless"
    /\ status = "ok" =>
          \A j \in 1..i :
             message.entities[j] \in Elements \ {"nonobject"} => Fits(j - 1, message.entities[j])

MessageInv ==
    /\ TypeOK /\ Progress /\ Stored
    /\ pc \in {"end", "over"} /\ array = "live" => handled = "none"
    /\ FreedUnlessUnhandled
    /\ CrashOnlyIfMalformed

LEMMA SizeIsNat ==
    ASSUME message \in Messages
    PROVE  /\ size \in Nat /\ size <= MaxEntities
           /\ \A j \in 1..size : message.entities[j] \in Elements
BY MaxEntitiesIsNat DEF Messages, size

LEMMA MessageInit == Init => MessageInv
<1>. SUFFICES ASSUME Init PROVE MessageInv
  OBVIOUS
<1>1. size \in Nat
  BY SizeIsNat DEF Init
<1>2. TypeOK
  <2>1. json \in BOOLEAN /\ pl \in BOOLEAN /\ message \in Messages
    BY DEF Init
  <2>2. filled \subseteq 1..size /\ i \in 0..size
    BY <1>1 DEF Init
  <2>3. pc = "copy" /\ array = "null" /\ status = "ok" /\ handled = "none"
    BY DEF Init
  <2>. QED
    BY <2>1, <2>2, <2>3 DEF TypeOK
<1>3. Progress
  <2>1. pc = "copy" /\ i = 0 /\ array = "null" /\ handled = "none"
    BY DEF Init
  <2>. QED
    BY <2>1 DEF Progress
<1>4. Stored
  <2>1. i = 0 /\ filled = {} /\ 1..i = {}
    BY DEF Init
  <2>. QED
    BY <2>1 DEF Stored
<1>. QED
  BY <1>2, <1>3, <1>4 DEF MessageInv, Init, FreedUnlessUnhandled, CrashOnlyIfMalformed

\* The process dies where it is.
LEMMA CrashKeeps ==
    ASSUME MessageInv, Crash,
           \/ pc = "copy"
           \/ message.valid /\ ~message.named
           \/ message.valid /\ i \in 0..size - 1 /\ element = "nameless"
    PROVE  MessageInv'
<1>1. UNCHANGED <<pc, message, array, filled, i, json, pl, handled>> /\ status' = "crashed"
  BY DEF Crash
<1>2. TypeOK' /\ Progress' /\ Stored'
  BY <1>1 DEF MessageInv, TypeOK, Progress, Stored, size, Fits
<1>3. FreedUnlessUnhandled' /\ (pc \in {"end", "over"} /\ array = "live" => handled = "none")'
  BY <1>1 DEF MessageInv, FreedUnlessUnhandled
<1>4. CrashOnlyIfMalformed'
  <2>1. CASE pc = "copy" \/ (message.valid /\ ~message.named)
    BY <1>1, <2>1 DEF CrashOnlyIfMalformed
  <2>2. CASE message.valid /\ i \in 0..size - 1 /\ element = "nameless"
    <3>1. size \in Nat /\ i + 1 \in 1..size /\ message.entities[i + 1] = "nameless"
      BY <2>2, SizeIsNat DEF element, MessageInv, TypeOK
    <3>. QED
      BY <1>1, <2>2, <3>1 DEF CrashOnlyIfMalformed, size, Fits
  <2>. QED
    BY <2>1, <2>2
<1>. QED
  BY <1>2, <1>3, <1>4 DEF MessageInv

LEMMA FillKeeps == MessageInv /\ Fill => MessageInv'
<1>. SUFFICES ASSUME MessageInv, Fill PROVE MessageInv'
  OBVIOUS
<1>1. size \in Nat /\ i \in 0..size /\ \A j \in 1..size : message.entities[j] \in Elements
  BY SizeIsNat DEF MessageInv, TypeOK
<1>2. CASE element = "nameless" /\ i < size /\ pc = "fill" /\ Crash
  BY <1>1, <1>2, CrashKeeps DEF MessageInv, Progress
<1>3. CASE /\ i < size /\ element # "nameless" /\ Goto("fill", "fill") /\ i' = i + 1
           /\ UNCHANGED <<message, array, json, pl, handled>>
           /\ IF element = "nonobject"
              THEN UNCHANGED <<filled, status>>
              ELSE /\ filled' = IF element \in Valued THEN filled \cup {i + 1} ELSE filled
                   /\ status' \in IF Fits(i, element) THEN {status} ELSE {"overrun", "crashed"}
  <2>1. /\ pc = "fill" /\ pc' = "fill" /\ status # "crashed" /\ i + 1 \in 1..size
        /\ element = message.entities[i + 1] /\ element \in Elements
        /\ size' = size
    BY <1>1, <1>3 DEF Goto, element, size
  <2>2. "nonobject" \notin Valued
    BY DEF Valued
  <2>3. filled' = {j \in 1..i + 1 : message.entities[j] \in Valued}
    <3>1. filled = {j \in 1..i : message.entities[j] \in Valued}
      BY DEF MessageInv, Stored
    <3>2. filled' = IF element \in Valued THEN filled \cup {i + 1} ELSE filled
      BY <1>3, <2>2
    <3>3. 1..i + 1 = 1..i \cup {i + 1}
      BY <1>1
    <3>. QED
      BY <2>1, <3>1, <3>2, <3>3
  <2>4. Stored'
    <3>0. \A j \in 1..i + 1 : message.entities[j] # "nameless"
      <4>1. \A j \in 1..i + 1 : j \in 1..i \/ j = i + 1
        BY <1>1
      <4>. QED
        BY <1>3, <2>1, <4>1 DEF MessageInv, Stored
    <3>1. status' = "ok" =>
            /\ status = "ok"
            /\ element # "nonobject" => Fits(i, element)
      BY <1>3, <2>1
    <3>2. ASSUME status' = "ok", NEW j \in 1..i + 1,
                 message.entities[j] \in Elements \ {"nonobject"}
          PROVE  Fits(j - 1, message.entities[j])
      <4>1. CASE j = i + 1
        BY <1>1, <2>1, <3>1, <3>2, <4>1
      <4>2. CASE j \in 1..i
        BY <3>1, <3>2, <4>2 DEF MessageInv, Stored
      <4>. QED
        BY <1>1, <4>1, <4>2
    <3>. QED
      BY <1>3, <2>1, <2>3, <3>0, <3>2 DEF Stored, Fits
  <2>5. TypeOK'
    <3>1. status' \in {"ok", "overrun", "crashed"}
      BY <1>3 DEF MessageInv, TypeOK
    <3>2. i' \in 0..size /\ filled' \subseteq 1..size
      BY <1>1, <1>3, <2>1, <2>3
    <3>. QED
      BY <1>3, <2>1, <3>1, <3>2 DEF MessageInv, TypeOK
  <2>6. Progress'
    BY <1>3, <2>1 DEF MessageInv, Progress
  <2>7. CrashOnlyIfMalformed'
    <3>1. status' = "crashed" => element # "nonobject" /\ ~Fits(i, element)
      BY <1>3, <2>1
    <3>2. message.valid /\ size > 0 /\ i = (i + 1) - 1
      BY <1>1, <2>1 DEF MessageInv, Progress
    <3>. QED
      BY <1>3, <2>1, <3>1, <3>2 DEF CrashOnlyIfMalformed, Fits
  <2>. QED
    BY <2>1, <2>4, <2>5, <2>6, <2>7 DEF MessageInv, FreedUnlessUnhandled
<1>. QED
  BY <1>2, <1>3 DEF Fill

\* The steps before and after the loop.
LEMMA OtherKeeps ==
    ASSUME MessageInv, NEW from, NEW to, Goto(from, to),
           UNCHANGED <<message, filled, i, status>>,
           TypeOK', Progress',
           (pc \in {"end", "over"} /\ array = "live" => handled = "none")',
           to = "over" => ~json' /\ ~pl'
    PROVE  MessageInv'
<1>1. Stored'
  BY DEF MessageInv, Stored, Fits, size
<1>2. status' # "crashed" /\ pc' = to
  BY DEF Goto
<1>. QED
  BY <1>1, <1>2 DEF MessageInv, FreedUnlessUnhandled, CrashOnlyIfMalformed

LEMMA NextKeeps == MessageInv /\ Next => MessageInv'
<1>. SUFFICES ASSUME MessageInv, Next PROVE MessageInv'
  OBVIOUS
<1>. USE DEF Goto, TypeOK, Progress, size
<1>1. CASE Copy
  <2>1. CASE pc = "copy" /\ Crash
    BY <2>1, CrashKeeps
  <2>2. CASE Goto("copy", "parse") /\ pl' = TRUE
             /\ UNCHANGED <<message, array, filled, i, status, json, handled>>
    BY <2>2, OtherKeeps DEF MessageInv
  <2>. QED
    BY <1>1, <2>1, <2>2 DEF Copy
<1>2. CASE Parse
  <2>1. CASE message.valid /\ ~message.named /\ Crash
    BY <2>1, CrashKeeps
  <2>2. CASE Goto("parse", "end")
             /\ UNCHANGED <<message, array, filled, i, status, json, pl, handled>>
    BY <2>2, OtherKeeps DEF MessageInv
  <2>3. CASE message.valid /\ message.named /\ Goto("parse", "entities") /\ json' = TRUE
             /\ UNCHANGED <<message, array, filled, i, status, pl, handled>>
    BY <2>3, OtherKeeps DEF MessageInv
  <2>. QED
    BY <1>2, <2>1, <2>2, <2>3 DEF Parse
<1>3. CASE Allocate
  <2>1. CASE size = 0 /\ Goto("entities", "lookup") /\ UNCHANGED array
    BY <1>3, <2>1, OtherKeeps DEF MessageInv, Allocate
  <2>2. CASE size > 0 /\ Goto("entities", "fill") /\ array' = "live"
    BY <1>3, <2>2, OtherKeeps DEF MessageInv, Allocate
  <2>3. CASE size > 0 /\ Goto("entities", "end") /\ UNCHANGED array
    BY <1>3, <2>3, OtherKeeps DEF MessageInv, Allocate
  <2>. QED
    BY <1>3, <2>1, <2>2, <2>3 DEF Allocate
<1>4. CASE FillEnds
  BY <1>4, OtherKeeps DEF MessageInv, FillEnds
<1>5. CASE Lookup
  <2>1. CASE Goto("lookup", "call") /\ handled' = "running"
    BY <1>5, <2>1, OtherKeeps DEF MessageInv, Lookup
  <2>2. CASE Goto("lookup", "end") /\ UNCHANGED handled
    BY <1>5, <2>2, OtherKeeps DEF MessageInv, Lookup
  <2>. QED
    BY <1>5, <2>1, <2>2 DEF Lookup
<1>6. CASE HandlerReturns
  BY <1>6, OtherKeeps DEF MessageInv, HandlerReturns
<1>7. CASE End
  BY <1>7, OtherKeeps DEF MessageInv, End
<1>. QED
  BY <1>1, <1>2, <1>3, <1>4, <1>5, <1>6, <1>7, FillKeeps DEF Next

LEMMA MessageInvariant == RepliesSpec => []MessageInv
<1>1. RepliesInit => MessageInv
  BY MessageInit DEF RepliesInit
<1>2. MessageInv /\ UNCHANGED vars => MessageInv'
  BY DEF MessageInv, vars, TypeOK, Progress, Stored, FreedUnlessUnhandled,
         CrashOnlyIfMalformed, size, Fits
<1>3. MessageInv /\ [RepliesNext]_<<vars, requestVars>> => MessageInv'
  BY <1>2, NextKeeps DEF RepliesNext, HandlerSends, MessageGoesOn
<1>. QED
  BY <1>1, <1>3, PTL DEF RepliesSpec

\* Every variable of the message keeps its type: the loop stays inside the
\* entities.
THEOREM TypeCorrect == RepliesSpec => []TypeOK
<1>1. MessageInv => TypeOK
  BY DEF MessageInv
<1>. QED
  BY <1>1, MessageInvariant, PTL

\* What a handler finds typed is what the message has typed.
THEOREM HandlerFindsTypes == RepliesSpec => []TypedIfValued
<1>1. MessageInv => TypedIfValued
  BY DEF MessageInv, Progress, Stored, TypedIfValued
<1>. QED
  BY <1>1, MessageInvariant, PTL

\* Everything is freed on every path but one.
THEOREM FreedUnless == RepliesSpec => []FreedUnlessUnhandled
<1>1. MessageInv => FreedUnlessUnhandled
  BY DEF MessageInv
<1>. QED
  BY <1>1, MessageInvariant, PTL

\* The process survives every message but the ones named.
THEOREM CrashesKnown == RepliesSpec => []CrashOnlyIfMalformed
<1>1. MessageInv => CrashOnlyIfMalformed
  BY DEF MessageInv
<1>. QED
  BY <1>1, MessageInvariant, PTL

\* With an allocator that rounds up like glibc's, no message with two entities
\* or more, however many, leaves its array intact if all are objects.
THEOREM IntactOne == RepliesSpec => []IntactOnlyIfOne
<1>1. MessageInv => IntactOnlyIfOne
  <2>. SUFFICES ASSUME MessageInv, handled = "running", status = "ok", size # 0,
                       \A j \in 1..size : message.entities[j] # "nonobject"
                PROVE  size = 1 /\ message.entities[1] \in {"string", "untyped"}
    BY DEF IntactOnlyIfOne
  <2>1. /\ size \in Nat /\ size <= MaxEntities /\ MaxEntities \in Nat
        /\ \A j \in 1..size : message.entities[j] \in Elements
    BY SizeIsNat, MaxEntitiesIsNat DEF MessageInv, TypeOK
  <2>2. \A j \in 1..size : Fits(j - 1, message.entities[j])
    BY <2>1 DEF MessageInv, Progress, Stored
  <2>3. /\ Usable(size * PointerSize) \in Nat
        /\ Usable(size * PointerSize) <= IF size <= 3 THEN 24 ELSE size * PointerSize + 15
    BY <2>1, UsableIsEnough, UsableIsRounded
  <2>4. size \in 1..size /\ size >= 1
    BY <2>1
  <2>. DEFINE e == message.entities[size]
  <2>5. EntitySize * (size - 1) + FieldsEnd(e) <= Usable(size * PointerSize)
    BY <2>2, <2>4 DEF Fits
  <2>6. e \in {"string", "double", "int", "bool", "untyped"}
    BY <2>1, <2>4 DEF MessageInv, Progress, Stored, Elements, Valued
  <2>7. FieldsEnd(e) \in Int /\ FieldsEnd(e) >= 8
        /\ (FieldsEnd(e) <= 24 => e \in {"string", "untyped"})
    BY <2>6 DEF FieldsEnd
  <2>. HIDE DEF e
  <2>8. CASE size = 1
    <3>1. FieldsEnd(e) <= 24
      BY <2>3, <2>5, <2>7, <2>8 DEF EntitySize, PointerSize
    <3>. QED
      BY <2>7, <2>8, <3>1 DEF e
  <2>9. CASE size > 1
    <3>1. 40 * (size - 1) + 8 <= Usable(size * PointerSize)
      BY <2>1, <2>3, <2>5, <2>7 DEF EntitySize
    <3>2. Usable(size * PointerSize) <= 8 * size + 15
      BY <2>1, <2>3, <2>9 DEF PointerSize
    <3>. QED
      BY <2>1, <2>3, <2>9, <3>1, <3>2
  <2>. QED
    BY <2>4, <2>8, <2>9
<1>. QED
  BY <1>1, MessageInvariant, PTL

-----------------------------------------------------------------------------
(* The number of steps a message takes.                                    *)

\* What is left of a message at each place in the code; of one whose process
\* has died, nothing.
MessageRank ==
    IF status = "crashed" THEN 0
    ELSE CASE pc = "copy"     -> size + 7
           [] pc = "parse"    -> size + 6
           [] pc = "entities" -> size + 5
           [] pc = "fill"     -> (size - i) + 4
           [] pc = "lookup"   -> 3
           [] pc = "call"     -> 2
           [] pc = "end"      -> 1
           [] OTHER           -> 0

\* A message on its way comes nearer to its end with every step of its own, and
\* what the handler sends does not take it back.
MessageCountsDown ==
    /\ MessageGoesOn => MessageRank' < MessageRank
    /\ HandlerSends => MessageRank' = MessageRank

LEMMA RankTyped == MessageInv => MessageRank \in Nat
<1>. SUFFICES ASSUME MessageInv PROVE MessageRank \in Nat
  OBVIOUS
<1>1. size \in Nat /\ i \in 0..size
  BY SizeIsNat DEF MessageInv, TypeOK
<1>. QED
  BY <1>1 DEF MessageRank

LEMMA MessageStep == MessageInv /\ Next => MessageRank' < MessageRank
<1>. SUFFICES ASSUME MessageInv, Next PROVE MessageRank' < MessageRank
  OBVIOUS
<1>1. /\ size \in Nat /\ i \in 0..size
      /\ pc \in {"copy", "parse", "entities", "fill", "lookup", "call", "end", "over"}
  BY SizeIsNat DEF MessageInv, TypeOK
<1>2. size' = size
  BY DEF Next, Copy, Parse, Allocate, Fill, FillEnds, Lookup, HandlerReturns, End, Crash, size
<1>3. CASE status # "crashed" /\ Crash /\ pc # "over"
  <2>1. MessageRank > 0
    BY <1>1, <1>3 DEF MessageRank
  <2>. QED
    BY <1>3, <2>1 DEF MessageRank, Crash
<1>4. CASE Copy
  BY <1>1, <1>2, <1>3, <1>4 DEF Copy, Goto, MessageRank
<1>5. CASE Parse
  BY <1>1, <1>2, <1>3, <1>5 DEF Parse, Goto, MessageRank
<1>6. CASE Allocate
  <2>1. i = 0
    BY <1>6 DEF Allocate, Goto, MessageInv, Progress
  <2>. QED
    BY <1>1, <1>2, <1>6, <2>1 DEF Allocate, Goto, MessageRank
<1>7. CASE Fill
  BY <1>1, <1>2, <1>3, <1>7 DEF Fill, Goto, MessageRank
<1>8. CASE FillEnds \/ Lookup \/ HandlerReturns \/ End
  BY <1>1, <1>2, <1>8 DEF FillEnds, Lookup, HandlerReturns, End, Goto, MessageRank
<1>. QED
  BY <1>4, <1>5, <1>6, <1>7, <1>8 DEF Next

\* A message of n entities is done with after at most n + 7 steps of its own,
\* whether it is malformed, unhandled, short of memory or fatal, and whatever
\* its handler sends in between.
THEOREM MessageBounded ==
    RepliesSpec => [](MessageRank \in Nat) /\ [][MessageCountsDown]_<<vars, requestVars>>
<1>1. MessageInv => MessageRank \in Nat
  BY RankTyped
<1>2. MessageInv /\ [RepliesNext]_<<vars, requestVars>>
         => [MessageCountsDown]_<<vars, requestVars>>
  <2>1. MessageInv /\ MessageGoesOn => MessageRank' < MessageRank
    BY MessageStep DEF MessageGoesOn
  <2>2. HandlerSends => MessageRank' = MessageRank
    BY DEF HandlerSends, vars, MessageRank, size
  <2>. QED
    BY <2>1, <2>2 DEF MessageCountsDown
<1>. QED
  BY <1>1, <1>2, MessageInvariant, PTL DEF RepliesSpec
=============================================================================
