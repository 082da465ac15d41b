# Verification of the Veides Agent SDK for C

TLA+ models of the SDK in `src/veides_agent_client`, TLC configurations that
check them on small instances, and TLAPS proofs for every value of the
constants. `PROJECT.json` maps each definition to the lines it models and lists
the runs, mutants, hazards, findings and theorems.

## The system

The SDK connects a device agent to the Veides platform over MQTT. It runs in
two threads.

* The **application thread** calls the API: create, connect, set handlers, send
  events, trails and facts, disconnect, destroy. The calls block: connect and
  disconnect sleep and poll.
* The **Paho thread** belongs to the Paho MQTT C client. It runs the SDK's
  callbacks: the outcomes of connect and disconnect, and arriving messages,
  from which it calls the application's own handlers.

They share the `VeidesClient` structure. One mutex protects one of its fields,
`connected`, and not everywhere.

| Component | State | Operations | Reaches others by |
|---|---|---|---|
| Agent client session (`veides_base_client.c`, `veides_agent_client.c`) | `connected`: 1, 0, or 0 - code of a failure; the Paho handle; the topic handlers | create, connect, isConnected, disconnect, publish, subscribe, setHandler, destroy; onConnect, onConnectFailure, onDisconnect, onDisconnectFailure | calls of Paho; callbacks run by Paho |
| Handler tables (`veides_base_client.c`) | for actions and for methods: array, count, index of the handler for any name | set, set any, get, get any | written by the application thread, read by the Paho thread, no lock |
| Dispatcher (`veides_base_client.c`, `veides_agent_client.c`) | none of its own | messageArrived, actionMessageReceived, methodMessageReceived | topic matching, handler tables, application callbacks |
| Topic matching (`veides_utils.c`) | two pointers | topic_match | used by dispatcher and setHandler |
| Facts (`veides_agent_client.c`) | array of name and value | create, addFact, destroy, sendFacts | publish |
| Properties (`veides_properties.c`) | client id, keys, host, port | create, setProperty, setPropertiesFromEnv, destroy, validate | the client keeps a pointer to them and to the client id |
| Logger (`veides_logger.c`) | level, handler, one global buffer | log, setLevel, setHandler | called from everywhere, in both threads, sometimes under the mutex |
| Formatting (`veides_agent_client.c`) | none | topics and JSON payloads built with snprintf | publish |
| Paho, cJSON, gtest | third-party | | |

What makes it hard to get right:

* an outcome is reported by overwriting one integer, with nothing that says
  which call it belongs to; a call that timed out leaves its answer to the next;
* connect reads and clears the flag in two critical sections; disconnect and
  publish read it in none;
* Paho reconnects by itself and does not tell the SDK;
* tables grow by `realloc` while the other thread searches them;
* messages arrive before their handler is registered, and the application's own
  handlers send from the thread that must run the callbacks;
* the client and the client id are freed while others hold pointers to them;
* arrays are requested with the size of pointers and filled with structures;
* one log buffer serves both threads, callbacks log under the mutex, and a log
  handler that calls the SDK is called again;
* topic matching is a hand-written scanner with lookahead.

What each component owes its callers:

* **session**: connect returns success only when connected; it acts on its own
  answer; a report is not lost; while there is a session publish and disconnect
  see it; a subscribed topic has a handler; calls return; no callback touches a
  freed client; subscriptions survive a reconnect;
* **tables**: a lookup finds the handler of the name, else the one for any
  name; it reads only initialised, live memory; it ends; names are unique;
* **dispatcher**: every message reaches exactly one handler once it is routable;
* **topic matching**: the MQTT rule where it follows it, inside the strings,
  always ending;
* **facts**: every fact added is stored in the memory requested, and one that
  memory is short for takes no other with it when they are sent;
* **properties**: one owner for each allocation;
* **logger**: a message handed to the handler is one message; logging does not
  keep the mutex from others;
* **formatting**: each text fits the buffer whose length was worked out for it.

## Modules

| Module | What it is | Proofs |
|---|---|---|
| `VeidesRC` | The return codes of `veides_rc.h` and the Paho codes used. | |
| `PahoSession` | Environment: Paho and the broker as the SDK can observe them. | |
| `AgentClient` | The session: both threads, the flag, the topic table. EXTENDS `PahoSession`. | `AgentClientProofs` |
| `AgentMessages` | The session with messages, their handlers, and what those send. EXTENDS `AgentClient`. | `AgentMessagesProofs` |
| `Routing` | Abstract specification of a table of handlers. | |
| `HandlerTable` | The table of action handlers, access by access; implements `Routing`. | `HandlerTableProofs` |
| `TopicMatch` | `veides_utils_topic_match`, character by character, and matching as MQTT defines it. | `TopicMatchProofs` |
| `ActionMessage` | One action message: parsed, put into an array, handled, freed. | |
| `Requests` | The texts of topics, url and payloads, by their lengths. | |
| `ActionReplies` | An action message whose handler sends requests. EXTENDS both. | `ActionRepliesProofs` |
| `Facts` | The array of facts and its memory. | `FactsProofs` |
| `Ownership` | Properties and clients that share strings. | `OwnershipProofs` |
| `Logger` | The logger in both threads, with the client mutex. | `LoggerProofs` |
| `MCAgentClient`, `MCAgentMessages`, `MCActionReplies` | Constants for TLC. | |

How they fit together: `AgentMessages` is the session composed with the
dispatcher, and implements `AgentClient!Spec`, so that everything shown of the
session holds with messages. It looks a message up in the two steps `Routing`
promises; `HandlerTable` implements `Routing` down to memory accesses.
`HasHandler` of `AgentMessages` takes a topic as matched by its own
subscription, which `TopicMatch` checks. What a message goes through inside
`actionMessageReceived`, between its arrival and the call of the handler, is
`ActionMessage`, and what the handler sends from there is `Requests`.

### AgentClient and PahoSession

`pc` is where the application thread is inside the SDK. A location is a point
where the Paho thread may run in between: a sleep, a lock taken or given up, a
call into Paho. What the code does between two such points is one action.

| Action | Code |
|---|---|
| `ConnectStart` | `veides_client_connect` up to `MQTTAsync_connect` and its code |
| `ConnectPoll` | one turn of the wait loop: sleep, read the flag under the mutex, decide |
| `ConnectReset` | the second critical section, which clears the flag after a failure |
| `Subscribe`, `SetHandler`, `NextTopic` | the part of `VeidesAgentClient_connect` that subscribes the two topics and registers their handlers |
| `DisconnectStart`, `DisconnectCall`, `DisconnectRead`, `DisconnectPoll`, `DisconnectReset` | `veides_client_disconnect`, split at the unlocked read, the Paho call and each lock |
| `PublishStart`, `Send`, `RetryConnect` | `veides_client_publish`, under every send function |
| `Destroy` | `veides_client_destroy` |
| `DeliverAnswer` | whichever of the four outcome callbacks is due |
| `DeliverAfterFree` | the same callback when the client has been freed |

`connected`, `handlers` and `alive` are the client's fields; `rc`, `topic`,
`polls` and `seen.flag` are locals. `last`, `seen.answer`, `quiet`,
`overwrote`, `nomem`, `wanted` and the call numbers in answers are history: no
guard of the code's actions reads them (`calls` also bounds the number of
calls).

`PahoSession` is what Paho may do, read off the options the SDK sets
(`automaticReconnect`, `cleansession`, `sendWhileDisconnected`, no
`connectionLost` and no `connected` callback): a request returns a code at
once, an outcome is queued and delivered later, in order. A connection may be
accepted, refused with any of `FailureCodes`, lost, and re-established.

Abstracted: properties are valid and memory for the small `calloc`s is there
(`realloc` may fail); both topics are constants; the payload and the topic of a
publish do not matter here.

### AgentMessages

The Paho thread is one thread: `cbpc` is where it is in
`veides_client_messageArrived` and what that calls, and outcome callbacks wait
until it is idle. `Publish` is the broker, `MessageArrived` the search for the
topic's handler, `LookupNamed` and `LookupAny` the two lookups,
`HandlerReturns` the end of the application's handler. `HandlerSends` is a send
from inside that handler, as the sample does: one that fails enters the retry
loop of publish, in the thread that should run the callbacks.
`MessageAfterFree` is a message in flight when the client is destroyed.
`known` is history, and so is `fate`.

### HandlerTable and Routing

A step is one access to memory that both threads use: the pointer `entries`,
the array, `count`, `anyActionId`. `realloc` may extend in place, move the block
and free the old one, or fail. Blocks are numbered so that a freed one can be
told from a live one. Stores take effect in program order, as on x86-64 with a
compiler that does not reorder them; on a weaker machine more could happen.
The method table is the same code with other types. `moved` is history.

`Routing` has no memory: a table from names to callbacks, registration in one
step, a message that looks for its name and then for the handler of any name.
The refinement takes as the table the slots below `count`, and the one
`anyActionId` points to (which is visible a step before `count` is). An update
of a callback in the middle of a dispatch is then a `Register`, and the call
runs what the table holds at that moment.

### TopicMatch

A C string is a function from its offsets whose last value is the terminator,
so reading beyond it is an error TLC reports. Each turn of a loop of the scanner
is an action, `s` and `t` are the two pointers. `Early` is the test of both
strings before the loop: an empty one (or `NULL`, which is answered alike) does
not match, and when a `$` begins just one of the two (`OneDollar`) the answer is
*match*.

`MQTTMatches` is MQTT's rule, written without a recursion: `LevelsMatch` is 4.7.1
of the standard, level by level, by the offsets at which levels begin; 4.7.2 adds
that a wildcard at the start does not match a topic that begins with `$`.

The `OneDollar` answer is against both: `a` is said to match `$b`, and `#` to
match `$SYS/foo`. `src/tests/veides_utils.cpp:30` asserts the latter, so the code
does what its test says, and neither is what MQTT says. `AgreesWithMQTT` states
the disagreement as the one exception it is. The topics of the SDK begin with
`agent/`, so no filter or topic of its own meets it.

### ActionMessage, Requests and ActionReplies

`ActionMessage` follows `veides_client_actionMessageReceived` with one action
per stage: copy, parse, allocate, one turn of the fill loop, lookup, the
handler, the end. An entity is one of seven sorts, after what the code asks of
it. The array is requested with eight bytes for each entity and written at
multiples of 40: `FieldsEnd` holds the offsets of the fields on 64 bits, and
`Usable(_)` what the allocator gives for a request. A method message takes the
same way without the array.

`Requests` has one operator per send function and one each for the url and the
subscribed topics. Only lengths matter: `Text(want, size)` is a text of `want`
characters printed into `size` bytes, and `Chars(n)` what `%d` makes of `n`.
`NULL` is the length of an argument that is not there.

`ActionReplies` interleaves them as the code does: a request is made while the
handler runs, and the message goes on when the handler is not in one.

### Facts

Memory is counted in words of the size of a pointer, the size with which each
block is requested; `Granted` is what the allocator gives (glibc on 64 bits: 24
bytes, three words), and a structure takes two. Since `addFact` always asks for
one pointer, `realloc` leaves the array where it is. A `strdup` that fails is
seen in the fact itself.

`SendFacts` goes through what cJSON may do for want of memory: no object (the
call fails), no string for a value (the fact is skipped), a key that cannot be
copied (the result of the add is not looked at), no text (`NULL` is published, an
empty message). The last three still return success. `sent` is what was
published: the facts in the payload, those cJSON refused, and whether a payload
was printed. It, `added` and `destroyed` are history. What cJSON allocates is not
counted among the blocks.

### Ownership

Strings are numbered as they are allocated; `field` and `clientId` hold
numbers, so that two pointers to one string, and a pointer to a freed one, are
visible. All calls of `veides_properties.c` and create, use and destroy of the
client are actions, with every early return. A step that touches a freed string
sets `fault`, after which nothing is called. `Reuse` says whether the
application goes on using properties after it made a client of them, which no
comment forbids and the sample does not do.

### Logger

The buffer has two halves, so that it can be caught half-written. Each thread
goes through `veides_log`: level test, handler test, clear, write twice, call,
and the handler reads both halves. `Calling` are the handlers that call the SDK,
connect for instance. That takes the client mutex (`HandlerCalls`,
`HandlerLocks`) and logs (`HandlerLogs`), and so enters `veides_log`, and the
handler, again: `stack` holds the calls a thread is in, the innermost last.
`CallbackLocks`, `CallbackLogs` and `CallbackUnlocks` are the critical sections of
the outcome callbacks, which log inside. `shared` is history: the calls, by thread
and depth, that were not alone in the buffer.

## Runs

| Run | Result | What it shows |
|---|---|---|
| `agent_session` | pass | Three calls in any order on a network that accepts, refuses, drops and reconnects |
| `agent_resubscribe` | violation | After an automatic reconnect the topics are not subscribed (`CHANGELOG.md:26` says they are) |
| `agent_connect_code` | violation | A failure with code -1 becomes `connected = 1` and connect goes on |
| `agent_destroy` | violation | disconnect returns before it is over, and destroy frees what `onDisconnect` writes |
| `agent_publish_retry` | violation | A failed send never returns |
| `messages` | pass | Messages, handlers and their sends leave the session what it was; which messages are lost; nothing hangs but what is named |
| `handler_table` | pass | The table implements `Routing`; memory order, uniqueness, an end to each lookup |
| `topic_match` | pass | All short filters and topics: bounds, end, and agreement with MQTT but for the `$` answer |
| `replies` | pass | Every message of up to three entities, with every request its handler makes |
| `facts` | pass | Arrays of facts filled, sent and destroyed while any step may fail |
| `ownership` | pass | Properties and clients in any order of calls |
| `logger` | pass | Both threads log, one handler from inside itself, while handler and level change |

The properties, in words. Several describe exactly how far a defect reaches:
that the code is wrong there is visible in the property, and the run and the
theorem say that it is wrong nowhere else.

Session:

* `SuccessIsReported`: connect goes on to subscribe only after `onConnect`, or
  after a failure whose code is negative; never after a timeout, a positive code
  or a disconnect. (The second half is the finding of `agent_connect_code`; the
  property says there is no other way.)
* `OwnAnswerOnQuietClient`: a connect that began with the flag 0, no callback
  due and no session acts on its own answer. Without that condition it need
  not: an answer that comes after a timeout is taken by the next call.
* `ClearsOnlyOwnReport`: between the two critical sections of connect nothing
  new can be reported, if the failure read was this call's own.
* `FlagMirrorsSession`: while Paho holds a session and no callback is due, the
  flag says connected, or a late clear overwrote it.
* `SubscribedThenHandled`: a topic asked for or granted has a handler, or the
  running connect is about to register it, or memory was short.
* `CallsReturn`: connect and disconnect end.

Messages:

* `ImplementsSession`: the composition is a refinement of the session.
* `LostOnlyInWindow`: a message of a granted topic finds no handler only between
  the subscription and the registration of its connect, or for want of memory.
  The window is real: its message is acknowledged and dropped.
* `UnhandledHadNoHandler`: a message goes unhandled only if nothing was
  registered for it, by name or for any, when it was taken.
* `MessagesDispatched`: every message received is worked off, unless a handler's
  send has stopped the Paho thread or the process has died.
* `CallsReturnWithoutCallbacks`: even with the Paho thread stopped for good,
  connect and disconnect return, by their own count.

Handler table:

* `ImplementsRouting`: whatever the interleaving of accesses, the outcome of
  each message is one that registrations and lookups in single steps allow.
* `ReadsWrittenSlot`, `FaultsOnlyIfMoved`: a lookup loads only elements that
  have been stored, and only a move of the array during that lookup can make it
  touch freed memory.
* `OneHandlerPerName`, `DispatchEnds`: one entry per name, an end.

Topic matching:

* `WildcardMatchesNothing`: a topic with a wildcard matches no filter, itself
  included, unless a `$` begins just one of the two; so `setHandler` adds
  `agent/<id>/method/+` anew at every connect.
* `AgreesWithMQTT`, `Terminates`: for valid filters and topics the verdict is
  MQTT's, or its opposite if a `$` begins just one of the two, and there is one.

Action messages and requests:

* `IntactOnlyIfOne`: of messages whose entities are all objects, only those with
  none, or with a single one that is a string or untyped, reach their handler
  with the array intact.
* `TypedIfValued`: the handler finds a type in exactly the entries whose value
  has one; the others are as `malloc` left them.
* `FreedUnlessUnhandled`: copy, tree and array are freed on every path, but the
  array not on that of a message nobody handles.
* `CrashOnlyIfMalformed`: which messages can take the process down.
* `TextsWhole`, `ResponseCutIfWide`: no text is cut off except a method response
  whose code has more than five characters.

Facts, ownership, logger:

* `OverrunPastGranted`: an array is overrun only from the fact on that
  exceeds what the allocator gave: with glibc, the fourth.
* `OnlyContainersLeak`: names, values and array objects are freed once each
  whatever failed; the pointer arrays and the facts never are.
* `PayloadTraced`: when sendFacts succeeds, what it publishes is made of facts
  accepted since create, each whole, and a fact is missing only if its own name
  or value could not be copied, by `addFact` or by cJSON, or if the whole message
  is empty. Success does not mean more than that.
* `FaultOnlyByReuse`: freed strings are touched only by an application that used
  its properties again after it made a client of them.
* `OnlyTheseLost`: of the strings of the properties only the client id of
  properties that never had a client is leaked, and of client objects only those
  Paho refused. It counts nothing else: destroy of a client also leaves its topic
  entries, its handler tables and the Paho handle.
* `CallsAHandler`: the handler read a second time for the call is never NULL.
* `TornOnlyIfShared`: a handler reads its own message whole unless another call
  was in the buffer at the same time, of the other thread or one it caused itself
  by calling the SDK before it had read.
* `MutexGivenBack`: an outcome callback gives the mutex back whatever the other
  thread does with the logger meanwhile, unless the handler called for its own
  message calls the SDK, which waits for that mutex or calls the handler again.
  Of the recursion of such a handler nothing is promised, and nothing in the code
  ends it: with a level at which connect logs, a handler that always calls
  connect calls itself for ever.

### Bounds

* `MaxPolls = 2` instead of 30: a poll that repeats and one that times out. The
  code compares the counter with the limit only.
* `agent_session`, `MaxCalls = 3`: a call that times out, the call that meets
  its late answer, and one more (a disconnect or a publish) that meets what that
  left behind. `MaxDrops = 1`: one loss of the connection and one reconnect; a
  second begins in the same state, with no subscription.
  `FailureCodes = {-11, -1, 0, 5}`: a code that becomes a positive flag, the one
  that becomes exactly 1, none at all, and a refusal by the broker.
  `BrokerRefuses = {ActionTopic}`: one topic that may be refused, one that may not.
* `messages`: two calls, one loss, one name, one message and one registration,
  of the name or for any. One message is enough to be early, unhandled, stuck or
  in flight over a destroy; the theorems hold for any number.
* `handler_table`: two names, two callbacks, four registrations, two messages:
  both names, the handler for any name and an update of one of them, with a
  lookup of a fresh table and of a used one.
* `topic_match`: filters up to five characters and topics up to three, over
  `a`, `$`, `/`, `+`, `#`. Five characters hold `a/+/#`, the longest pattern the
  scanner treats specially.
* `replies`: three entities, the most for which glibc's smallest block is enough
  room for the request; arguments up to three characters, since lengths only
  enter sums; codes on both sides of five characters, and the extremes of an
  int; ports of the least and most digits.
* `facts`: `Granted = 3`, four facts, the first that does not fit; two arrays,
  so that one is destroyed before the other is made.
* `ownership`: the client id and two other fields, five strings, two clients:
  every field set, two of them again, and a second client on the same properties.
* `logger`: two handlers, one of which calls the SDK; two levels, one below the
  level in force; three messages, so that two overlap and one follows, or a
  handler is called inside a call inside a call. The bound on messages is also
  what ends the recursion of the model; the theorems hold at any depth.

The proofs do not depend on any of them.

### Fairness

* `AgentClient`: a thread inside a call runs on (`WF` of `ContinueCall`), Paho
  runs the callbacks that are due (`WF` of `Callback`), and Paho and the broker
  answer what they were asked (`WF` of `PahoProgress`): Paho has its own connect
  and disconnect timeouts and retries a lost connection. Nothing obliges the
  application to call, the network to fail, or the retry loop of publish to
  advance.
* `AgentMessages`: the same, but callbacks only while the Paho thread is idle;
  the dispatcher runs, and application handlers return unless a send of theirs
  has entered the retry loop.
* `HandlerTable`: both threads run. `TopicMatch`: the scanner runs.
* `Logger`: only the Paho thread runs for certain, through a callback, the
  logging inside it and a handler that comes to its end. Nothing is assumed of
  the application thread, nor of who gets a mutex that several threads wait for,
  which pthreads do not promise.

Deadlock is not checked because the systems stop: a destroyed client, a
finished scan or message, a crash, a used-up bound.

## Proofs

Each proof module ends in the theorems `PROJECT.json` lists. They hold for every
value of the constants under the `ASSUME`s of the modules, which TLC evaluates
in the runs.

`AgentClientProofs` assumes only that the two topics differ, that codes are
integers and that the bounds are numbers.

* `TypeCorrect`: `TypeOK` is inductive.
* `SuccessReported`: with `FlagFollowsAnswer`, the flag is 0 or what the last
  answer made it; then a flag above 0 tells which callbacks can have set it.
* `QuietOwnsAnswer`: by `QuietConnect`. While a connect that began quietly runs,
  every answer due, the attempt and the answer in the flag carry its number.
  `OwnAnswerOnQuietClient` alone is not inductive, as it says nothing of answers
  still to come.
* `ClearsOwn`: by `AnswersNumbered` (an answer carries the number of a call
  already made, a disconnect's carries none) and `FailureIsFinal` (the failure
  of the current connect is the last thing Paho reports: its queue is empty and
  its session idle from the callback until the clear).
* `FlagMirrors`: by `ReportOfSession`, the newest report of a session that is
  held, delivered or due, is its `onConnect`.
* `Handled`: `SubscribedThenHandled` is inductive with `FreedBetweenCalls`.
* `AcceptedUnlessNegative`: the run `agent_connect_code` finds
  `ConnectedOnlyIfAccepted` violated by a failure code below 0. The theorem says
  that this is the only cause: if all codes are 0 or more, no timing of answers,
  timeouts and drops makes connect go on without an `onConnect`. The assumption
  is one about Paho's codes, which the SDK does not make true.
* `CallsBounded`: `CallRank` is what is left of a call, at most `MaxPolls + 5`
  steps; each step of the call lowers it and no other step raises it
  (`PollsCounted`: a wait loop begins with all its polls and stays below the
  limit).
* `TableGrowth`: by `TableCounted`, which counts the entries against the connects
  that are over. The action topic is in the table once, since it is found again;
  each connect may add one entry of the wildcard topic, which is not.
* `QuietFlagExact` and `QuietDestroySafe` say what an application must do to be
  safe from the defects of the flag. `ConnectsWhenQuiet`: it calls connect only
  with the flag 0, no callback due and no session, as one that connects once
  does. Then `OneOutcome` (at most one outcome is due, and it tells where the
  session is) and `FlagExact` (the flag mirrors a reported session with no
  exception, a failure stands in it until it is cleared, nothing is overwritten)
  are inductive together. If it also destroys the client only with the flag 0
  and nothing outstanding (`DestroysWhenOver`), no callback runs after the free,
  and `DisconnectOverBeforeDestroy`, which `agent_destroy` finds violated, holds.
  The sample keeps to the first and not to the second.

`AgentMessagesProofs` (there is a name) shows by `SessionSteps` that every step
is a step of the session or leaves it alone. `SessionKept` draws the consequence:
the properties of the session, the bound on the steps of its calls, and the exact
flag of an application that connects when it is quiet, hold whatever the
dispatcher and the handlers do.
`UnhandledHadNoHandler` needs `LookupInv`: handlers are only ever added, and one
that was missed by name was not known. `LostOnly` needs `InboxServed`: the topic
of each message in the inbox is served (has a handler, is about to be given one
by the running connect, or memory was short), and no step ends that.
`DispatchBounded`: a message takes the Paho thread four steps, and no step of
the application thread sets it back.

`HandlerTableProofs` (there is a callback) has an invariant in four parts.
`WriterInv` ties the slots to `count` at each point of a registration;
`AnyInv` says that the handler for any name is where `anyActionId` says, or is
about to be; `ReaderInv` that the slots the lookup has passed do not hold its
name and the index it loads has been written; `MemoryInv` which blocks are freed
and that a reader holding one has seen a move. For `RefinesRouting`, `TableIs`
computes the abstract table from the visible slots (a `CHOOSE` that uniqueness
makes harmless), and each step maps to a step of `Routing` or to a stutter.
`LookupBounded`: the lookup compares its index with `count` as it grows, but
`CountLimit` (`count` and the registrations still to come) never rises, and
`LookupRank` counts the way from the index up to it.
`NoFaultApart`: an application that adds handlers only while no message is
looked up (`AddsBetweenLookups`) needs no lock. Replacing the callback of a
handler is safe at any time. The sample adds its handlers after it has connected
and is exposed.

`TopicMatchProofs` shows `PointersInside` and `WildcardsUnmatched` for strings
of any length, by one invariant: both strings are terminated, the pointers are
inside, and what the topic pointer has passed holds no wildcard.

`VerdictsAgree` is the correctness of the scanner: for a valid filter and a topic
without wildcards, of any length, it answers what `MQTTMatches` says. The
invariant is `Agreed`. While the scanner runs, the levels below the current one
match (`MatchedBelow`), and where it is in the two levels depends on the place in
the code: the pointers are at equal distance from the beginnings of levels of
equal number with equal text up to there (`AlignedAt`), or the filter's pointer
stands behind a `+` and the topic's is anywhere in the same level (`AfterPlus`),
or the filter's level is the `#`. At the end the verdict is right. The scanner
looks one character back and up to three ahead, so most of the proof is about
what these looks say: that a `/` ends one level and begins the next, that no two
levels overlap, that a wildcard in a valid filter stands alone in its level
(the lemmas on `Start`, `InLevel`, `Begins`). The parent rule, by which `a/#`
matches `a`, is the case in which one string ends before the other.

The answer before the loop is the other half: `OneDollarDiffers` shows that a `$`
at the start of just one of the two keeps the first levels from matching, or is
ruled out by 4.7.2, so that *match* is the opposite of `MQTTMatches`.

`StepsRunOut`: `StepsLeft`, from the two pointers and the place, falls with every
step.

`ActionRepliesProofs` is about the composition. `Fine(composed)` states both
text properties of the request under way, and each send function is shown to
compose a fine one, by arithmetic on lengths; `PortChars` and `CodeChars` bound
what `%d` prints. `MessageInv` follows the loop: `Stored` says what the first `i`
entries hold and, while the status is ok, that each of them fitted.
`IntactOne` needs `UsableIsRounded`, that the allocator gives no more than
glibc's rounding; the other theorems do not. `MessageBounded`: a message of `n`
entities takes at most `n + 7` steps, of which its handler's sends undo none.

`FactsProofs` (any allocator, any number of facts): `Recorded`, the facts stored
are those accepted, in order, and `Emptied`; the count of strings rests on
`CopiesAppend`, which the theorems on finite sets give. `SentTraced` follows from
`Recorded`: the facts are those accepted, so what is left out of the payload is
left out for its own copy's sake, whatever cJSON refused.

`OwnershipProofs`: until the first fault, no two fields hold the same string
(`Distinct`), what live properties point to has not been freed, but for the id
of a client that is gone (`FieldsLive`), the client and its properties share
the id until it is set again (`IdShared`), properties of a client stay complete
unless they are reused (`StaysValid`), and every string not freed is where
`OnlyTheseLost` says (`NoneLost`).

`LoggerProofs` (any number of messages, calls within calls of any depth):
`HandlerInv`, once there is a handler there always is one; `SharedInv`, of two
calls in the buffer, if they are of two threads both know it, and if of one thread
the outer does; `AloneInv`, a call that has been alone finds in the buffer what it
has written so far. `GoOnStack`, `ReturnStack` and `LogStack` say what the three
operations do to a stack, and `OutsideKeeps` that calls may begin and end at any
depth.
`TypeCorrect` is proved and not among the run's properties.

Only model-checked: liveness (`CallsReturn`, `DispatchEnds`, `Terminates`,
`MessagesDispatched`, `CallsReturnWithoutCallbacks`, `MutexGivenBack`), which is out
of the prover's reach. Of all but the last the half that is a safety property is
proved for every value of the constants: a count which the steps concerned lower,
and which nothing raises (`CallsBounded`, `SessionKept`, `LookupBounded`,
`StepsRunOut`, `DispatchBounded`). What is left to TLC is that the thread is
scheduled and has a step to take. `MutexGivenBack` has no such count proved: its
callback logs once, and TLC follows it.

## Not modelled

* Third-party code: cJSON and gtest; of Paho, what `PahoSession` says. Of cJSON,
  `ActionMessage` takes the tree and `Facts` the failures; a value that it could
  not add to the payload is leaked inside it, which no model counts.
* A log handler that itself calls `veides_log_setHandler` or
  `veides_log_setLevel`: only the application thread outside its handlers does.
* The main program of the sample makes the calls the models allow in any order;
  its handlers are in `AgentMessages`, `ActionReplies` and `Logger`. The tests
  were read for the intended behaviour.
* The sleep, the version banner and the text of log messages: no state.
* A value of the environment that contains `=` is cut there
  (`veides_properties.c:148`). `Ownership` sets the property whatever its text.
* The topic of each send and the text of `sendFacts` are never freed; this
  happens on every path, so no interleaving matters. The same holds of the NULL
  handles that destroy reports and then reads, and of `sendTrail` without a
  value: the models have the crash as an action and no property about it.
* connect from inside a message handler: it would wait in the thread of its own
  callback until its polls are used up. `CallsReturnWithoutCallbacks` shows the
  same wait of the application thread.
* Reordering of stores, which the C standard allows the compiler here.
