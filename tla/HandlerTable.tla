---------------------------- MODULE HandlerTable ----------------------------
(***************************************************************************)
(* The table of action handlers (VeidesActionHandlers), which the          *)
(* application thread extends with setActionHandler and                    *)
(* setAnyActionHandler while the Paho thread looks names up in it for each *)
(* action message.  No lock protects it.  The method table is the same     *)
(* code with other types.                                                  *)
(*                                                                         *)
(* A step is one access to memory the other thread uses: the array pointer *)
(* entries, the array it points to, count and anyActionId.  Stores become  *)
(* visible in program order, as on the x86-64 targets of the build.        *)
(***************************************************************************)
EXTENDS Integers, Sequences

CONSTANTS
    Names,          \* names of actions
    NoName,         \* the NULL name of the handler for any action
    Callbacks,      \* callbacks the application registers
    MaxSets,        \* bound: registrations
    MaxDispatches   \* bound: action messages

ASSUME NoNameIsNoName == NoName \notin Names
ASSUME CallbacksExist == Callbacks # {}
ASSUME BoundsAreNats  == MaxSets \in Nat /\ MaxDispatches \in Nat

VARIABLES
    entries,    \* handlers->entries: the block it points to, 0 for NULL
    freed,      \* blocks realloc has given back
    slots,      \* the array: the handlers stored, in order
    count,      \* handlers->count
    anyId,      \* handlers->anyActionId
    wpc,        \* the application thread inside veides_add_actionHandler
    tmp,        \* the block realloc returned to it
    new,        \* the handler it adds
    sets,       \* registrations made
    rpc,        \* the Paho thread inside veides_client_actionMessageReceived
    name,       \* the action name of its message
    index,      \* the index it looks at
    block,      \* the value of entries it loaded
    result,     \* what became of the message
    dispatches, \* messages received
    moved       \* history: the array was moved during the dispatch

tableVars  == <<entries, freed, slots, count, anyId>>
writerVars == <<wpc, tmp, new, sets>>
readerVars == <<rpc, name, index, block, result, dispatches>>
vars == <<tableVars, writerVars, readerVars, moved>>

Handlers == [name : Names \cup {NoName}, callback : Callbacks]
Handler(n, cb) == [name |-> n, callback |-> cb]

NoResult == [kind |-> "none", handler |-> NoName, callback |-> NoName]

Init ==
    /\ entries = 0 /\ freed = {} /\ slots = <<>> /\ count = 0 /\ anyId = -1
    /\ wpc = "idle" /\ tmp = 0 /\ sets = 0
    /\ new = CHOOSE h \in Handlers : TRUE
    /\ rpc = "idle" /\ index = 0 /\ block = 0 /\ dispatches = 0
    /\ name = NoName
    /\ result = NoResult
    /\ moved = FALSE

-----------------------------------------------------------------------------
(* The application thread                                                  *)

BeginSet ==
    /\ wpc = "idle"
    /\ rpc # "fault"
    /\ sets < MaxSets
    /\ sets' = sets + 1

\* Mutant: the loop stops one handler short.
FoundButLast(n, i) == i \in 0..count - 2 /\ slots[i + 1].name = n

\* An index the code finds for n: by comparing names, or by anyActionId.
Found(n, i) ==
    IF n = NoName THEN anyId = i /\ anyId # -1
                  ELSE i \in 0..count - 1 /\ slots[i + 1].name = n

\* The handler exists: one store replaces its callback.
UpdateHandler(n, cb) ==
    /\ BeginSet
    /\ \E i \in 0..count - 1 :
          /\ Found(n, i)
          /\ slots' = [slots EXCEPT ![i + 1].callback = cb]
    /\ UNCHANGED <<entries, freed, count, anyId, wpc, tmp, new, readerVars, moved>>

\* realloc for one more slot: it extends the array where it is, or moves it
\* and frees the old block, or fails, and then nothing is registered.
Realloc(n, cb) ==
    /\ BeginSet
    /\ \A i \in 0..count - 1 : ~Found(n, i)
    /\ new' = Handler(n, cb)
    /\ \/ /\ entries # 0
          /\ wpc' = "slot"
          /\ tmp' = entries
          /\ UNCHANGED <<freed, moved>>
       \/ /\ wpc' = "publish"
          /\ tmp' = entries + 1
          /\ freed' = IF entries = 0 THEN freed ELSE freed \cup {entries}
          /\ moved' = TRUE
       \/ UNCHANGED <<wpc, tmp, freed, moved>>
    /\ UNCHANGED <<entries, slots, count, anyId, readerVars>>

\* Mutant: only the first block is stored.
StoreFirstEntries ==
    /\ wpc = "publish"
    /\ entries' = IF entries = 0 THEN tmp ELSE entries
    /\ wpc' = "slot"
    /\ UNCHANGED <<freed, slots, count, anyId, tmp, new, sets, readerVars, moved>>

StoreEntries ==
    /\ wpc = "publish"
    /\ entries' = tmp
    /\ wpc' = "slot"
    /\ UNCHANGED <<freed, slots, count, anyId, tmp, new, sets, readerVars, moved>>

\* Mutant: name and callback are swapped.
StoreSlotSwapped ==
    /\ wpc = "slot"
    /\ slots' = Append(slots, [name |-> new.callback, callback |-> new.name])
    /\ wpc' = IF new.name = NoName THEN "any" ELSE "count"
    /\ UNCHANGED <<entries, freed, count, anyId, tmp, new, sets, readerVars, moved>>

StoreSlot ==
    /\ wpc = "slot"
    /\ slots' = Append(slots, new)
    /\ wpc' = IF new.name = NoName THEN "any" ELSE "count"
    /\ UNCHANGED <<entries, freed, count, anyId, tmp, new, sets, readerVars, moved>>

\* From here on a lookup for any action finds the handler.
StoreAnyId ==
    /\ wpc = "any"
    /\ anyId' = count
    /\ wpc' = "count"
    /\ UNCHANGED <<entries, freed, slots, count, tmp, new, sets, readerVars, moved>>

StoreCount ==
    /\ wpc = "count"
    /\ count' = count + 1
    /\ wpc' = "idle"
    /\ UNCHANGED <<entries, freed, slots, anyId, tmp, new, sets, readerVars, moved>>

Add == rpc # "fault" /\ (StoreEntries \/ StoreSlot \/ StoreAnyId \/ StoreCount)

-----------------------------------------------------------------------------
(* The Paho thread                                                         *)

\* Mutant: the handler for any action is asked first.
DispatchAnyFirst(n) ==
    /\ rpc = "idle"
    /\ dispatches < MaxDispatches
    /\ dispatches' = dispatches + 1
    /\ rpc' = "any"
    /\ name' = n
    /\ index' = 0
    /\ result' = NoResult
    /\ moved' = (wpc = "publish")
    /\ UNCHANGED <<tableVars, writerVars, block>>

\* A message for action n: veides_client_getActionHandler begins its loop.
Dispatch(n) ==
    /\ rpc = "idle"
    /\ dispatches < MaxDispatches
    /\ dispatches' = dispatches + 1
    /\ rpc' = "test"
    /\ name' = n
    /\ index' = 0
    /\ result' = NoResult
    /\ moved' = (wpc = "publish")
    /\ UNCHANGED <<tableVars, writerVars, block>>

\* Mutant: i <= handlers->count.
TestCountOffByOne ==
    /\ rpc = "test"
    /\ IF index <= count THEN rpc' = "load" /\ block' = entries
                         ELSE rpc' = "any" /\ UNCHANGED block
    /\ UNCHANGED <<tableVars, writerVars, name, index, result, dispatches, moved>>

\* Loop test, and the load of the array pointer for the next element.
TestCount ==
    /\ rpc = "test"
    /\ IF index < count THEN rpc' = "load" /\ block' = entries
                        ELSE rpc' = "any" /\ UNCHANGED block
    /\ UNCHANGED <<tableVars, writerVars, name, index, result, dispatches, moved>>

\* Mutant: the loop does not advance.
LoadEntryStuck ==
    /\ rpc = "load"
    /\ rpc' = IF block \in freed THEN "fault"
              ELSE IF slots[index + 1].name = name THEN "call" ELSE "test"
    /\ UNCHANGED <<tableVars, writerVars, name, index, block, result, dispatches, moved>>

\* The element is loaded through the pointer loaded before.
LoadEntry ==
    /\ rpc = "load"
    /\ IF block \in freed
       THEN rpc' = "fault" /\ UNCHANGED index
       ELSE IF slots[index + 1].name = name
            THEN rpc' = "call" /\ UNCHANGED index
            ELSE rpc' = "test" /\ index' = index + 1
    /\ UNCHANGED <<tableVars, writerVars, name, block, result, dispatches, moved>>

\* veides_client_getAnyActionHandler.
TestAny ==
    /\ rpc = "any"
    /\ IF anyId # -1
       THEN /\ rpc' = "load_any" /\ index' = anyId /\ block' = entries
            /\ UNCHANGED result
       ELSE /\ rpc' = "idle"
            /\ result' = [NoResult EXCEPT !.kind = "dropped"]
            /\ UNCHANGED <<index, block>>
    /\ UNCHANGED <<tableVars, writerVars, name, dispatches, moved>>

LoadAny ==
    /\ rpc = "load_any"
    /\ rpc' = IF block \in freed THEN "fault" ELSE "call"
    /\ UNCHANGED <<tableVars, writerVars, name, index, block, result, dispatches, moved>>

\* The callback is read from the handler found and run.
Call ==
    /\ rpc = "call"
    /\ rpc' = "idle"
    /\ result' = [kind |-> "called", handler |-> slots[index + 1].name,
                  callback |-> slots[index + 1].callback]
    /\ UNCHANGED <<tableVars, writerVars, name, index, block, dispatches, moved>>

-----------------------------------------------------------------------------

Receive == TestCount \/ LoadEntry \/ TestAny \/ LoadAny \/ Call

Next ==
    \/ \E n \in Names \cup {NoName}, cb \in Callbacks :
          UpdateHandler(n, cb) \/ Realloc(n, cb)
    \/ Add
    \/ \E n \in Names : Dispatch(n)
    \/ Receive

Spec == Init /\ [][Next]_vars

\* Both threads run; messages and registrations come or do not.
FairSpec == Spec /\ WF_vars(Add) /\ WF_vars(Receive)

-----------------------------------------------------------------------------
(* Properties                                                              *)

TypeOK ==
    /\ entries \in Nat /\ freed \subseteq Nat /\ tmp \in Nat /\ block \in Nat
    /\ slots \in Seq(Handlers)
    /\ count \in Nat /\ anyId \in Nat \cup {-1} /\ index \in Nat
    /\ wpc \in {"idle", "publish", "slot", "any", "count"}
    /\ new \in Handlers
    /\ rpc \in {"idle", "test", "load", "any", "load_any", "call", "fault"}
    /\ name \in Names \cup {NoName}
    /\ sets \in Nat /\ dispatches \in Nat
    /\ moved \in BOOLEAN

\* Whatever index the reader is about to load has been written, although the
\* writer stores count, anyActionId and the slot one by one.
ReadsWrittenSlot == rpc \in {"load", "load_any", "call"} => index < Len(slots)

\* Without lock or check, only a registration that moves the array while a
\* message is looked up makes the lookup touch freed memory.
FaultsOnlyIfMoved == rpc = "fault" => moved

\* However the threads interleave, a name has one handler and so has any
\* action.
OneHandlerPerName ==
    \A i, j \in DOMAIN slots : slots[i].name = slots[j].name => i = j

\* A lookup ends although the table grows under it.
DispatchEnds == (rpc = "test") ~> (rpc \in {"idle", "fault"})

-----------------------------------------------------------------------------
(* The table as its users see it                                           *)

\* Positions a lookup that starts now can find, and the handlers there.
Visible == 1..count \cup (IF anyId = -1 THEN {} ELSE {anyId + 1})

\* The names registered, each with its callback.
Table ==
    [n \in {slots[i].name : i \in Visible} |->
        slots[CHOOSE i \in Visible : slots[i].name = n].callback]

\* A dispatch looks for its name until it has passed the last handler.
Phase ==
    CASE rpc = "idle"              -> "idle"
      [] rpc = "fault"             -> "crashed"
      [] rpc \in {"test", "load"}  -> "named"
      [] rpc \in {"any", "load_any"} -> "any"
      [] OTHER -> IF slots[index + 1].name = name THEN "named" ELSE "any"

Abstract == INSTANCE Routing WITH
    table <- Table, phase <- Phase, msg <- name, outcome <- result

\* The table with its array, its count, its index for any name and its two
\* threads behaves like one that registers and looks up in single steps: what
\* a user of veides_client_setActionHandler and veides_client_getActionHandler
\* may rely on between crashes.
ImplementsRouting == Abstract!Spec
=============================================================================
