------------------------- MODULE HandlerTableProofs -------------------------
(***************************************************************************)
(* Proofs about HandlerTable, for any names and callbacks, and any number  *)
(* of registrations and messages: what the Paho thread reads, what makes   *)
(* it fault, and that the table implements Routing.                        *)
(***************************************************************************)
EXTENDS HandlerTable, TLAPS

(***************************************************************************)
(* The inductive invariant                                                 *)
(***************************************************************************)

\* The stores of a registration, in the order they are made.
WriterInv ==
    /\ Len(slots) = count + (IF wpc \in {"any", "count"} THEN 1 ELSE 0)
    /\ wpc \in {"publish", "slot"} => \A i \in 1..Len(slots) : slots[i].name # new.name
    /\ wpc \in {"any", "count"} => slots[count + 1] = new
    /\ wpc = "any" => new.name = NoName /\ anyId = -1
    /\ \A i, j \in 1..Len(slots) : slots[i].name = slots[j].name => i = j

\* anyActionId is the index of the handler for any name, once it is stored.
AnyInv ==
    /\ anyId # -1 => anyId \in 0..Len(slots) - 1 /\ slots[anyId + 1].name = NoName
    /\ \A i \in 1..Len(slots) :
          slots[i].name = NoName => i = anyId + 1 \/ (wpc = "any" /\ i = count + 1)

\* What the reader has passed, and what it has found.
ReaderInv ==
    /\ rpc \in {"test", "load", "any", "load_any", "call"} => name \in Names
    /\ rpc \in {"test", "load"} =>
          index <= count /\ \A i \in 1..index : slots[i].name # name
    /\ rpc = "load" => index < count
    /\ rpc = "load_any" => index = anyId /\ anyId # -1
    /\ rpc = "call" => \/ index < count /\ slots[index + 1].name = name
                       \/ index = anyId /\ anyId # -1

\* The array pointer is to freed memory only between realloc and the store.
MemoryInv ==
    /\ \A b \in freed : 0 < b /\ b <= entries /\ (b = entries => wpc = "publish")
    /\ wpc = "publish" => moved /\ tmp = entries + 1
    /\ rpc \in {"load", "load_any"} /\ block \in freed => moved
    /\ rpc = "fault" => moved

Inv == TypeOK /\ WriterInv /\ AnyInv /\ ReaderInv /\ MemoryInv

LEMMA InitInv == Init => Inv
<1>. SUFFICES ASSUME Init PROVE Inv
  OBVIOUS
<1>1. new \in Handlers
  <2>1. PICK cb \in Callbacks : TRUE
    BY CallbacksExist
  <2>2. Handler(NoName, cb) \in Handlers
    BY <2>1 DEF Handler, Handlers
  <2>. QED
    BY <2>2 DEF Init
<1>2. TypeOK
  <2>1. slots \in Seq(Handlers)
    BY DEF Init
  <2>2. /\ entries = 0 /\ freed = {} /\ tmp = 0 /\ block = 0 /\ count = 0 /\ anyId = -1
        /\ index = 0 /\ wpc = "idle" /\ rpc = "idle" /\ name = NoName /\ sets = 0
        /\ dispatches = 0 /\ moved = FALSE
    BY DEF Init
  <2>. QED
    BY <1>1, <2>1, <2>2 DEF TypeOK
<1>3. /\ slots = <<>> /\ Len(slots) = 0 /\ count = 0 /\ anyId = -1 /\ wpc = "idle"
      /\ rpc = "idle" /\ freed = {}
  BY DEF Init
<1>4. WriterInv /\ AnyInv
  BY <1>3 DEF WriterInv, AnyInv
<1>5. ReaderInv /\ MemoryInv
  BY <1>3 DEF ReaderInv, MemoryInv
<1>. QED
  BY <1>2, <1>4, <1>5 DEF Inv

-----------------------------------------------------------------------------
(* Registration                                                            *)

\* What is there of a handler, whether it was found by name or by index.
LEMMA FoundSlot ==
    ASSUME Inv, wpc = "idle", NEW n, NEW i \in 0..count - 1, Found(n, i)
    PROVE  i + 1 \in 1..Len(slots) /\ slots[i + 1].name = n
BY DEF Inv, TypeOK, WriterInv, AnyInv, Found

\* A name that is not found is in no slot.
LEMMA NotFoundSlot ==
    ASSUME Inv, wpc = "idle", NEW n, \A i \in 0..count - 1 : ~Found(n, i)
    PROVE  \A i \in 1..Len(slots) : slots[i].name # n
<1>. SUFFICES ASSUME NEW i \in 1..Len(slots), slots[i].name = n PROVE FALSE
  OBVIOUS
<1>1. Len(slots) = count /\ count \in Nat
  BY DEF Inv, TypeOK, WriterInv
<1>2. i - 1 \in 0..count - 1
  BY <1>1
<1>3. ~Found(n, i - 1)
  BY <1>2
<1>4. CASE n = NoName
  <2>1. i = anyId + 1
    BY <1>4 DEF Inv, AnyInv
  <2>. QED
    BY <1>2, <1>3, <1>4, <2>1 DEF Found, Inv, TypeOK
<1>5. CASE n # NoName
  BY <1>1, <1>3, <1>5 DEF Found
<1>. QED
  BY <1>4, <1>5

\* The slots after an update: the same names.
LEMMA UpdatedSlots ==
    ASSUME Inv, NEW n \in Names \cup {NoName}, NEW cb \in Callbacks, UpdateHandler(n, cb)
    PROVE  /\ wpc = "idle" /\ wpc' = "idle" /\ rpc # "fault" /\ sets' = sets + 1
           /\ UNCHANGED <<entries, freed, count, anyId, tmp, new, readerVars, moved>>
           /\ slots' \in Seq(Handlers) /\ Len(slots') = Len(slots)
           /\ \A j \in 1..Len(slots) : slots'[j].name = slots[j].name
           /\ \E i \in 1..Len(slots) :
                 /\ i <= count /\ slots[i].name = n
                 /\ slots'[i].callback = cb
                 /\ \A j \in 1..Len(slots) : j # i => slots'[j] = slots[j]
<1>1. PICK i \in 0..count - 1 :
         Found(n, i) /\ slots' = [slots EXCEPT ![i + 1].callback = cb]
  BY DEF UpdateHandler
<1>2. wpc = "idle" /\ slots \in Seq(Handlers) /\ count \in Nat
  BY DEF Inv, TypeOK, UpdateHandler, BeginSet
<1>3. i + 1 \in 1..Len(slots) /\ slots[i + 1].name = n
  BY <1>1, <1>2, FoundSlot
<1>4. \A j \in 1..Len(slots) : slots[j] \in Handlers
  BY <1>2
<1>5. slots' = [slots EXCEPT ![i + 1] = [slots[i + 1] EXCEPT !.callback = cb]]
  BY <1>1
<1>6. /\ [slots[i + 1] EXCEPT !.callback = cb] \in Handlers
      /\ [slots[i + 1] EXCEPT !.callback = cb].name = slots[i + 1].name
      /\ [slots[i + 1] EXCEPT !.callback = cb].callback = cb
  BY <1>3, <1>4 DEF Handlers
<1>7. slots' \in Seq(Handlers) /\ Len(slots') = Len(slots)
  BY <1>2, <1>3, <1>5, <1>6
<1>8. /\ slots'[i + 1] = [slots[i + 1] EXCEPT !.callback = cb]
      /\ \A j \in 1..Len(slots) : j # i + 1 => slots'[j] = slots[j]
  BY <1>2, <1>3, <1>5
<1>9. \A j \in 1..Len(slots) : slots'[j].name = slots[j].name
  BY <1>6, <1>8
<1>10. i + 1 <= count
  BY <1>2
<1>. QED
  BY <1>2, <1>3, <1>6, <1>7, <1>8, <1>9, <1>10 DEF UpdateHandler, BeginSet

LEMMA UpdateKeeps ==
    ASSUME Inv, NEW n \in Names \cup {NoName}, NEW cb \in Callbacks, UpdateHandler(n, cb)
    PROVE  Inv'
<1>1. /\ wpc = "idle" /\ wpc' = "idle" /\ sets' = sets + 1
      /\ UNCHANGED <<entries, freed, count, anyId, tmp, new, moved>>
      /\ UNCHANGED <<rpc, name, index, block, result, dispatches>>
      /\ slots' \in Seq(Handlers) /\ Len(slots') = Len(slots)
      /\ \A j \in 1..Len(slots) : slots'[j].name = slots[j].name
  BY UpdatedSlots DEF readerVars
<1>2. TypeOK'
  BY <1>1 DEF Inv, TypeOK
<1>3. WriterInv' /\ AnyInv' /\ MemoryInv'
  BY <1>1 DEF Inv, TypeOK, WriterInv, AnyInv, MemoryInv
<1>4. ReaderInv'
  BY <1>1 DEF Inv, TypeOK, WriterInv, AnyInv, ReaderInv
<1>. QED
  BY <1>2, <1>3, <1>4 DEF Inv

LEMMA ReallocKeeps ==
    ASSUME Inv, NEW n \in Names \cup {NoName}, NEW cb \in Callbacks, Realloc(n, cb)
    PROVE  Inv'
<1>1. /\ wpc = "idle" /\ sets' = sets + 1 /\ new' = Handler(n, cb)
      /\ UNCHANGED <<entries, slots, count, anyId>>
      /\ UNCHANGED <<rpc, name, index, block, result, dispatches>>
  BY DEF Realloc, BeginSet, readerVars
<1>2. new' \in Handlers /\ new'.name = n
  BY <1>1 DEF Handler, Handlers
<1>3. \A i \in 1..Len(slots) : slots[i].name # n
  BY <1>1, NotFoundSlot DEF Realloc
<1>4. wpc' \in {"idle", "slot", "publish"}
  BY <1>1 DEF Realloc
<1>5. \/ UNCHANGED <<freed, moved>> /\ wpc' # "publish" /\ tmp' \in {tmp, entries}
      \/ /\ wpc' = "publish" /\ tmp' = entries + 1 /\ moved' = TRUE
         /\ freed' = IF entries = 0 THEN freed ELSE freed \cup {entries}
  BY <1>1 DEF Realloc
<1>6. TypeOK'
  <2>1. entries \in Nat /\ freed \subseteq Nat /\ tmp \in Nat /\ moved \in BOOLEAN
    BY DEF Inv, TypeOK
  <2>2. moved' \in BOOLEAN
    BY <1>5, <2>1
  <2>3. tmp' \in Nat
    BY <1>5, <2>1
  <2>4. freed' \subseteq Nat
    BY <1>5, <2>1
  <2>. QED
    BY <1>1, <1>2, <1>4, <2>2, <2>3, <2>4 DEF Inv, TypeOK
<1>7. WriterInv' /\ AnyInv'
  BY <1>1, <1>2, <1>3, <1>4 DEF Inv, WriterInv, AnyInv
<1>8. ReaderInv'
  BY <1>1 DEF Inv, ReaderInv
<1>9. MemoryInv'
  <2>1. CASE UNCHANGED <<freed, moved>> /\ wpc' # "publish"
    BY <1>1, <2>1 DEF Inv, MemoryInv
  <2>2. CASE /\ wpc' = "publish" /\ tmp' = entries + 1 /\ moved' = TRUE
             /\ freed' = IF entries = 0 THEN freed ELSE freed \cup {entries}
    BY <1>1, <2>2 DEF Inv, TypeOK, MemoryInv
  <2>. QED
    BY <1>5, <2>1, <2>2
<1>. QED
  BY <1>6, <1>7, <1>8, <1>9 DEF Inv

LEMMA StoreEntriesKeeps == Inv /\ StoreEntries => Inv'
<1>. SUFFICES ASSUME Inv, StoreEntries PROVE Inv'
  OBVIOUS
<1>1. /\ wpc = "publish" /\ wpc' = "slot" /\ entries' = tmp
      /\ UNCHANGED <<freed, slots, count, anyId, tmp, new, sets, moved>>
      /\ UNCHANGED <<rpc, name, index, block, result, dispatches>>
  BY DEF StoreEntries, readerVars
<1>2. TypeOK' /\ WriterInv' /\ AnyInv' /\ ReaderInv'
  BY <1>1 DEF Inv, TypeOK, WriterInv, AnyInv, ReaderInv
<1>3. MemoryInv'
  BY <1>1 DEF Inv, TypeOK, MemoryInv
<1>. QED
  BY <1>2, <1>3 DEF Inv

\* The slots after a store: one more.
LEMMA StoredSlot ==
    ASSUME Inv, StoreSlot
    PROVE  /\ slots' \in Seq(Handlers) /\ Len(slots') = Len(slots) + 1
           /\ Len(slots) = count /\ slots'[count + 1] = new
           /\ \A j \in 1..Len(slots) : slots'[j] = slots[j]
BY DEF Inv, TypeOK, WriterInv, StoreSlot

LEMMA StoreSlotKeeps == Inv /\ StoreSlot => Inv'
<1>. SUFFICES ASSUME Inv, StoreSlot PROVE Inv'
  OBVIOUS
<1>1. /\ wpc = "slot" /\ wpc' = (IF new.name = NoName THEN "any" ELSE "count")
      /\ UNCHANGED <<entries, freed, count, anyId, tmp, new, sets, moved>>
      /\ UNCHANGED <<rpc, name, index, block, result, dispatches>>
  BY DEF StoreSlot, readerVars
<1>2. /\ slots' \in Seq(Handlers) /\ Len(slots') = count + 1 /\ Len(slots) = count
      /\ slots'[count + 1] = new /\ count \in Nat
      /\ \A j \in 1..count : slots'[j] = slots[j]
  BY StoredSlot DEF Inv, TypeOK
<1>3. TypeOK'
  BY <1>1, <1>2 DEF Inv, TypeOK
<1>4. new.name = NoName => anyId = -1
  BY <1>1, <1>2 DEF Inv, TypeOK, WriterInv, AnyInv
<1>5. WriterInv'
  BY <1>1, <1>2, <1>4 DEF Inv, WriterInv
<1>6. AnyInv'
  BY <1>1, <1>2, <1>4 DEF Inv, TypeOK, WriterInv, AnyInv
<1>7. ReaderInv'
  BY <1>1, <1>2 DEF Inv, TypeOK, ReaderInv, AnyInv
<1>8. MemoryInv'
  BY <1>1 DEF Inv, MemoryInv
<1>. QED
  BY <1>3, <1>5, <1>6, <1>7, <1>8 DEF Inv

LEMMA StoreAnyIdKeeps == Inv /\ StoreAnyId => Inv'
<1>. SUFFICES ASSUME Inv, StoreAnyId PROVE Inv'
  OBVIOUS
<1>1. /\ wpc = "any" /\ wpc' = "count" /\ anyId' = count
      /\ UNCHANGED <<entries, freed, slots, count, tmp, new, sets, moved>>
      /\ UNCHANGED <<rpc, name, index, block, result, dispatches>>
  BY DEF StoreAnyId, readerVars
<1>2. count \in Nat /\ anyId = -1 /\ Len(slots) = count + 1
      /\ slots[count + 1] = new /\ new.name = NoName
  BY <1>1 DEF Inv, TypeOK, WriterInv
<1>3. TypeOK' /\ WriterInv' /\ MemoryInv'
  BY <1>1 DEF Inv, TypeOK, WriterInv, MemoryInv
<1>4. AnyInv'
  BY <1>1, <1>2 DEF Inv, AnyInv
<1>5. ReaderInv'
  BY <1>1, <1>2 DEF Inv, ReaderInv
<1>. QED
  BY <1>3, <1>4, <1>5 DEF Inv

LEMMA StoreCountKeeps == Inv /\ StoreCount => Inv'
<1>. SUFFICES ASSUME Inv, StoreCount PROVE Inv'
  OBVIOUS
<1>1. /\ wpc = "count" /\ wpc' = "idle" /\ count' = count + 1 /\ count \in Nat
      /\ UNCHANGED <<entries, freed, slots, anyId, tmp, new, sets, moved>>
      /\ UNCHANGED <<rpc, name, index, block, result, dispatches>>
  BY DEF StoreCount, readerVars, Inv, TypeOK
<1>2. TypeOK' /\ WriterInv' /\ AnyInv' /\ MemoryInv'
  BY <1>1 DEF Inv, TypeOK, WriterInv, AnyInv, MemoryInv
<1>3. ReaderInv'
  BY <1>1 DEF Inv, TypeOK, ReaderInv
<1>. QED
  BY <1>2, <1>3 DEF Inv

-----------------------------------------------------------------------------
(* Lookup                                                                  *)

\* A step of the reader leaves the table and the writer alone.
LEMMA ReaderStepKeeps ==
    ASSUME Inv, UNCHANGED <<tableVars, writerVars>>,
           rpc' \in {"idle", "test", "load", "any", "load_any", "call", "fault"},
           name' \in Names \cup {NoName}, index' \in Nat, block' \in Nat,
           dispatches' \in Nat, moved' \in BOOLEAN, ReaderInv', MemoryInv'
    PROVE  Inv'
<1>1. UNCHANGED <<entries, freed, slots, count, anyId, wpc, tmp, new, sets>>
  BY DEF tableVars, writerVars
<1>2. TypeOK'
  BY <1>1 DEF Inv, TypeOK
<1>3. WriterInv' /\ AnyInv'
  BY <1>1 DEF Inv, WriterInv, AnyInv
<1>. QED
  BY <1>2, <1>3 DEF Inv

LEMMA DispatchKeeps ==
    ASSUME Inv, NEW n \in Names, Dispatch(n)
    PROVE  Inv'
<1>1. UNCHANGED <<entries, freed, slots, count, anyId, wpc, tmp, new, sets, block>>
  BY DEF Dispatch, tableVars, writerVars
<1>2. ReaderInv' /\ MemoryInv'
  BY <1>1 DEF Inv, TypeOK, Dispatch, ReaderInv, MemoryInv
<1>. QED
  BY <1>1, <1>2, ReaderStepKeeps DEF Dispatch, Inv, TypeOK

LEMMA TestCountKeeps == Inv /\ TestCount => Inv'
<1>. SUFFICES ASSUME Inv, TestCount PROVE Inv'
  OBVIOUS
<1>1. UNCHANGED <<entries, freed, slots, count, anyId, wpc, tmp, new, sets>>
  BY DEF TestCount, tableVars, writerVars
<1>2. /\ rpc = "test" /\ UNCHANGED <<name, index, dispatches, moved>>
      /\ \/ index < count /\ rpc' = "load" /\ block' = entries
         \/ rpc' = "any" /\ UNCHANGED block
  BY DEF TestCount
<1>3. ReaderInv' /\ MemoryInv'
  BY <1>1, <1>2 DEF Inv, TypeOK, ReaderInv, MemoryInv
<1>. QED
  BY <1>2, <1>3, ReaderStepKeeps DEF TestCount, Inv, TypeOK

LEMMA LoadEntryKeeps == Inv /\ LoadEntry => Inv'
<1>. SUFFICES ASSUME Inv, LoadEntry PROVE Inv'
  OBVIOUS
<1>1. UNCHANGED <<entries, freed, slots, count, anyId, wpc, tmp, new, sets>>
  BY DEF LoadEntry, tableVars, writerVars
<1>2. /\ rpc = "load" /\ UNCHANGED <<name, block, dispatches, moved>>
      /\ \/ block \in freed /\ rpc' = "fault" /\ UNCHANGED index
         \/ slots[index + 1].name = name /\ rpc' = "call" /\ UNCHANGED index
         \/ slots[index + 1].name # name /\ rpc' = "test" /\ index' = index + 1
  BY DEF LoadEntry
<1>3. ReaderInv' /\ MemoryInv'
  BY <1>1, <1>2 DEF Inv, TypeOK, ReaderInv, MemoryInv
<1>. QED
  BY <1>2, <1>3, ReaderStepKeeps DEF LoadEntry, Inv, TypeOK

LEMMA TestAnyKeeps == Inv /\ TestAny => Inv'
<1>. SUFFICES ASSUME Inv, TestAny PROVE Inv'
  OBVIOUS
<1>1. UNCHANGED <<entries, freed, slots, count, anyId, wpc, tmp, new, sets>>
  BY DEF TestAny, tableVars, writerVars
<1>2. /\ rpc = "any" /\ UNCHANGED <<name, dispatches, moved>>
      /\ \/ anyId # -1 /\ rpc' = "load_any" /\ index' = anyId /\ block' = entries
         \/ rpc' = "idle" /\ UNCHANGED <<index, block>>
  BY DEF TestAny
<1>3. ReaderInv' /\ MemoryInv'
  BY <1>1, <1>2 DEF Inv, TypeOK, ReaderInv, MemoryInv
<1>. QED
  BY <1>2, <1>3, ReaderStepKeeps DEF TestAny, Inv, TypeOK

LEMMA LoadAnyKeeps == Inv /\ LoadAny => Inv'
<1>. SUFFICES ASSUME Inv, LoadAny PROVE Inv'
  OBVIOUS
<1>1. UNCHANGED <<entries, freed, slots, count, anyId, wpc, tmp, new, sets>>
  BY DEF LoadAny, tableVars, writerVars
<1>2. /\ rpc = "load_any" /\ UNCHANGED <<name, index, block, dispatches, moved>>
      /\ rpc' = (IF block \in freed THEN "fault" ELSE "call")
  BY DEF LoadAny
<1>3. ReaderInv' /\ MemoryInv'
  BY <1>1, <1>2 DEF Inv, TypeOK, ReaderInv, MemoryInv
<1>. QED
  BY <1>2, <1>3, ReaderStepKeeps DEF LoadAny, Inv, TypeOK

LEMMA CallKeeps == Inv /\ Call => Inv'
<1>. SUFFICES ASSUME Inv, Call PROVE Inv'
  OBVIOUS
<1>1. UNCHANGED <<entries, freed, slots, count, anyId, wpc, tmp, new, sets>>
  BY DEF Call, tableVars, writerVars
<1>2. rpc' = "idle" /\ UNCHANGED <<name, index, block, dispatches, moved>>
  BY DEF Call
<1>3. ReaderInv' /\ MemoryInv'
  BY <1>1, <1>2 DEF Inv, ReaderInv, MemoryInv
<1>. QED
  BY <1>2, <1>3, ReaderStepKeeps DEF Call, Inv, TypeOK

LEMMA StepInv == Inv /\ [Next]_vars => Inv'
<1>. SUFFICES ASSUME Inv, [Next]_vars PROVE Inv'
  OBVIOUS
<1>1. ASSUME NEW n \in Names \cup {NoName}, NEW cb \in Callbacks,
             UpdateHandler(n, cb) \/ Realloc(n, cb)
      PROVE  Inv'
  BY <1>1, UpdateKeeps, ReallocKeeps
<1>2. CASE Add
  BY <1>2, StoreEntriesKeeps, StoreSlotKeeps, StoreAnyIdKeeps, StoreCountKeeps DEF Add
<1>3. ASSUME NEW n \in Names, Dispatch(n) PROVE Inv'
  BY <1>3, DispatchKeeps
<1>4. CASE Receive
  BY <1>4, TestCountKeeps, LoadEntryKeeps, TestAnyKeeps, LoadAnyKeeps, CallKeeps
     DEF Receive
<1>5. CASE UNCHANGED vars
  BY <1>5 DEF vars, tableVars, writerVars, readerVars, Inv, TypeOK, WriterInv, AnyInv,
              ReaderInv, MemoryInv
<1>. QED
  BY <1>1, <1>2, <1>3, <1>4, <1>5 DEF Next

LEMMA Invariant == Spec => []Inv
BY InitInv, StepInv, PTL DEF Spec

-----------------------------------------------------------------------------
(* The safety theorems                                                     *)

\* Every variable of the table and its two threads keeps its type.
THEOREM TypeCorrect == Spec => []TypeOK
<1>1. Inv => TypeOK
  BY DEF Inv
<1>. QED
  BY <1>1, Invariant, PTL

\* The reader never loads an element that was not written, although count,
\* anyActionId and the slot are stored one by one without a lock.
THEOREM ReadsWritten == Spec => []ReadsWrittenSlot
<1>1. Inv => ReadsWrittenSlot
  BY DEF Inv, TypeOK, WriterInv, AnyInv, ReaderInv, ReadsWrittenSlot
<1>. QED
  BY <1>1, Invariant, PTL

\* A lookup faults only if realloc moved the array during it.
THEOREM FaultsOnlyMoved == Spec => []FaultsOnlyIfMoved
<1>1. Inv => FaultsOnlyIfMoved
  BY DEF Inv, MemoryInv, FaultsOnlyIfMoved
<1>. QED
  BY <1>1, Invariant, PTL

\* No name is ever in two slots, nor is the NULL name.
THEOREM OnePerName == Spec => []OneHandlerPerName
<1>1. Inv => OneHandlerPerName
  BY DEF Inv, TypeOK, WriterInv, OneHandlerPerName
<1>. QED
  BY <1>1, Invariant, PTL

-----------------------------------------------------------------------------
(* The refinement of Routing                                               *)

\* The table of names, by the slots a lookup can find.
TableIs ==
    /\ Visible \subseteq 1..Len(slots)
    /\ Table = [n \in DOMAIN Table |-> Table[n]]
    /\ DOMAIN Table = {slots[i].name : i \in Visible}
    /\ \A i \in Visible : Table[slots[i].name] = slots[i].callback

LEMMA TableOfSlots == Inv => TableIs
<1>. SUFFICES ASSUME Inv PROVE TableIs
  OBVIOUS
<1>1. Visible \subseteq 1..Len(slots)
  BY DEF Inv, TypeOK, WriterInv, AnyInv, Visible
<1>2. \A i \in Visible : (CHOOSE j \in Visible : slots[j].name = slots[i].name) = i
  BY <1>1 DEF Inv, WriterInv
<1>3. /\ Table = [n \in DOMAIN Table |-> Table[n]]
      /\ DOMAIN Table = {slots[i].name : i \in Visible}
  BY DEF Table
<1>4. \A i \in Visible : Table[slots[i].name] = slots[i].callback
  BY <1>2 DEF Table
<1>. QED
  BY <1>1, <1>3, <1>4 DEF TableIs

LEMMA TableOfSlotsNext == Inv' => TableIs'
BY TableOfSlots, PTL

LEMMA SameFunction ==
    ASSUME NEW f, NEW g, f = [x \in DOMAIN f |-> f[x]], g = [x \in DOMAIN g |-> g[x]],
           DOMAIN f = DOMAIN g, \A x \in DOMAIN f : f[x] = g[x]
    PROVE  f = g
OBVIOUS

\* The slots that can be found stay, and no other becomes visible.
LEMMA TableStays ==
    ASSUME TableIs, TableIs', Visible' = Visible,
           \A i \in Visible : slots'[i] = slots[i]
    PROVE  Table' = Table
<1>1. DOMAIN Table' = DOMAIN Table
  BY DEF TableIs
<1>2. \A n \in DOMAIN Table : Table'[n] = Table[n]
  BY DEF TableIs
<1>3. Table = [x \in DOMAIN Table |-> Table[x]] /\ Table' = [x \in DOMAIN Table' |-> Table'[x]]
  BY DEF TableIs
<1>. QED
  BY <1>1, <1>2, <1>3, SameFunction

\* One slot is new, or has a new callback, and the others stay.
LEMMA TableGains ==
    ASSUME TableIs, TableIs', NEW i \in Visible', Visible' = Visible \cup {i},
           \A j \in Visible : slots'[j].name = slots[j].name,
           \A j \in Visible \ {i} : slots'[j] = slots[j] /\ slots[j].name # slots'[i].name
    PROVE  Table' = [m \in DOMAIN Table \cup {slots'[i].name} |->
                        IF m = slots'[i].name THEN slots'[i].callback ELSE Table[m]]
<1>. DEFINE F == [m \in DOMAIN Table \cup {slots'[i].name} |->
                     IF m = slots'[i].name THEN slots'[i].callback ELSE Table[m]]
<1>1. DOMAIN Table' = DOMAIN F
  BY DEF TableIs
<1>2. ASSUME NEW n \in DOMAIN Table' PROVE Table'[n] = F[n]
  <2>1. PICK j \in Visible' : n = slots'[j].name /\ Table'[n] = slots'[j].callback
    BY <1>2 DEF TableIs
  <2>2. CASE j = i
    BY <2>1, <2>2
  <2>3. CASE j # i
    <3>1. slots'[j] = slots[j] /\ n # slots'[i].name /\ n = slots[j].name
      BY <2>1, <2>3
    <3>2. Table[n] = slots[j].callback
      BY <2>1, <2>3, <3>1 DEF TableIs
    <3>. QED
      BY <1>1, <1>2, <2>1, <3>1, <3>2
  <2>. QED
    BY <2>2, <2>3
<1>3. Table' = [x \in DOMAIN Table' |-> Table'[x]] /\ F = [x \in DOMAIN F |-> F[x]]
  BY DEF TableIs
<1>. HIDE DEF F
<1>4. Table' = F
  BY <1>1, <1>2, <1>3, SameFunction
<1>. QED
  BY <1>4 DEF F

\* What the lookup is doing, one part of the thread's code at a time.
PhaseIs ==
    /\ rpc = "idle" => Phase = "idle"
    /\ rpc = "fault" => Phase = "crashed"
    /\ rpc \in {"test", "load"} => Phase = "named"
    /\ rpc \in {"any", "load_any"} => Phase = "any"
    /\ rpc = "call" => Phase = IF slots[index + 1].name = name THEN "named" ELSE "any"

LEMMA Phases == PhaseIs
BY DEF Phase, PhaseIs

LEMMA PhasesNext == PhaseIs'
BY Phases, PTL

\* The application's stores do not disturb the lookup.
LEMMA PhaseStays ==
    ASSUME Inv, UNCHANGED readerVars,
           \A j \in 1..Len(slots) : slots'[j].name = slots[j].name
    PROVE  Phase' = Phase /\ name' = name /\ result' = result
<1>1. UNCHANGED <<rpc, name, index, result>>
  BY DEF readerVars
<1>2. PhaseIs /\ PhaseIs' /\ rpc \in {"idle", "test", "load", "any", "load_any", "call", "fault"}
  BY Phases, PhasesNext DEF Inv, TypeOK
<1>3. CASE rpc = "call"
  <2>1. index + 1 \in 1..Len(slots)
    BY <1>3 DEF Inv, TypeOK, WriterInv, AnyInv, ReaderInv
  <2>2. slots'[index' + 1].name = slots[index + 1].name
    BY <1>1, <2>1
  <2>. QED
    BY <1>1, <1>2, <1>3, <2>2 DEF PhaseIs
<1>4. CASE rpc # "call"
  BY <1>1, <1>2, <1>4 DEF PhaseIs
<1>. QED
  BY <1>3, <1>4

-----------------------------------------------------------------------------
(* Each step of the table is a step of Routing, or none                    *)

LEMMA InitRefines == Init => Abstract!Init
<1>. SUFFICES ASSUME Init PROVE Abstract!Init
  OBVIOUS
<1>1. Inv /\ TableIs
  BY InitInv, TableOfSlots
<1>2. Visible = {}
  BY DEF Init, Visible
<1>3. DOMAIN Table = {}
  BY <1>1, <1>2 DEF TableIs
<1>4. Table = [n \in {} |-> NoName]
  <2>. DEFINE E == [n \in {} |-> NoName]
  <2>1. DOMAIN E = {} /\ E = [x \in DOMAIN E |-> E[x]]
    OBVIOUS
  <2>2. Table = [x \in DOMAIN Table |-> Table[x]]
    BY <1>1 DEF TableIs
  <2>. HIDE DEF E
  <2>3. Table = E
    BY <1>3, <2>1, <2>2, SameFunction
  <2>. QED
    BY <2>3 DEF E
<1>5. Phase = "idle" /\ name = NoName /\ result = NoResult
  BY Phases DEF PhaseIs, Init
<1>. QED
  BY <1>4, <1>5 DEF Abstract!Init, Abstract!Pending, NoResult

LEMMA UpdateRefines ==
    ASSUME Inv, Inv', NEW n \in Names \cup {NoName}, NEW cb \in Callbacks,
           UpdateHandler(n, cb)
    PROVE  Abstract!Next
<1>1. TableIs /\ TableIs'
  BY TableOfSlots, TableOfSlotsNext
<1>2. PICK i \in 1..Len(slots) :
         /\ i <= count /\ slots[i].name = n /\ slots'[i].callback = cb
         /\ \A j \in 1..Len(slots) : j # i => slots'[j] = slots[j]
  BY UpdatedSlots
<1>3. /\ UNCHANGED <<count, anyId, readerVars>> /\ Len(slots') = Len(slots)
      /\ \A j \in 1..Len(slots) : slots'[j].name = slots[j].name
  BY UpdatedSlots
<1>4. Visible' = Visible /\ i \in Visible
  BY <1>2, <1>3 DEF Visible
<1>5. \A j \in Visible \ {i} : slots'[j] = slots[j] /\ slots[j].name # slots'[i].name
  BY <1>1, <1>2, <1>3 DEF TableIs, Inv, WriterInv
<1>6. Table' = [m \in DOMAIN Table \cup {slots'[i].name} |->
                   IF m = slots'[i].name THEN slots'[i].callback ELSE Table[m]]
  <2>1. Visible' = Visible \cup {i} /\ i \in Visible'
    BY <1>4
  <2>2. \A j \in Visible : slots'[j].name = slots[j].name
    BY <1>1, <1>3 DEF TableIs
  <2>. QED
    BY <1>1, <1>5, <2>1, <2>2, TableGains
<1>7. slots'[i].name = n /\ slots'[i].callback = cb
  BY <1>2, <1>3
<1>8. Phase' = Phase /\ name' = name /\ result' = result
  BY <1>3, PhaseStays
<1>9. Abstract!Register(n, cb)
  BY <1>6, <1>7, <1>8 DEF Abstract!Register
<1>. QED
  BY <1>9 DEF Abstract!Next

\* Nothing a lookup can see changes.
LEMMA UnseenRefines ==
    ASSUME Inv, Inv', UNCHANGED readerVars, Visible' = Visible,
           \A j \in 1..Len(slots) : slots'[j] = slots[j]
    PROVE  UNCHANGED Abstract!vars
<1>1. TableIs /\ TableIs'
  BY TableOfSlots, TableOfSlotsNext
<1>2. Table' = Table
  <2>1. \A i \in Visible : slots'[i] = slots[i]
    BY <1>1 DEF TableIs
  <2>. QED
    BY <1>1, <2>1, TableStays
<1>3. Phase' = Phase /\ name' = name /\ result' = result
  BY PhaseStays
<1>. QED
  BY <1>2, <1>3 DEF Abstract!vars

LEMMA ReallocRefines ==
    ASSUME Inv, Inv', NEW n \in Names \cup {NoName}, NEW cb \in Callbacks, Realloc(n, cb)
    PROVE  UNCHANGED Abstract!vars
BY UnseenRefines DEF Realloc, Visible

LEMMA StoreRefines ==
    ASSUME Inv, Inv', StoreEntries \/ StoreSlot
    PROVE  UNCHANGED Abstract!vars
<1>1. CASE StoreEntries
  BY <1>1, UnseenRefines DEF StoreEntries, Visible
<1>2. CASE StoreSlot
  <2>1. UNCHANGED readerVars /\ Visible' = Visible
    BY <1>2 DEF StoreSlot, Visible
  <2>2. \A j \in 1..Len(slots) : slots'[j] = slots[j]
    BY <1>2, StoredSlot
  <2>. QED
    BY <2>1, <2>2, UnseenRefines
<1>. QED
  BY <1>1, <1>2

\* The last slot becomes visible: the registration of new takes effect.
LEMMA AppearsRefines ==
    ASSUME Inv, Inv', UNCHANGED readerVars, UNCHANGED slots,
           count + 1 \notin Visible, Visible' = Visible \cup {count + 1},
           slots[count + 1] = new
    PROVE  Abstract!Next
<1>1. TableIs /\ TableIs'
  BY TableOfSlots, TableOfSlotsNext
<1>2. count + 1 \in 1..Len(slots)
  BY <1>1 DEF TableIs
<1>3. \A j \in Visible \ {count + 1} : slots[j].name # slots[count + 1].name
  BY <1>1, <1>2 DEF TableIs, Inv, WriterInv
<1>4. Table' = [m \in DOMAIN Table \cup {slots'[count + 1].name} |->
                   IF m = slots'[count + 1].name THEN slots'[count + 1].callback
                                                 ELSE Table[m]]
  <2>. DEFINE last == count + 1
  <2>1. last \in Visible' /\ Visible' = Visible \cup {last}
    OBVIOUS
  <2>2. \A j \in Visible : slots'[j].name = slots[j].name
    OBVIOUS
  <2>3. \A j \in Visible \ {last} : slots'[j] = slots[j] /\ slots[j].name # slots'[last].name
    BY <1>3
  <2>. HIDE DEF last
  <2>4. Table' = [m \in DOMAIN Table \cup {slots'[last].name} |->
                     IF m = slots'[last].name THEN slots'[last].callback ELSE Table[m]]
    BY <1>1, <2>1, <2>2, <2>3, TableGains
  <2>. QED
    BY <2>4 DEF last
<1>5. Phase' = Phase /\ name' = name /\ result' = result
  BY PhaseStays
<1>6. new.name \in Names \cup {NoName} /\ new.callback \in Callbacks
  BY DEF Inv, TypeOK, Handlers
<1>7. Abstract!Register(new.name, new.callback)
  BY <1>4, <1>5 DEF Abstract!Register
<1>. QED
  BY <1>6, <1>7 DEF Abstract!Next

LEMMA StoreAnyIdRefines == Inv /\ Inv' /\ StoreAnyId => Abstract!Next
<1>. SUFFICES ASSUME Inv, Inv', StoreAnyId PROVE Abstract!Next
  OBVIOUS
<1>1. /\ wpc = "any" /\ anyId' = count /\ UNCHANGED <<slots, count, readerVars>>
      /\ anyId = -1 /\ slots[count + 1] = new /\ count \in Nat
  BY DEF StoreAnyId, Inv, TypeOK, WriterInv
<1>2. count + 1 \notin Visible /\ Visible' = Visible \cup {count + 1}
  BY <1>1 DEF Visible
<1>. QED
  BY <1>1, <1>2, AppearsRefines

LEMMA StoreCountRefines == Inv /\ Inv' /\ StoreCount => [Abstract!Next]_Abstract!vars
<1>. SUFFICES ASSUME Inv, Inv', StoreCount PROVE [Abstract!Next]_Abstract!vars
  OBVIOUS
<1>1. /\ wpc = "count" /\ count' = count + 1 /\ UNCHANGED <<slots, anyId, readerVars>>
      /\ slots[count + 1] = new /\ count \in Nat /\ anyId \in Nat \cup {-1}
  BY DEF StoreCount, Inv, TypeOK, WriterInv
<1>2. CASE anyId = count
  <2>1. Visible' = Visible
    BY <1>1, <1>2 DEF Visible
  <2>. QED
    BY <1>1, <2>1, UnseenRefines
<1>3. CASE anyId # count
  <2>1. count + 1 \notin Visible /\ Visible' = Visible \cup {count + 1}
    BY <1>1, <1>3 DEF Visible
  <2>. QED
    BY <1>1, <2>1, AppearsRefines
<1>. QED
  BY <1>2, <1>3

\* The Paho thread leaves the table as it is.
LEMMA ReaderTable ==
    ASSUME Inv, Inv', UNCHANGED tableVars
    PROVE  Table' = Table
<1>1. UNCHANGED <<slots, count, anyId>>
  BY DEF tableVars
<1>2. Visible' = Visible
  BY <1>1 DEF Visible
<1>. QED
  BY <1>1, <1>2, TableOfSlots, TableOfSlotsNext, TableStays

LEMMA DispatchRefines ==
    ASSUME Inv, Inv', NEW n \in Names, Dispatch(n)
    PROVE  Abstract!Next
<1>1. Table' = Table
  BY ReaderTable DEF Dispatch
<1>2. /\ Phase = "idle" /\ Phase' = "named" /\ name' = n
      /\ result' = Abstract!Pending
  BY Phases, PhasesNext DEF PhaseIs, Dispatch, NoResult, Abstract!Pending
<1>3. Abstract!Receive(n)
  BY <1>1, <1>2 DEF Abstract!Receive
<1>. QED
  BY <1>3 DEF Abstract!Next

\* The end of the loop: the name is in no slot that can be found.
LEMMA TestCountRefines == Inv /\ Inv' /\ TestCount => [Abstract!Next]_Abstract!vars
<1>. SUFFICES ASSUME Inv, Inv', TestCount PROVE [Abstract!Next]_Abstract!vars
  OBVIOUS
<1>1. Table' = Table /\ Phase = "named" /\ name' = name /\ result' = result
  BY ReaderTable, Phases DEF PhaseIs, TestCount
<1>2. CASE index < count
  <2>1. Phase' = "named"
    BY <1>2, PhasesNext DEF PhaseIs, TestCount
  <2>. QED
    BY <1>1, <2>1 DEF Abstract!vars
<1>3. CASE ~(index < count)
  <2>1. Phase' = "any"
    BY <1>3, PhasesNext DEF PhaseIs, TestCount
  <2>2. index = count /\ count \in Nat /\ name \in Names /\ \A i \in 1..count : slots[i].name # name
    BY <1>3 DEF TestCount, Inv, TypeOK, ReaderInv
  <2>3. \A i \in Visible : slots[i].name # name
    BY <2>2, NoNameIsNoName DEF Visible, Inv, AnyInv
  <2>4. name \notin DOMAIN Table
    BY <2>3, TableOfSlots DEF TableIs
  <2>5. Abstract!Miss
    BY <1>1, <2>1, <2>4 DEF Abstract!Miss
  <2>. QED
    BY <2>5 DEF Abstract!Next
<1>. QED
  BY <1>2, <1>3

LEMMA LoadEntryRefines == Inv /\ Inv' /\ LoadEntry => [Abstract!Next]_Abstract!vars
<1>. SUFFICES ASSUME Inv, Inv', LoadEntry PROVE [Abstract!Next]_Abstract!vars
  OBVIOUS
<1>1. Table' = Table /\ Phase = "named" /\ name' = name /\ result' = result
  BY ReaderTable, Phases DEF PhaseIs, LoadEntry
<1>2. UNCHANGED slots
  BY DEF LoadEntry, tableVars
<1>3. CASE rpc' = "fault"
  <2>1. Phase' = "crashed"
    BY <1>3, PhasesNext DEF PhaseIs
  <2>2. Abstract!Crash
    BY <1>1, <2>1 DEF Abstract!Crash
  <2>. QED
    BY <2>2 DEF Abstract!Next
<1>4. CASE rpc' = "test" \/ (rpc' = "call" /\ slots[index + 1].name = name /\ index' = index)
  <2>1. Phase' = "named"
    BY <1>1, <1>2, <1>4, PhasesNext DEF PhaseIs
  <2>. QED
    BY <1>1, <2>1 DEF Abstract!vars
<1>. QED
  BY <1>3, <1>4 DEF LoadEntry

LEMMA TestAnyRefines == Inv /\ Inv' /\ TestAny => [Abstract!Next]_Abstract!vars
<1>. SUFFICES ASSUME Inv, Inv', TestAny PROVE [Abstract!Next]_Abstract!vars
  OBVIOUS
<1>1. Table' = Table /\ Phase = "any" /\ name' = name
  BY ReaderTable, Phases DEF PhaseIs, TestAny
<1>2. CASE anyId # -1
  <2>1. Phase' = "any" /\ result' = result
    BY <1>2, PhasesNext DEF PhaseIs, TestAny
  <2>. QED
    BY <1>1, <2>1 DEF Abstract!vars
<1>3. CASE anyId = -1
  <2>1. Phase' = "idle" /\ result' = Abstract!Dropped
    BY <1>3, PhasesNext DEF PhaseIs, TestAny, NoResult, Abstract!Dropped
  <2>2. count \in Nat /\ Visible = 1..count
    BY <1>3 DEF Visible, Inv, TypeOK
  <2>3. \A i \in Visible : slots[i].name # NoName
    BY <1>3, <2>2 DEF Inv, TypeOK, WriterInv, AnyInv
  <2>4. NoName \notin DOMAIN Table
    BY <2>3, TableOfSlots DEF TableIs
  <2>5. Abstract!Drop
    BY <1>1, <2>1, <2>4 DEF Abstract!Drop
  <2>. QED
    BY <2>5 DEF Abstract!Next
<1>. QED
  BY <1>2, <1>3

LEMMA LoadAnyRefines == Inv /\ Inv' /\ LoadAny => [Abstract!Next]_Abstract!vars
<1>. SUFFICES ASSUME Inv, Inv', LoadAny PROVE [Abstract!Next]_Abstract!vars
  OBVIOUS
<1>1. Table' = Table /\ Phase = "any" /\ name' = name /\ result' = result
  BY ReaderTable, Phases DEF PhaseIs, LoadAny
<1>2. CASE rpc' = "fault"
  <2>1. Phase' = "crashed"
    BY <1>2, PhasesNext DEF PhaseIs
  <2>2. Abstract!Crash
    BY <1>1, <2>1 DEF Abstract!Crash
  <2>. QED
    BY <2>2 DEF Abstract!Next
<1>3. CASE rpc' = "call"
  <2>1. slots' = slots /\ index' = index /\ index = anyId /\ anyId # -1 /\ name \in Names
    BY DEF LoadAny, tableVars, Inv, ReaderInv
  <2>2. slots'[index' + 1].name # name'
    BY <1>1, <2>1, NoNameIsNoName DEF Inv, AnyInv
  <2>3. Phase' = "any"
    BY <1>3, <2>2, PhasesNext DEF PhaseIs
  <2>. QED
    BY <1>1, <2>3 DEF Abstract!vars
<1>. QED
  BY <1>2, <1>3 DEF LoadAny

LEMMA CallRefines == Inv /\ Inv' /\ Call => Abstract!Next
<1>. SUFFICES ASSUME Inv, Inv', Call PROVE Abstract!Next
  OBVIOUS
<1>1. /\ Table' = Table /\ Phase' = "idle" /\ name' = name
      /\ Phase = IF slots[index + 1].name = name THEN "named" ELSE "any"
  BY ReaderTable, Phases, PhasesNext DEF PhaseIs, Call
<1>2. result' = Abstract!Called(slots[index + 1].name, slots[index + 1].callback)
  BY DEF Call, Abstract!Called
<1>3. index + 1 \in Visible
  BY DEF Call, Inv, TypeOK, ReaderInv, Visible
<1>4. /\ slots[index + 1].name \in DOMAIN Table
      /\ Table[slots[index + 1].name] = slots[index + 1].callback
  BY <1>3, TableOfSlots DEF TableIs
<1>5. CASE slots[index + 1].name = name
  <2>1. Abstract!RunNamed
    BY <1>1, <1>2, <1>4, <1>5 DEF Abstract!RunNamed
  <2>. QED
    BY <2>1 DEF Abstract!Next
<1>6. CASE slots[index + 1].name # name
  <2>1. slots[index + 1].name = NoName
    BY <1>6 DEF Call, Inv, ReaderInv, AnyInv
  <2>2. Abstract!RunAny
    BY <1>1, <1>2, <1>4, <1>6, <2>1 DEF Abstract!RunAny
  <2>. QED
    BY <2>2 DEF Abstract!Next
<1>. QED
  BY <1>5, <1>6

LEMMA StepRefines == Inv /\ Inv' /\ [Next]_vars => [Abstract!Next]_Abstract!vars
<1>. SUFFICES ASSUME Inv, Inv', [Next]_vars PROVE [Abstract!Next]_Abstract!vars
  OBVIOUS
<1>1. ASSUME NEW n \in Names \cup {NoName}, NEW cb \in Callbacks,
             UpdateHandler(n, cb) \/ Realloc(n, cb)
      PROVE  [Abstract!Next]_Abstract!vars
  BY <1>1, UpdateRefines, ReallocRefines
<1>2. CASE Add
  BY <1>2, StoreRefines, StoreAnyIdRefines, StoreCountRefines DEF Add
<1>3. ASSUME NEW n \in Names, Dispatch(n) PROVE [Abstract!Next]_Abstract!vars
  BY <1>3, DispatchRefines
<1>4. CASE Receive
  BY <1>4, TestCountRefines, LoadEntryRefines, TestAnyRefines, LoadAnyRefines, CallRefines
     DEF Receive
<1>5. CASE UNCHANGED vars
  <2>1. UNCHANGED <<slots, count, anyId, readerVars>>
    BY <1>5 DEF vars, tableVars
  <2>2. Visible' = Visible
    BY <2>1 DEF Visible
  <2>. QED
    BY <2>1, <2>2, UnseenRefines
<1>. QED
  BY <1>1, <1>2, <1>3, <1>4, <1>5 DEF Next

\* The table, its array and its two threads implement Routing: what a user of
\* setActionHandler sees is a table whose registrations and lookups are single
\* steps, until a lookup faults.
THEOREM RefinesRouting == Spec => ImplementsRouting
<1>1. Init => Abstract!Init
  BY InitRefines
<1>2. Inv /\ Inv' /\ [Next]_vars => [Abstract!Next]_Abstract!vars
  BY StepRefines
<1>. QED
  BY <1>1, <1>2, Invariant, PTL DEF Spec, Abstract!Spec, ImplementsRouting

-----------------------------------------------------------------------------
(* The number of steps that a lookup takes.                                  *)

\* How far count may still get: the registration under way adds one handler,
\* each one to come at most one.
CountLimit == count + (IF wpc = "idle" THEN 0 ELSE 1) + (MaxSets - sets)

\* What is left of a lookup at each place.
LookupRank ==
    CASE rpc = "test"     -> 2 * (CountLimit - index) + 4
      [] rpc = "load"     -> 2 * (CountLimit - index) + 3
      [] rpc = "any"      -> 3
      [] rpc = "load_any" -> 2
      [] rpc = "call"     -> 1
      [] OTHER            -> 0

\* Each step of the Paho thread in a lookup lowers the rank, and no registration
\* of the application thread raises it, although each may move the end of the
\* table that the loop compares its index with anew at every turn.
LookupCountsDown ==
    /\ Receive => LookupRank' < LookupRank
    /\ (\A n \in Names : ~Dispatch(n)) => LookupRank' <= LookupRank

SetsCounted == sets \in 0..MaxSets

\* A step of the application thread uses up a registration, or makes one known.
LEMMA LimitFalls ==
    ASSUME Inv, SetsCounted,
           Add \/ \E n \in Names \cup {NoName}, cb \in Callbacks :
                     UpdateHandler(n, cb) \/ Realloc(n, cb)
    PROVE  SetsCounted' /\ CountLimit' <= CountLimit
<1>. USE BoundsAreNats DEF SetsCounted, CountLimit, Inv, TypeOK
<1>1. ASSUME NEW n \in Names \cup {NoName}, NEW cb \in Callbacks, UpdateHandler(n, cb)
      PROVE  SetsCounted' /\ CountLimit' <= CountLimit
  BY <1>1 DEF UpdateHandler, BeginSet
<1>2. ASSUME NEW n \in Names \cup {NoName}, NEW cb \in Callbacks, Realloc(n, cb)
      PROVE  SetsCounted' /\ CountLimit' <= CountLimit
  BY <1>2 DEF Realloc, BeginSet
<1>3. CASE StoreEntries
  BY <1>3 DEF StoreEntries
<1>4. CASE StoreSlot \/ StoreAnyId
  BY <1>4 DEF StoreSlot, StoreAnyId
<1>5. CASE StoreCount
  BY <1>5 DEF StoreCount
<1>. QED
  BY <1>1, <1>2, <1>3, <1>4, <1>5 DEF Add

\* The loop's index stays below that limit.
LEMMA RankIsNat ==
    ASSUME Inv, SetsCounted
    PROVE  /\ CountLimit \in Nat /\ index \in Nat
           /\ rpc \in {"test", "load"} => index <= CountLimit
           /\ rpc = "load" => index < CountLimit
           /\ LookupRank \in Nat
<1>1. /\ CountLimit \in Nat /\ index \in Nat
      /\ rpc \in {"test", "load"} => index <= CountLimit
      /\ rpc = "load" => index < CountLimit
  BY BoundsAreNats DEF Inv, TypeOK, ReaderInv, CountLimit, SetsCounted
<1>. QED
  BY <1>1 DEF LookupRank

LEMMA LookupStep ==
    ASSUME Inv, SetsCounted, Next
    PROVE  SetsCounted' /\ LookupCountsDown
<1>1. /\ CountLimit \in Nat /\ index \in Nat
      /\ rpc \in {"test", "load"} => index <= CountLimit
      /\ rpc = "load" => index < CountLimit
  BY RankIsNat
<1>2. LookupRank \in Nat
  BY RankIsNat
<1>3. CASE \/ \E n \in Names \cup {NoName}, cb \in Callbacks :
                 UpdateHandler(n, cb) \/ Realloc(n, cb)
           \/ Add
  <2>1. UNCHANGED readerVars
    BY <1>3 DEF UpdateHandler, Realloc, Add, StoreEntries, StoreSlot, StoreAnyId, StoreCount
  <2>2. SetsCounted' /\ CountLimit' <= CountLimit
    BY <1>3, LimitFalls
  <2>3. CountLimit' \in Int
    <3>1. count' \in Int /\ sets' \in Int
      BY <1>3, StepInv DEF Inv, TypeOK
    <3>. QED
      BY <3>1, BoundsAreNats DEF CountLimit
  <2>4. LookupRank' <= LookupRank
    BY <1>1, <2>1, <2>2, <2>3 DEF LookupRank, readerVars
  <2>5. ~Receive
    BY <2>1 DEF readerVars, Receive, TestCount, LoadEntry, TestAny, LoadAny, Call
  <2>. QED
    BY <2>2, <2>4, <2>5 DEF LookupCountsDown
<1>4. CASE \E n \in Names : Dispatch(n)
  <2>1. UNCHANGED writerVars /\ rpc = "idle"
    BY <1>4 DEF Dispatch
  <2>2. ~Receive
    BY <2>1 DEF Receive, TestCount, LoadEntry, TestAny, LoadAny, Call
  <2>. QED
    BY <1>4, <2>1, <2>2 DEF LookupCountsDown, SetsCounted, writerVars
<1>5. CASE Receive
  <2>1. UNCHANGED <<tableVars, writerVars>>
    BY <1>5 DEF Receive, TestCount, LoadEntry, TestAny, LoadAny, Call
  <2>2. CountLimit' = CountLimit /\ SetsCounted'
    BY <2>1 DEF CountLimit, tableVars, writerVars, SetsCounted
  <2>3. LookupRank' < LookupRank
    <3>1. CASE TestCount
      BY <1>1, <2>2, <3>1 DEF TestCount, LookupRank
    <3>2. CASE LoadEntry
      BY <1>1, <2>2, <3>2 DEF LoadEntry, LookupRank
    <3>3. CASE TestAny \/ LoadAny \/ Call
      BY <1>1, <2>2, <3>3 DEF TestAny, LoadAny, Call, LookupRank
    <3>. QED
      BY <1>5, <3>1, <3>2, <3>3 DEF Receive
  <2>4. LookupRank' \in Int
    <3>1. index' \in Int
      BY <1>5, StepInv DEF Next, Inv, TypeOK
    <3>. QED
      BY <1>1, <2>2, <3>1 DEF LookupRank
  <2>. QED
    BY <1>2, <2>2, <2>3, <2>4 DEF LookupCountsDown
<1>. QED
  BY <1>3, <1>4, <1>5 DEF Next

\* A lookup that starts when count is n and k registrations are still to come
\* ends within 2 * (n + k) and a few steps of the Paho thread: the loop over a
\* table that grows under it does not run on.
THEOREM LookupBounded ==
    Spec => [](LookupRank \in Nat) /\ [][LookupCountsDown]_vars
<1>1. Init => SetsCounted
  BY BoundsAreNats DEF Init, SetsCounted
<1>2. Inv /\ SetsCounted => LookupRank \in Nat
  BY RankIsNat
<1>3. Inv /\ SetsCounted /\ [Next]_vars => SetsCounted' /\ [LookupCountsDown]_vars
  BY LookupStep DEF vars, writerVars, SetsCounted
<1>. QED
  BY <1>1, <1>2, <1>3, Invariant, PTL DEF Spec

-----------------------------------------------------------------------------
(* Applications that register their handlers while no message is looked up *)

\* What the application would have to see to: that no handler is added while a
\* message is being looked up, nor a message taken while one is added.  The
\* callback of a handler may be replaced at any time.  One that registers its
\* handlers before it connects keeps to it; the sample registers afterwards.
AddsBetweenLookups ==
    /\ [][\A n \in Names \cup {NoName}, cb \in Callbacks : Realloc(n, cb) => rpc = "idle"]_vars
    /\ [][\A n \in Names : Dispatch(n) => wpc = "idle"]_vars

Apart == rpc # "idle" => wpc = "idle" /\ ~moved

LEMMA ApartStep ==
    ASSUME Apart, Next,
           \A n \in Names \cup {NoName}, cb \in Callbacks : Realloc(n, cb) => rpc = "idle",
           \A n \in Names : Dispatch(n) => wpc = "idle"
    PROVE  Apart'
<1>1. ASSUME NEW n \in Names \cup {NoName}, NEW cb \in Callbacks, UpdateHandler(n, cb)
      PROVE  Apart'
  BY <1>1 DEF Apart, UpdateHandler, readerVars
<1>2. ASSUME NEW n \in Names \cup {NoName}, NEW cb \in Callbacks, Realloc(n, cb)
      PROVE  Apart'
  <2>1. rpc = "idle"
    BY <1>2
  <2> QED BY <1>2, <2>1 DEF Apart, Realloc, readerVars
<1>3. ASSUME NEW n \in Names, Dispatch(n)
      PROVE  Apart'
  <2>1. wpc = "idle"
    BY <1>3
  <2> QED BY <1>3, <2>1 DEF Apart, Dispatch, writerVars
<1>4. CASE Add
  BY <1>4 DEF Apart, Add, StoreEntries, StoreSlot, StoreAnyId, StoreCount, readerVars
<1>5. CASE Receive
  BY <1>5 DEF Apart, Receive, TestCount, LoadEntry, TestAny, LoadAny, Call, writerVars
<1> QED
  BY <1>1, <1>2, <1>3, <1>4, <1>5 DEF Next

\* Then the missing lock does no harm: no lookup ever touches memory that
\* realloc has freed.
THEOREM NoFaultApart == Spec /\ AddsBetweenLookups => [](rpc # "fault")
<1> DEFINE R == \A n \in Names \cup {NoName}, cb \in Callbacks : Realloc(n, cb) => rpc = "idle"
           D == \A n \in Names : Dispatch(n) => wpc = "idle"
<1>1. Init => Apart
  BY DEF Init, Apart
<1>2. Apart /\ [Next]_vars /\ [R]_vars /\ [D]_vars => Apart'
  <2>1. CASE UNCHANGED vars
    BY <2>1 DEF Apart, vars, readerVars, writerVars
  <2>2. CASE ~UNCHANGED vars
    BY <2>2, ApartStep
  <2> QED BY <2>1, <2>2
<1>3. Apart /\ FaultsOnlyIfMoved => rpc # "fault"
  BY DEF Apart, FaultsOnlyIfMoved
<1>4. AddsBetweenLookups => [][R]_vars /\ [][D]_vars
  BY DEF AddsBetweenLookups
<1> QED
  <2> HIDE DEF R, D
  <2> QED BY <1>1, <1>2, <1>3, <1>4, FaultsOnlyMoved, PTL DEF Spec
=============================================================================
