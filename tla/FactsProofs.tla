----------------------------- MODULE FactsProofs -----------------------------
(***************************************************************************)
(* Proofs about Facts, for any facts, any number of them and of arrays,    *)
(* and any allocator that gives at least a word for a pointer: what is     *)
(* overrun, what is freed and what is sent.                                *)
(***************************************************************************)
EXTENDS Facts, FiniteSetTheorems, TLAPS

(***************************************************************************)
(* The strings of a sequence of facts                                      *)
(***************************************************************************)

Named(s)  == {i \in DOMAIN s : s[i].name}
Valued(s) == {i \in DOMAIN s : s[i].value}

\* They can be counted.
LEMMA CopiesCount ==
    ASSUME NEW s \in Seq(FactRecords)
    PROVE  /\ IsFiniteSet(Named(s)) /\ IsFiniteSet(Valued(s))
           /\ Cardinality(Named(s)) \in Nat /\ Cardinality(Valued(s)) \in Nat
           /\ Copies(s) = Cardinality(Named(s)) + Cardinality(Valued(s))
<1>1. IsFiniteSet(1..Len(s)) /\ DOMAIN s = 1..Len(s)
  BY FS_Interval
<1>2. IsFiniteSet(Named(s)) /\ IsFiniteSet(Valued(s))
  BY <1>1, FS_Subset DEF Named, Valued
<1>3. Cardinality(Named(s)) \in Nat /\ Cardinality(Valued(s)) \in Nat
  BY <1>2, FS_CardinalityType
<1>. QED
  BY <1>2, <1>3 DEF Copies, Named, Valued

\* No fact, no string.
LEMMA CopiesEmpty == Copies(<<>>) = 0
<1>1. Named(<<>>) = {} /\ Valued(<<>>) = {}
  BY DEF Named, Valued
<1>2. Copies(<<>>) = Cardinality(Named(<<>>)) + Cardinality(Valued(<<>>))
  BY DEF Copies, Named, Valued
<1>3. Cardinality({}) = 0
  BY FS_EmptySet
<1>. QED
  BY <1>1, <1>2, <1>3

\* A fact adds the strings it has.
LEMMA CopiesAppend ==
    ASSUME NEW s \in Seq(FactRecords), NEW f \in FactRecords
    PROVE  Copies(Append(s, f)) = Copies(s) + (IF f.name THEN 1 ELSE 0)
                                            + (IF f.value THEN 1 ELSE 0)
<1>. DEFINE t == Append(s, f)
<1>1. /\ t \in Seq(FactRecords) /\ Len(s) + 1 \notin DOMAIN s
      /\ DOMAIN t = DOMAIN s \cup {Len(s) + 1} /\ t[Len(s) + 1] = f
      /\ \A i \in DOMAIN s : t[i] = s[i]
  OBVIOUS
<1>. HIDE DEF t
<1>2. Named(t) = IF f.name THEN Named(s) \cup {Len(s) + 1} ELSE Named(s)
  BY <1>1 DEF Named
<1>3. Valued(t) = IF f.value THEN Valued(s) \cup {Len(s) + 1} ELSE Valued(s)
  BY <1>1 DEF Valued
<1>4. Len(s) + 1 \notin Named(s) /\ Len(s) + 1 \notin Valued(s)
  BY <1>1 DEF Named, Valued
<1>5. Cardinality(Named(t)) = Cardinality(Named(s)) + (IF f.name THEN 1 ELSE 0)
  <2>1. IsFiniteSet(Named(s)) /\ Cardinality(Named(s)) \in Nat
    BY CopiesCount
  <2>2. Cardinality(Named(s) \cup {Len(s) + 1}) = Cardinality(Named(s)) + 1
    BY <1>4, <2>1, FS_AddElement
  <2>. QED
    BY <1>2, <2>1, <2>2
<1>6. Cardinality(Valued(t)) = Cardinality(Valued(s)) + (IF f.value THEN 1 ELSE 0)
  <2>1. IsFiniteSet(Valued(s)) /\ Cardinality(Valued(s)) \in Nat
    BY CopiesCount
  <2>2. Cardinality(Valued(s) \cup {Len(s) + 1}) = Cardinality(Valued(s)) + 1
    BY <1>4, <2>1, FS_AddElement
  <2>. QED
    BY <1>3, <2>1, <2>2
<1>7. Copies(t) = Cardinality(Named(t)) + Cardinality(Valued(t))
  BY <1>1, CopiesCount
<1>. QED
  BY <1>5, <1>6, <1>7, CopiesCount DEF t

-----------------------------------------------------------------------------
(* The inductive invariant                                                 *)

\* The history of what was accepted follows the array.
Recorded ==
    handle = "live" =>
        /\ Len(added) = Len(facts)
        /\ \A i \in DOMAIN facts : facts[i].data = added[i]

\* Only a live array has facts.
Emptied == handle = "null" => facts = <<>>

Inv == TypeOK /\ Recorded /\ Emptied /\ OverrunPastGranted /\ OnlyContainersLeak

LEMMA Codes ==
    /\ VEIDES_RC_SUCCESS \in Int /\ VEIDES_RC_NOMEM \in Int
    /\ VEIDES_RC_INVALID_HANDLE \in Int /\ VEIDES_RC_NULL_PARAM \in Int
    /\ VEIDES_RC_NOT_CONNECTED \in Int
BY DEF VEIDES_RC_SUCCESS, VEIDES_RC_NOMEM, VEIDES_RC_INVALID_HANDLE, VEIDES_RC_NULL_PARAM,
       VEIDES_RC_NOT_CONNECTED

LEMMA NothingIsSending == Nothing \in Sendings
BY DEF Nothing, Sending, Sendings

LEMMA InitInv == Init => Inv
<1>. SUFFICES ASSUME Init PROVE Inv
  OBVIOUS
<1>1. facts = <<>> /\ added = <<>> /\ facts \in Seq(FactRecords) /\ added \in Seq(Data)
  BY DEF Init
<1>2. TypeOK
  BY <1>1, Codes, NothingIsSending DEF Init, TypeOK, NoBlocks
<1>3. OnlyContainersLeak
  BY <1>1, CopiesEmpty DEF Init, OnlyContainersLeak, NoBlocks
<1>. QED
  BY <1>1, <1>2, <1>3 DEF Inv, Recorded, Emptied, OverrunPastGranted, Init

LEMMA CreateKeeps == Inv /\ Create => Inv'
<1>. SUFFICES ASSUME Inv, Create PROVE Inv'
  OBVIOUS
<1>1. CASE UNCHANGED <<handle, facts, status, blocks, added>>
  <2>1. TypeOK'
    BY <1>1, Codes, NothingIsSending DEF Create, Inv, TypeOK
  <2>2. destroyed' = destroyed
    BY DEF Create
  <2>. QED
    BY <1>1, <2>1, <2>2 DEF Inv, Recorded, Emptied, OverrunPastGranted, OnlyContainersLeak
<1>2. CASE ~ UNCHANGED <<handle, facts, status, blocks, added>>
  <2>1. /\ status = "ok" /\ handle = "null" /\ handle' = "live"
        /\ facts' = <<>> /\ added' = <<>> /\ Write(StructWords)
        /\ blocks' = [blocks EXCEPT !.object = @ + 1]
        /\ rc' = VEIDES_RC_SUCCESS
        /\ sent' = Nothing /\ destroyed' = destroyed /\ arrays' = arrays + 1
    BY <1>2 DEF Create, Inv, TypeOK
  <2>2. facts = <<>>
    BY <2>1 DEF Inv, Emptied
  <2>3. status' \in {"ok", "overrun"} /\ (status' = "overrun" => Granted < StructWords)
    BY <2>1, GrantedIsPositive DEF Write, StructWords
  <2>4. TypeOK'
    <3>1. blocks' \in [{"object", "entries", "fact", "string"} -> Nat]
      BY <2>1 DEF Inv, TypeOK
    <3>2. facts' \in Seq(FactRecords) /\ added' \in Seq(Data)
      BY <2>1
    <3>3. rc' \in Int /\ arrays' \in Nat /\ sent' \in Sendings
          /\ destroyed' \in [facts : Nat, arrays : Nat]
      BY <2>1, Codes, NothingIsSending DEF Inv, TypeOK
    <3>. QED
      BY <2>1, <2>3, <3>1, <3>2, <3>3 DEF TypeOK
  <2>5. OnlyContainersLeak'
    BY <2>1, <2>2 DEF Inv, TypeOK, OnlyContainersLeak
  <2>6. Recorded' /\ Emptied' /\ OverrunPastGranted'
    BY <2>1, <2>3 DEF Recorded, Emptied, OverrunPastGranted
  <2>. QED
    BY <2>4, <2>5, <2>6 DEF Inv
<1>. QED
  BY <1>1, <1>2

\* A fact is appended: the array of pointers, the fact and its strings.
LEMMA AddFactKeeps == ASSUME Inv, NEW d \in Data, AddFact(d) PROVE Inv'
<1>1. CASE UNCHANGED <<facts, status, blocks, added>>
  <2>1. UNCHANGED <<handle, arrays, destroyed>> /\ rc' \in Int /\ sent' \in Sendings
    BY Codes, NothingIsSending DEF AddFact, Inv, TypeOK
  <2>. QED
    BY <1>1, <2>1 DEF Inv, TypeOK, Recorded, Emptied, OverrunPastGranted, OnlyContainersLeak
<1>2. ASSUME NEW name \in BOOLEAN, NEW value \in BOOLEAN,
             facts' = Append(facts, Fact(d, name, value)), added' = Append(added, d),
             Write(IF StructWords > Len(facts) + 1 THEN StructWords ELSE Len(facts) + 1),
             blocks' = [blocks EXCEPT
                 !.entries = IF facts = <<>> THEN @ + 1 ELSE @,
                 !.fact    = @ + 1,
                 !.string  = @ + Copies(<<Fact(d, name, value)>>)],
             rc' = VEIDES_RC_SUCCESS
      PROVE  Inv'
  <2>. DEFINE f == Fact(d, name, value)
  <2>1. /\ facts \in Seq(FactRecords) /\ added \in Seq(Data)
        /\ f \in FactRecords /\ f.data = d
        /\ status = "ok" /\ handle = "live" /\ handle' = handle /\ arrays' = arrays
        /\ sent' = Nothing /\ destroyed' = destroyed
    BY DEF AddFact, Inv, TypeOK, Fact, FactRecords
  <2>2. Copies(<<f>>) = (IF f.name THEN 1 ELSE 0) + (IF f.value THEN 1 ELSE 0)
    <3>1. <<>> \in Seq(FactRecords) /\ <<f>> = Append(<<>>, f)
      OBVIOUS
    <3>2. Copies(Append(<<>>, f)) = Copies(<<>>) + (IF f.name THEN 1 ELSE 0)
                                                 + (IF f.value THEN 1 ELSE 0)
      BY <2>1, <3>1, CopiesAppend
    <3>. QED
      BY <3>1, <3>2, CopiesEmpty
  <2>. HIDE DEF f
  <2>3. Copies(<<f>>) \in Nat /\ Copies(facts') = Copies(facts) + Copies(<<f>>)
    <3>1. Copies(Append(facts, f)) = Copies(facts) + (IF f.name THEN 1 ELSE 0)
                                                   + (IF f.value THEN 1 ELSE 0)
      BY <2>1, CopiesAppend
    <3>2. Copies(facts) \in Nat
      BY <2>1, CopiesCount
    <3>. QED
      BY <1>2, <2>2, <3>1, <3>2 DEF f
  <2>4. facts' \in Seq(FactRecords) /\ added' \in Seq(Data) /\ Len(facts') = Len(facts) + 1
    BY <1>2, <2>1 DEF f
  <2>5. /\ status' \in {"ok", "overrun"}
        /\ status' = "overrun" => Granted < StructWords \/ Len(facts') > Granted
    BY <1>2, <2>1, <2>4, GrantedIsPositive DEF Write, StructWords
  <2>6. /\ blocks \in [{"object", "entries", "fact", "string"} -> Nat]
        /\ blocks' = [blocks EXCEPT !.entries = IF facts = <<>> THEN @ + 1 ELSE @,
                                    !.fact = @ + 1, !.string = @ + Copies(<<f>>)]
    BY <1>2 DEF Inv, TypeOK, f
  <2>7. TypeOK'
    <3>1. blocks' \in [{"object", "entries", "fact", "string"} -> Nat]
      <4>1. /\ DOMAIN blocks' = {"object", "entries", "fact", "string"}
            /\ blocks' = [k \in DOMAIN blocks' |-> blocks'[k]]
        BY <2>6
      <4>2. blocks'["object"] \in Nat /\ blocks'["entries"] \in Nat /\ blocks'["fact"] \in Nat
        BY <2>6
      <4>3. blocks'["string"] \in Nat
        BY <2>3, <2>6
      <4>. QED
        BY <4>1, <4>2, <4>3
    <3>2. rc' \in Int /\ arrays' \in Nat /\ sent' \in Sendings
          /\ destroyed' \in [facts : Nat, arrays : Nat]
      BY <1>2, <2>1, Codes, NothingIsSending DEF Inv, TypeOK
    <3>. QED
      BY <2>1, <2>4, <2>5, <3>1, <3>2 DEF TypeOK
  <2>8. OnlyContainersLeak'
    <3>1. /\ blocks'.object = blocks.object /\ blocks'.fact = blocks.fact + 1
          /\ blocks'.entries = (IF facts = <<>> THEN blocks.entries + 1 ELSE blocks.entries)
          /\ blocks'.string = blocks.string + Copies(<<f>>)
      BY <2>6
    <3>2. facts' # <<>>
      BY <2>1, <2>4
    <3>. QED
      <4>1. /\ blocks.object = 1 /\ blocks.string = Copies(facts)
            /\ blocks.fact = destroyed.facts + Len(facts)
            /\ blocks.entries = destroyed.arrays + (IF facts = <<>> THEN 0 ELSE 1)
        BY <2>1 DEF Inv, OnlyContainersLeak
      <4>2. destroyed.facts \in Nat /\ destroyed.arrays \in Nat /\ Len(facts) \in Nat
        BY <2>1 DEF Inv, TypeOK
      <4>3. blocks'.entries = destroyed.arrays + 1
        BY <3>1, <4>1, <4>2
      <4>4. blocks'.fact = destroyed.facts + Len(facts')
        BY <2>4, <3>1, <4>1, <4>2
      <4>. QED
        BY <2>1, <2>3, <3>1, <3>2, <4>1, <4>3, <4>4 DEF OnlyContainersLeak
  <2>9. Recorded'
    <3>1. DOMAIN facts' = 1..Len(facts) + 1 /\ Len(added) = Len(facts) /\ DOMAIN facts = 1..Len(facts)
      BY <1>2, <2>1 DEF Inv, Recorded, f
    <3>2. \A i \in 1..Len(facts) : facts'[i] = facts[i] /\ added'[i] = added[i]
      BY <1>2, <2>1, <3>1 DEF f
    <3>3. facts'[Len(facts) + 1] = f /\ added'[Len(facts) + 1] = d
      BY <1>2, <2>1, <3>1 DEF f
    <3>4. \A i \in 1..Len(facts) + 1 : i \in 1..Len(facts) \/ i = Len(facts) + 1
      BY <2>1
    <3>. QED
      BY <1>2, <2>1, <2>4, <3>1, <3>2, <3>3, <3>4 DEF Inv, Recorded
  <2>. QED
    BY <2>1, <2>5, <2>7, <2>8, <2>9 DEF Inv, Emptied, OverrunPastGranted
<1>. QED
  BY <1>1, <1>2 DEF AddFact

LEMMA DestroyKeeps == Inv /\ Destroy => Inv'
<1>. SUFFICES ASSUME Inv, Destroy PROVE Inv'
  OBVIOUS
<1>1. /\ status = "ok" /\ handle = "live" /\ handle' = "null" /\ facts' = <<>>
      /\ blocks' = [blocks EXCEPT !.object = @ - 1, !.string = @ - Copies(facts)]
      /\ destroyed' = [facts |-> destroyed.facts + Len(facts),
                       arrays |-> destroyed.arrays + (IF facts = <<>> THEN 0 ELSE 1)]
      /\ rc' = VEIDES_RC_SUCCESS /\ sent' = Nothing
      /\ UNCHANGED <<status, arrays, added>>
  BY DEF Destroy
<1>2. /\ blocks.object = 1 /\ blocks.string = Copies(facts)
      /\ blocks.fact = destroyed.facts + Len(facts)
      /\ blocks.entries = destroyed.arrays + (IF facts = <<>> THEN 0 ELSE 1)
  BY <1>1 DEF Inv, OnlyContainersLeak
<1>3. /\ Copies(facts) \in Nat /\ Len(facts) \in Nat
      /\ destroyed.facts \in Nat /\ destroyed.arrays \in Nat
  BY CopiesCount DEF Inv, TypeOK
<1>4. /\ blocks' \in [{"object", "entries", "fact", "string"} -> Nat]
      /\ blocks'.object = 0 /\ blocks'.string = 0
      /\ blocks'.fact = blocks.fact /\ blocks'.entries = blocks.entries
  <2>1. blocks \in [{"object", "entries", "fact", "string"} -> Nat]
    BY DEF Inv, TypeOK
  <2>2. /\ DOMAIN blocks' = {"object", "entries", "fact", "string"}
        /\ blocks' = [k \in DOMAIN blocks' |-> blocks'[k]]
    BY <1>1, <2>1
  <2>3. blocks'["object"] = 0 /\ blocks'["fact"] = blocks["fact"]
        /\ blocks'["entries"] = blocks["entries"]
    BY <1>1, <1>2, <2>1
  <2>4. blocks'["string"] = 0
    BY <1>1, <1>2, <1>3, <2>1
  <2>. QED
    BY <2>1, <2>2, <2>3, <2>4
<1>5. TypeOK'
  <2>1. destroyed' \in [facts : Nat, arrays : Nat]
    BY <1>1, <1>3
  <2>2. facts' \in Seq(FactRecords) /\ rc' \in Int
    BY <1>1, Codes
  <2>. QED
    BY <1>1, <1>4, <2>1, <2>2, NothingIsSending DEF Inv, TypeOK
<1>6. OnlyContainersLeak'
  <2>1. Copies(facts') = 0 /\ Len(facts') = 0
    BY <1>1, CopiesEmpty
  <2>2. /\ destroyed'.facts = destroyed.facts + Len(facts)
        /\ destroyed'.arrays = destroyed.arrays + (IF facts = <<>> THEN 0 ELSE 1)
    BY <1>1
  <2>. QED
    BY <1>1, <1>2, <1>3, <1>4, <2>1, <2>2 DEF OnlyContainersLeak
<1>. QED
  BY <1>1, <1>5, <1>6 DEF Inv, Recorded, Emptied, OverrunPastGranted

\* Sending leaves the array and its memory as they are.
LEMMA SendFactsKeeps == Inv /\ SendFacts => Inv'
<1>. SUFFICES ASSUME Inv, SendFacts PROVE Inv'
  OBVIOUS
<1>1. UNCHANGED <<handle, facts, status, blocks, arrays, added, destroyed>> /\ rc' \in Int
  BY Codes DEF SendFacts
<1>2. \A refused : Payload(refused) \in SUBSET FactRecords
  BY DEF Payload, Copied, Inv, TypeOK
<1>3. \A refused \in SUBSET DOMAIN facts : refused \in SUBSET Nat
  BY DEF Inv, TypeOK
<1>4. sent' \in Sendings
  <2>1. \A refused \in SUBSET DOMAIN facts :
           Sending(Payload(refused), refused, TRUE) \in Sendings
             /\ Sending({}, refused, FALSE) \in Sendings
    BY <1>2, <1>3 DEF Sending, Sendings
  <2>. QED
    BY <2>1, NothingIsSending DEF SendFacts
<1>. QED
  BY <1>1, <1>4 DEF Inv, TypeOK, Recorded, Emptied, OverrunPastGranted, OnlyContainersLeak

\* A fault ends the program.
LEMMA FaultKeeps == Inv /\ (AddFactFaults \/ DestroyNull) => Inv'
<1>. SUFFICES ASSUME Inv, AddFactFaults \/ DestroyNull PROVE Inv'
  OBVIOUS
<1>1. /\ UNCHANGED <<handle, facts, blocks, arrays, sent, added, destroyed>>
      /\ status' = "crashed" /\ rc' \in Int
  BY Codes DEF AddFactFaults, DestroyNull, Inv, TypeOK
<1>. QED
  BY <1>1 DEF Inv, TypeOK, Recorded, Emptied, OverrunPastGranted, OnlyContainersLeak

LEMMA StepInv == Inv /\ [Next]_vars => Inv'
<1>. SUFFICES ASSUME Inv, [Next]_vars PROVE Inv'
  OBVIOUS
<1>1. CASE UNCHANGED vars
  BY <1>1 DEF vars, Inv, TypeOK, Recorded, Emptied, OverrunPastGranted, OnlyContainersLeak
<1>. QED
  BY <1>1, CreateKeeps, AddFactKeeps, DestroyKeeps, SendFactsKeeps, FaultKeeps DEF Next

LEMMA Invariant == Spec => []Inv
BY InitInv, StepInv, PTL DEF Spec

-----------------------------------------------------------------------------
(* The theorems                                                            *)

\* Every variable keeps its type; in particular no block is freed that was not
\* allocated.
THEOREM TypeCorrect == Spec => []TypeOK
<1>1. Inv => TypeOK
  BY DEF Inv
<1>. QED
  BY <1>1, Invariant, PTL

\* The requests for one pointer do no harm until an array holds more facts than
\* the allocator has given it words.
THEOREM OverrunOnlyThen == Spec => []OverrunPastGranted
<1>1. Inv => OverrunPastGranted
  BY DEF Inv
<1>. QED
  BY <1>1, Invariant, PTL

\* Names, values and objects are freed once each, over any sequence of calls
\* and failures; arrays of pointers and facts never are.
THEOREM LeaksKnown == Spec => []OnlyContainersLeak
<1>1. Inv => OnlyContainersLeak
  BY DEF Inv
<1>. QED
  BY <1>1, Invariant, PTL

\* What sendFacts publishes is made of accepted facts, and lacks only those whose
\* own name or value was not copied, unless it is an empty message.
THEOREM SentTraced == Spec => PayloadTraced
<1>1. ASSUME Inv, SendFacts, handle = "live", rc' = VEIDES_RC_SUCCESS
      PROVE  /\ \A f \in sent'.facts :
                   f.name /\ f.value /\ \E i \in DOMAIN added : added[i] = f.data
             /\ sent'.printed =>
                   \A i \in DOMAIN added :
                       \/ \E f \in sent'.facts : f.data = added[i]
                       \/ ~facts[i].name \/ ~facts[i].value \/ i \in sent'.refused
  <2>1. DOMAIN added = DOMAIN facts /\ \A i \in DOMAIN facts : facts[i].data = added[i]
    BY <1>1 DEF Inv, TypeOK, Recorded
  <2>2. PICK refused \in SUBSET DOMAIN facts :
          \/ sent' = Sending(Payload(refused), refused, TRUE)
          \/ sent' = Sending({}, refused, FALSE)
    <3>1. rc' \notin {VEIDES_RC_NOMEM, VEIDES_RC_NOT_CONNECTED} /\ handle # "null"
      BY <1>1 DEF VEIDES_RC_SUCCESS, VEIDES_RC_NOMEM, VEIDES_RC_NOT_CONNECTED
    <3>. QED
      BY <1>1, <3>1, Zenon DEF SendFacts
  <2>3. CASE sent' = Sending(Payload(refused), refused, TRUE)
    <3>1. sent'.facts = Payload(refused) /\ sent'.refused = refused
      BY <2>3 DEF Sending
    <3>2. \A f \in Payload(refused) :
             f.name /\ f.value /\ \E i \in DOMAIN facts : f = facts[i]
      BY DEF Payload, Copied
    <3>3. ASSUME NEW i \in DOMAIN facts, facts[i].name, facts[i].value, i \notin refused
          PROVE  facts[i] \in sent'.facts
      BY <3>1, <3>3 DEF Payload, Copied
    <3>. QED
      BY <2>1, <3>1, <3>2, <3>3
  <2>4. CASE sent' = Sending({}, refused, FALSE)
    <3>1. sent'.facts = {} /\ ~sent'.printed
      BY <2>4 DEF Sending
    <3>. QED
      BY <3>1
  <2>. QED
    BY <2>2, <2>3, <2>4
<1>. QED
  BY <1>1, Invariant, PTL DEF PayloadTraced
=============================================================================
