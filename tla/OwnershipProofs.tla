-------------------------- MODULE OwnershipProofs --------------------------
(***************************************************************************)
(* Proofs about Ownership, for any fields, any number of strings and of    *)
(* clients, and an application that reuses its properties or does not.     *)
(***************************************************************************)
EXTENDS Ownership, TLAPS

(***************************************************************************)
(* The inductive invariant: as long as nothing has gone wrong, every       *)
(* string has one owner.                                                   *)
(***************************************************************************)

\* No two fields share a string.
Distinct == \A f, g \in Fields : field[f] = field[g] => f = g \/ field[f] = 0

\* What a field of live properties points to has not been freed, but for a
\* client id whose client is gone.
FieldsLive ==
    properties # "freed" =>
        \A f \in Fields : field[f] \in freed => f = "clientId" /\ client = "freed"

\* The client and its properties share the client id, until an application
\* that reuses them sets it anew.
IdShared ==
    /\ client = "null" <=> clients = 0
    /\ client = "freed" => clientId = field["clientId"] /\ clientId \in freed
    /\ client = "live" =>
          /\ properties = "live" /\ clientId # 0
          /\ clientId = field["clientId"] \/ (clientId \in freed /\ reused)

\* Properties a client was made of stay complete while they are left alone.
StaysValid ==
    ~reused /\ clients > 0 => 0 \notin Of(Fields) /\ properties \in {"live", "freed"}

\* A string that was not freed is in a field; of properties that are gone, it
\* is the client id.
NoneLost ==
    \A s \in 1..strings :
        s \in freed \/ (s \in Of(Fields) /\ (properties = "freed" => s = field["clientId"]))

ClientsCounted ==
    blocks.clients = failures + (IF client = "live" THEN 1 ELSE 0)

Sound == Distinct /\ FieldsLive /\ IdShared /\ StaysValid /\ NoneLost /\ ClientsCounted

Inv == TypeOK /\ FaultOnlyByReuse /\ (fault = "none" => Sound)

-----------------------------------------------------------------------------

LEMMA Codes ==
    /\ VEIDES_RC_SUCCESS \in Int /\ VEIDES_RC_NOMEM \in Int
    /\ VEIDES_RC_INVALID_HANDLE \in Int /\ VEIDES_RC_INVALID_PROPERTY \in Int
    /\ VEIDES_RC_NULL_PARAM \in Int /\ MQTTASYNC_FAILURE \in Int
BY DEF VEIDES_RC_SUCCESS, VEIDES_RC_NOMEM, VEIDES_RC_INVALID_HANDLE,
       VEIDES_RC_INVALID_PROPERTY, VEIDES_RC_NULL_PARAM, MQTTASYNC_FAILURE

LEMMA InitInv == Init => Inv
<1>. SUFFICES ASSUME Init PROVE Inv
  OBVIOUS
<1>1. TypeOK
  <2>1. field \in [Fields -> 0..strings] /\ freed \subseteq 1..strings
    BY DEF Init
  <2>2. blocks \in [parts : 0..2, clients : Nat] /\ rc \in Int
    BY Codes DEF Init
  <2>3. clientId \in 0..strings /\ strings \in Nat /\ clients \in Nat /\ failures \in Nat
    BY DEF Init
  <2>4. properties = "null" /\ client = "null" /\ fault = "none" /\ reused = FALSE
    BY DEF Init
  <2>. QED
    BY <2>1, <2>2, <2>3, <2>4 DEF TypeOK
<1>2. Distinct /\ FieldsLive /\ StaysValid /\ ClientsCounted
  BY DEF Init, Distinct, FieldsLive, StaysValid, ClientsCounted
<1>3. IdShared /\ NoneLost
  BY DEF Init, IdShared, NoneLost
<1>. QED
  BY <1>1, <1>2, <1>3 DEF Inv, Sound, FaultOnlyByReuse, Init

-----------------------------------------------------------------------------
(* Setting one property or several                                         *)

\* The fields in fs are given strings of their own, or NULL; what they held is
\* freed.
Replaces(fs) ==
    /\ fault = "none" /\ rc' = VEIDES_RC_SUCCESS
    /\ properties = "live"
    /\ Free(Of(fs))
    /\ strings' \in Nat /\ strings' >= strings
    /\ field' \in [Fields -> 0..strings']
    /\ \A f \in Fields \ fs : field'[f] = field[f]
    /\ \A f \in fs : field'[f] = 0 \/ field'[f] > strings
    /\ \A f, g \in fs : field'[f] = field'[g] => f = g \/ field'[f] = 0
    /\ \A s \in 1..strings' : s <= strings \/ \E f \in fs : field'[f] = s
    /\ reused' = (reused \/ (fs # {} /\ clients > 0))
    /\ UNCHANGED <<properties, clientVars, blocks>>

LEMMA SetPropertyReplaces ==
    ASSUME TypeOK, NEW f \in Fields, SetProperty(f)
    PROVE  Replaces({f})
<1>1. Of({f}) = {field[f]}
  BY DEF Of
<1>2. fault = "none" /\ rc' = VEIDES_RC_SUCCESS /\ properties = "live" /\ Free(Of({f}))
  BY <1>1 DEF SetProperty, Return
<1>3. CASE strings' = strings + 1 /\ field' = [field EXCEPT ![f] = strings + 1]
  BY <1>2, <1>3 DEF SetProperty, Replaces, TypeOK
<1>4. CASE UNCHANGED strings /\ field' = [field EXCEPT ![f] = 0]
  BY <1>2, <1>4 DEF SetProperty, Replaces, TypeOK
<1>. QED
  BY <1>3, <1>4 DEF SetProperty

LEMMA FromEnvReplaces ==
    ASSUME TypeOK, NEW fs \in SUBSET Fields, SetPropertiesFromEnv(fs)
    PROVE  Replaces(fs)
<1>1. PICK got \in SUBSET fs, n \in 0..MaxStrings - strings :
         \E copy \in Bijection(got, strings + 1..strings + n) :
            /\ strings' = strings + n
            /\ field' = [f \in Fields |-> IF f \in got THEN copy[f]
                                          ELSE IF f \in fs THEN 0 ELSE field[f]]
  BY DEF SetPropertiesFromEnv
<1>2. PICK copy \in Bijection(got, strings + 1..strings + n) :
            /\ strings' = strings + n
            /\ field' = [f \in Fields |-> IF f \in got THEN copy[f]
                                          ELSE IF f \in fs THEN 0 ELSE field[f]]
  BY <1>1
<1>3. /\ copy \in [got -> strings + 1..strings + n]
      /\ \A f, g \in got : copy[f] = copy[g] => f = g
      /\ \A s \in strings + 1..strings + n : \E f \in got : copy[f] = s
  BY DEF Bijection, Injection, Surjection, IsInjective
<1>4. n \in Nat /\ strings \in Nat /\ field \in [Fields -> 0..strings]
  BY DEF TypeOK
<1>5. strings' \in Nat /\ strings' >= strings
  BY <1>2, <1>4
<1>6. \A f \in got : copy[f] \in Nat /\ copy[f] > strings /\ copy[f] <= strings + n
  BY <1>3, <1>4
<1>7. field' \in [Fields -> 0..strings']
  <2>1. \A f \in Fields : (IF f \in got THEN copy[f] ELSE IF f \in fs THEN 0 ELSE field[f])
                             \in 0..strings'
    BY <1>2, <1>4, <1>6
  <2>. QED
    BY <1>2, <2>1
<1>8. \A f \in fs : field'[f] = (IF f \in got THEN copy[f] ELSE 0)
  BY <1>2
<1>9. \A f \in fs : field'[f] = 0 \/ field'[f] > strings
  BY <1>6, <1>8
<1>10. \A f, g \in fs : field'[f] = field'[g] => f = g \/ field'[f] = 0
  BY <1>3, <1>4, <1>6, <1>8
<1>11. \A s \in 1..strings' : s <= strings \/ \E f \in fs : field'[f] = s
  <2>. SUFFICES ASSUME NEW s \in 1..strings', s > strings
                PROVE  \E f \in fs : field'[f] = s
    BY <1>4, <1>5
  <2>1. s \in strings + 1..strings + n
    BY <1>2, <1>4
  <2>2. PICK f \in got : copy[f] = s
    BY <1>3, <2>1
  <2>. QED
    BY <1>8, <2>2
<1>12. \A f \in Fields \ fs : field'[f] = field[f]
  BY <1>2
<1>. QED
  BY <1>5, <1>7, <1>9, <1>10, <1>11, <1>12 DEF SetPropertiesFromEnv, Replaces, Return

\* Setting fields keeps the invariant.
LEMMA ReplacesKeeps ==
    ASSUME Inv, NEW fs \in SUBSET Fields, Replaces(fs)
    PROVE  Inv'
<1>. USE FieldsNameTheId
<1>1. TypeOK /\ Sound /\ fault = "none"
  BY DEF Inv, Replaces
<1>2. freed' = freed \cup (Of(fs) \ {0})
  BY DEF Replaces, Free
<1>3. Of(fs) \ {0} \subseteq 1..strings
  BY <1>1 DEF Of, TypeOK
<1>4. TypeOK'
  <2>1. freed' \subseteq 1..strings'
    <3>1. 1..strings \subseteq 1..strings'
      BY <1>1 DEF TypeOK, Replaces
    <3>2. freed \subseteq 1..strings
      BY <1>1 DEF TypeOK
    <3>. QED
      BY <1>2, <1>3, <3>1, <3>2
  <2>2. clientId' \in 0..strings'
    BY <1>1 DEF TypeOK, Replaces, clientVars
  <2>3. fault' \in {"none", "freed"}
    BY DEF Replaces, Free, Touches
  <2>. QED
    BY <1>1, <2>1, <2>2, <2>3, Codes DEF TypeOK, Replaces, clientVars
<1>5. FaultOnlyByReuse'
  <2>. SUFFICES ASSUME fault' = "freed" PROVE reused'
    BY DEF FaultOnlyByReuse
  <2>1. Of(fs) \cap freed # {}
    BY <1>1 DEF Replaces, Free, Touches
  <2>2. PICK f \in fs : field[f] \in freed
    BY <2>1 DEF Of
  <2>3. client = "freed"
    BY <1>1, <2>2 DEF Sound, FieldsLive, Replaces
  <2>4. clients > 0
    BY <1>1, <2>3 DEF Sound, IdShared, TypeOK
  <2>. QED
    BY <2>2, <2>4 DEF Replaces
<1>6. ASSUME fault' = "none" PROVE Sound'
  <2>1. Of(fs) \cap freed = {}
    BY <1>6 DEF Replaces, Free, Touches
  <2>2. \A f \in fs : field[f] \notin freed
    BY <2>1 DEF Of
  <2>3. Distinct'
    <3>. SUFFICES ASSUME NEW f \in Fields, NEW g \in Fields, field'[f] = field'[g], f # g
                  PROVE  field'[f] = 0
      BY DEF Distinct
    <3>1. CASE f \in fs /\ g \in fs
      BY <3>1 DEF Replaces
    <3>2. CASE f \notin fs /\ g \notin fs
      BY <1>1, <3>2 DEF Replaces, Sound, Distinct
    <3>3. \A h \in Fields : field[h] \in Nat /\ field[h] <= strings
      BY <1>1 DEF TypeOK
    <3>4. \A h \in Fields : field'[h] \in Nat
      BY DEF Replaces
    <3>5. CASE f \in fs /\ g \notin fs
      BY <1>1, <3>3, <3>4, <3>5 DEF Replaces, TypeOK
    <3>6. CASE f \notin fs /\ g \in fs
      BY <1>1, <3>3, <3>4, <3>6 DEF Replaces, TypeOK
    <3>. QED
      BY <3>1, <3>2, <3>5, <3>6
  <2>4. FieldsLive'
    <3>. SUFFICES ASSUME NEW f \in Fields, field'[f] \in freed'
                  PROVE  f = "clientId" /\ client' = "freed"
      BY DEF FieldsLive
    <3>1. field'[f] \in 1..strings
      BY <1>1, <1>2, <1>3 DEF TypeOK
    <3>2. f \notin fs
      BY <1>1, <3>1 DEF Replaces, TypeOK
    <3>3. field'[f] = field[f]
      BY <3>2 DEF Replaces
    <3>4. field[f] \notin Of(fs) \ {0}
      BY <1>1, <3>2 DEF Of, Sound, Distinct
    <3>5. field[f] \in freed
      BY <1>2, <3>3, <3>4
    <3>. QED
      BY <1>1, <3>5 DEF Sound, FieldsLive, Replaces, clientVars
  <2>5. IdShared'
    <3>1. CASE client = "freed"
      <4>1. field["clientId"] \in freed
        BY <1>1, <3>1 DEF Sound, IdShared
      <4>2. "clientId" \notin fs
        BY <2>2, <4>1
      <4>. QED
        BY <1>1, <1>2, <3>1, <4>2 DEF Sound, IdShared, Replaces, clientVars
    <3>2. CASE client = "live"
      <4>1. clients > 0
        BY <1>1, <3>2 DEF Sound, IdShared, TypeOK
      <4>2. CASE "clientId" \notin fs
        BY <1>1, <1>2, <3>2, <4>1, <4>2 DEF Sound, IdShared, Replaces, clientVars
      <4>3. CASE "clientId" \in fs
        <5>1. reused'
          BY <4>1, <4>3 DEF Replaces
        <5>2. field["clientId"] \in Of(fs)
          BY <4>3 DEF Of
        <5>3. clientId \in freed'
          BY <1>1, <1>2, <3>2, <5>2 DEF Sound, IdShared
        <5>. QED
          BY <1>1, <3>2, <5>1, <5>3 DEF Sound, IdShared, Replaces, clientVars
      <4>. QED
        BY <4>2, <4>3
    <3>3. CASE client \notin {"freed", "live"}
      BY <1>1, <3>3 DEF Sound, IdShared, Replaces, clientVars
    <3>. QED
      BY <3>1, <3>2, <3>3
  <2>6. StaysValid'
    <3>. SUFFICES ASSUME ~reused', clients' > 0
                  PROVE  (0 \notin Of(Fields))' /\ properties' \in {"live", "freed"}
      BY DEF StaysValid
    <3>1. fs = {} /\ ~reused /\ clients > 0
      BY DEF Replaces, clientVars
    <3>2. \A f \in Fields : field'[f] = field[f]
      BY <3>1 DEF Replaces
    <3>3. 0 \notin Of(Fields)
      BY <1>1, <3>1 DEF Sound, StaysValid
    <3>. QED
      BY <3>2, <3>3 DEF Of, Replaces
  <2>7. NoneLost'
    <3>. SUFFICES ASSUME NEW s \in 1..strings'
                  PROVE  s \in freed' \/ (s \in Of(Fields))'
      BY DEF NoneLost, Replaces
    <3>1. CASE \E f \in fs : field'[f] = s
      BY <3>1 DEF Of
    <3>2. CASE s <= strings
      <4>1. s \in 1..strings
        BY <1>1, <3>2 DEF TypeOK
      <4>2. CASE s \in freed
        BY <1>2, <4>2
      <4>3. CASE s \notin freed
        <5>1. PICK f \in Fields : field[f] = s
          BY <1>1, <4>1, <4>3 DEF Sound, NoneLost, Of
        <5>2. CASE f \in fs
          BY <1>2, <4>1, <5>1, <5>2 DEF Of
        <5>3. CASE f \notin fs
          BY <5>1, <5>3 DEF Replaces, Of
        <5>. QED
          BY <5>2, <5>3
      <4>. QED
        BY <4>2, <4>3
    <3>. QED
      BY <3>1, <3>2 DEF Replaces
  <2>8. ClientsCounted'
    BY <1>1 DEF Sound, ClientsCounted, Replaces, clientVars
  <2>. QED
    BY <2>3, <2>4, <2>5, <2>6, <2>7, <2>8 DEF Sound
<1>. QED
  BY <1>4, <1>5, <1>6 DEF Inv

-----------------------------------------------------------------------------
(* The other steps                                                         *)

LEMMA PropertiesCreateKeeps == Inv /\ PropertiesCreate => Inv'
<1>. SUFFICES ASSUME Inv, PropertiesCreate PROVE Inv'
  OBVIOUS
<1>1. TypeOK /\ Sound /\ fault = "none" /\ fault' = "none"
  BY DEF Inv, PropertiesCreate, Return
<1>2. UNCHANGED <<field, client, clientId, clients, failures, strings, freed, reused>>
  BY DEF PropertiesCreate, clientVars
<1>3. properties' # "freed" \/ properties' = properties
  BY DEF PropertiesCreate
<1>4. properties' = properties \/ properties = "null"
  BY DEF PropertiesCreate
<1>5. blocks' \in [parts : 0..2, clients : Nat] /\ blocks'.clients = blocks.clients
  BY <1>1 DEF PropertiesCreate, TypeOK
<1>6. rc' \in Int /\ properties' \in {"null", "bare", "live", "freed"}
  BY <1>1, Codes DEF PropertiesCreate, Return, TypeOK
<1>7. TypeOK'
  BY <1>1, <1>2, <1>5, <1>6 DEF TypeOK
<1>8. FieldsLive' /\ Distinct' /\ NoneLost' /\ ClientsCounted'
  BY <1>1, <1>2, <1>3, <1>4, <1>5
     DEF Sound, FieldsLive, Distinct, NoneLost, ClientsCounted, Of
<1>9. IdShared' /\ StaysValid'
  <2>1. client = "live" => properties' = properties
    BY <1>1, <1>4 DEF Sound, IdShared
  <2>2. ~reused /\ clients > 0 => properties' = properties
    BY <1>1, <1>4 DEF Sound, StaysValid
  <2>. QED
    BY <1>1, <1>2, <2>1, <2>2 DEF Sound, IdShared, StaysValid, Of
<1>. QED
  BY <1>1, <1>7, <1>8, <1>9 DEF Inv, Sound, FaultOnlyByReuse

\* Steps that read NULL, or change nothing but the return code.
LEMMA IdleKeeps ==
    ASSUME Inv, fault = "none",
           UNCHANGED <<propsVars, clientVars, heapVars, reused>>,
           rc' \in Int, fault' \in {"none", "null"}
    PROVE  Inv'
<1>1. TypeOK /\ Sound
  BY DEF Inv
<1>2. UNCHANGED <<properties, field, client, clientId, clients, failures, strings,
                  freed, blocks, reused>>
  BY DEF propsVars, clientVars, heapVars
<1>3. TypeOK'
  BY <1>1, <1>2 DEF TypeOK
<1>4. Sound'
  BY <1>1, <1>2 DEF Sound, Distinct, FieldsLive, IdShared, StaysValid, NoneLost,
                    ClientsCounted, Of
<1>. QED
  BY <1>3, <1>4 DEF Inv, FaultOnlyByReuse

LEMMA PropertiesDestroyKeeps == Inv /\ PropertiesDestroy => Inv'
<1>. SUFFICES ASSUME Inv, PropertiesDestroy PROVE Inv'
  OBVIOUS
<1>. USE FieldsNameTheId
<1>1. TypeOK /\ Sound /\ fault = "none" /\ properties # "freed" /\ client # "live"
  BY DEF Inv, PropertiesDestroy, Return
<1>2. /\ UNCHANGED <<field, client, clientId, clients, failures, strings, blocks, reused>>
      /\ properties' = "freed"
      /\ freed' = freed \cup (Of(Fields \ {"clientId"}) \ {0})
  BY DEF PropertiesDestroy, clientVars, Free
<1>3. Of(Fields \ {"clientId"}) \cap freed = {}
  BY <1>1 DEF Sound, FieldsLive, Of
<1>4. fault' = "none"
  BY <1>1, <1>3 DEF PropertiesDestroy, Free, Touches
<1>5. TypeOK'
  <2>1. Of(Fields \ {"clientId"}) \ {0} \subseteq 1..strings
    BY <1>1 DEF Of, TypeOK
  <2>2. rc' \in Int
    BY Codes DEF PropertiesDestroy, Return
  <2>. QED
    BY <1>1, <1>2, <1>4, <2>1, <2>2 DEF TypeOK
<1>6. Distinct' /\ FieldsLive' /\ StaysValid' /\ ClientsCounted'
  BY <1>1, <1>2 DEF Sound, Distinct, FieldsLive, StaysValid, ClientsCounted, Of
<1>7. IdShared'
  BY <1>1, <1>2 DEF Sound, IdShared
<1>8. NoneLost'
  <2>. SUFFICES ASSUME NEW s \in 1..strings, s \notin freed'
                PROVE  s \in Of(Fields) /\ s = field["clientId"]
    BY <1>2 DEF NoneLost, Of
  <2>1. s \in Of(Fields)
    BY <1>1, <1>2 DEF Sound, NoneLost
  <2>2. s \notin Of(Fields \ {"clientId"})
    BY <1>2
  <2>. QED
    BY <2>1, <2>2 DEF Of
<1>. QED
  BY <1>4, <1>5, <1>6, <1>7, <1>8 DEF Inv, Sound, FaultOnlyByReuse

\* While the strings of the properties are read, only the client id of a
\* client that is gone can be a freed one, and then the properties are used
\* again.
LEMMA FieldsRead ==
    ASSUME Inv, fault = "none", properties # "freed", Touches(Of(Fields))
    PROVE  /\ fault' \in {"none", "freed"}
           /\ fault' = "freed" => client = "freed" /\ clients > 0
           /\ fault' = "none" => client # "freed"
<1>. USE FieldsNameTheId
<1>1. TypeOK /\ Sound
  BY DEF Inv
<1>2. client = "freed" => field["clientId"] \in Of(Fields) \cap freed
  BY <1>1 DEF Sound, IdShared, Of
<1>3. Of(Fields) \cap freed # {} => client = "freed"
  BY <1>1 DEF Sound, FieldsLive, Of
<1>4. client = "freed" => clients > 0
  BY <1>1 DEF Sound, IdShared, TypeOK
<1>. QED
  BY <1>2, <1>3, <1>4 DEF Touches

LEMMA ClientCreateKeeps == Inv /\ ClientCreate => Inv'
<1>. SUFFICES ASSUME Inv, ClientCreate PROVE Inv'
  OBVIOUS
<1>. USE FieldsNameTheId
<1>1. /\ TypeOK /\ Sound /\ fault = "none" /\ properties # "freed" /\ client # "live"
      /\ UNCHANGED <<properties, field, strings, freed>>
  BY DEF Inv, ClientCreate, Return, propsVars
<1>2. CASE /\ ~Valid /\ Return(VEIDES_RC_NULL_PARAM)
           /\ Touches(Of(Fields)) \/ UNCHANGED fault
           /\ UNCHANGED <<clientVars, blocks, reused>>
  <2>1. clients > 0 => reused
    BY <1>1, <1>2 DEF Sound, StaysValid, Valid, TypeOK
  <2>2. fault' \in {"none", "freed"} /\ (fault' = "freed" => reused)
    BY <1>1, <1>2, <2>1, FieldsRead
  <2>3. UNCHANGED <<client, clientId, clients, failures, blocks, reused>>
    BY <1>2 DEF clientVars
  <2>4. TypeOK'
    BY <1>1, <1>2, <2>2, <2>3, Codes DEF TypeOK, Return
  <2>5. Sound'
    BY <1>1, <2>3 DEF Sound, Distinct, FieldsLive, IdShared, StaysValid, NoneLost,
                      ClientsCounted, Of
  <2>. QED
    BY <2>2, <2>3, <2>4, <2>5 DEF Inv, FaultOnlyByReuse
<1>3. CASE /\ Valid /\ Return(VEIDES_RC_SUCCESS) /\ Touches(Of(Fields))
           /\ client' = "live" /\ clientId' = field["clientId"] /\ clients' = clients + 1
           /\ blocks' = [blocks EXCEPT !.clients = @ + 1]
           /\ reused' = (reused \/ clients > 0)
           /\ UNCHANGED failures
  <2>1. /\ fault' \in {"none", "freed"} /\ (fault' = "freed" => reused')
        /\ fault' = "none" => client = "null"
    BY <1>1, <1>3, FieldsRead DEF TypeOK
  <2>2. TypeOK'
    BY <1>1, <1>3, <2>1, Codes DEF TypeOK, Return
  <2>3. ASSUME fault' = "none" PROVE Sound'
    <3>1. client = "null" /\ clients = 0
      BY <1>1, <2>1, <2>3 DEF Sound, IdShared
    <3>2. field["clientId"] # 0 /\ properties = "live" /\ 0 \notin Of(Fields)
      BY <1>3 DEF Valid, Of
    <3>3. Distinct' /\ FieldsLive' /\ NoneLost'
      BY <1>1, <1>3, <3>1 DEF Sound, Distinct, FieldsLive, NoneLost, Of
    <3>4. IdShared' /\ StaysValid'
      BY <1>1, <1>3, <3>1, <3>2 DEF IdShared, StaysValid, Of
    <3>5. ClientsCounted'
      BY <1>1, <1>3, <3>1 DEF Sound, ClientsCounted, TypeOK
    <3>. QED
      BY <3>3, <3>4, <3>5 DEF Sound
  <2>. QED
    BY <2>1, <2>2, <2>3 DEF Inv, FaultOnlyByReuse
<1>4. CASE /\ Valid /\ Return(MQTTASYNC_FAILURE) /\ Touches(Of(Fields))
           /\ failures' = failures + 1
           /\ blocks' = [blocks EXCEPT !.clients = @ + 1]
           /\ reused' = (reused \/ clients > 0)
           /\ UNCHANGED <<client, clientId, clients>>
  <2>1. fault' \in {"none", "freed"} /\ (fault' = "freed" => reused')
    BY <1>1, <1>4, FieldsRead
  <2>2. TypeOK'
    BY <1>1, <1>4, <2>1, Codes DEF TypeOK, Return
  <2>3. Distinct' /\ FieldsLive' /\ NoneLost' /\ IdShared' /\ StaysValid'
    BY <1>1, <1>4 DEF Sound, Distinct, FieldsLive, NoneLost, IdShared, StaysValid, Of
  <2>4. ClientsCounted'
    BY <1>1, <1>4 DEF Sound, ClientsCounted, TypeOK
  <2>. QED
    BY <2>1, <2>2, <2>3, <2>4 DEF Inv, Sound, FaultOnlyByReuse
<1>. QED
  BY <1>2, <1>3, <1>4 DEF ClientCreate

LEMMA ClientUseKeeps == Inv /\ ClientUse => Inv'
<1>. SUFFICES ASSUME Inv, ClientUse PROVE Inv'
  OBVIOUS
<1>1. /\ TypeOK /\ Sound /\ fault = "none" /\ client = "live"
      /\ UNCHANGED <<properties, field, client, clientId, clients, failures, strings,
                     freed, blocks, reused>>
  BY DEF Inv, ClientUse, Return, propsVars, clientVars, heapVars
<1>2. Of(Fields) \cap freed = {}
  BY <1>1 DEF Sound, FieldsLive, IdShared, Of
<1>3. clientId \in freed => reused
  BY <1>1, <1>2, FieldsNameTheId DEF Sound, IdShared, Of
<1>4. fault' \in {"none", "freed"} /\ (fault' = "freed" => reused)
  BY <1>1, <1>2, <1>3 DEF ClientUse, Touches
<1>5. TypeOK'
  BY <1>1, <1>4, Codes DEF TypeOK, ClientUse, Return
<1>6. Sound'
  BY <1>1 DEF Sound, Distinct, FieldsLive, IdShared, StaysValid, NoneLost,
              ClientsCounted, Of
<1>. QED
  BY <1>1, <1>4, <1>5, <1>6 DEF Inv, FaultOnlyByReuse

LEMMA ClientDestroyKeeps == Inv /\ ClientDestroy => Inv'
<1>. SUFFICES ASSUME Inv, ClientDestroy PROVE Inv'
  OBVIOUS
<1>. USE FieldsNameTheId
<1>1. /\ TypeOK /\ Sound /\ fault = "none" /\ client = "live" /\ client' = "freed"
      /\ UNCHANGED <<properties, field, clientId, clients, failures, strings, reused>>
      /\ blocks' = [blocks EXCEPT !.clients = @ - 1]
  BY DEF Inv, ClientDestroy, Return, propsVars
<1>2. clientId \in 1..strings /\ properties = "live"
  BY <1>1 DEF Sound, IdShared, TypeOK
<1>3. freed' = freed \cup {clientId}
  BY <1>2 DEF ClientDestroy, Free
<1>4. /\ fault' \in {"none", "freed"} /\ (fault' = "freed" => clientId \in freed)
      /\ fault' = "none" => clientId \notin freed
  BY <1>1 DEF ClientDestroy, Free, Touches
<1>5. clientId \in freed => reused
  <2>1. field["clientId"] \notin freed
    BY <1>1 DEF Sound, FieldsLive, IdShared
  <2>. QED
    BY <1>1, <2>1 DEF Sound, IdShared
<1>6. blocks.clients = failures + 1 /\ blocks'.clients = failures
  BY <1>1 DEF Sound, ClientsCounted, TypeOK
<1>7. TypeOK'
  BY <1>1, <1>2, <1>3, <1>4, <1>6, Codes DEF TypeOK, ClientDestroy, Return
<1>8. ASSUME fault' = "none" PROVE Sound'
  <2>1. clientId = field["clientId"]
    BY <1>1, <1>4, <1>8 DEF Sound, IdShared
  <2>2. FieldsLive'
    BY <1>1, <1>3, <2>1 DEF Sound, FieldsLive, Distinct, TypeOK, IdShared
  <2>3. IdShared'
    BY <1>1, <1>3, <2>1 DEF Sound, IdShared
  <2>4. Distinct' /\ ClientsCounted'
    BY <1>1, <1>6 DEF Sound, Distinct, ClientsCounted, TypeOK
  <2>5. StaysValid'
    BY <1>1 DEF Sound, StaysValid, Of
  <2>6. NoneLost'
    BY <1>1, <1>3 DEF Sound, NoneLost, Of
  <2>. QED
    BY <2>2, <2>3, <2>4, <2>5, <2>6 DEF Sound
<1>. QED
  BY <1>1, <1>4, <1>5, <1>7, <1>8 DEF Inv, FaultOnlyByReuse

-----------------------------------------------------------------------------
(* The theorems                                                            *)

LEMMA StepInv == Inv /\ [Next]_vars => Inv'
<1>. SUFFICES ASSUME Inv, [Next]_vars PROVE Inv'
  OBVIOUS
<1>1. CASE PropertiesCreate
  BY <1>1, PropertiesCreateKeeps
<1>2. CASE SetPropertyRefused
  BY <1>2, IdleKeeps, Codes DEF SetPropertyRefused, Return
<1>3. CASE SetPropertyBare \/ PropertiesDestroyNull
  <2>1. ReadsNull
    BY <1>3 DEF SetPropertyBare, PropertiesDestroyNull
  <2>2. rc \in Int
    BY DEF Inv, TypeOK
  <2>. QED
    BY <2>1, <2>2, IdleKeeps DEF ReadsNull
<1>4. CASE \E f \in Fields : SetProperty(f)
  <2>1. PICK f \in Fields : SetProperty(f)
    BY <1>4
  <2>2. Replaces({f})
    BY <2>1, SetPropertyReplaces DEF Inv
  <2>. QED
    BY <2>2, ReplacesKeeps
<1>5. CASE \E fs \in SUBSET Fields : SetPropertiesFromEnv(fs)
  BY <1>5, FromEnvReplaces, ReplacesKeeps DEF Inv
<1>6. CASE PropertiesDestroy
  BY <1>6, PropertiesDestroyKeeps
<1>7. CASE ClientCreate
  BY <1>7, ClientCreateKeeps
<1>8. CASE ClientUse
  BY <1>8, ClientUseKeeps
<1>9. CASE ClientDestroy
  BY <1>9, ClientDestroyKeeps
<1>10. CASE UNCHANGED vars
  BY <1>10 DEF vars, propsVars, clientVars, heapVars, Inv, TypeOK, FaultOnlyByReuse,
               Sound, Distinct, FieldsLive, IdShared, StaysValid, NoneLost,
               ClientsCounted, Of
<1>. QED
  BY <1>1, <1>2, <1>3, <1>4, <1>5, <1>6, <1>7, <1>8, <1>9, <1>10 DEF Next

LEMMA Invariant == Spec => []Inv
BY InitInv, StepInv, PTL DEF Spec

\* Every variable keeps its type: fields and client point to strings that were
\* allocated, and only those are freed.
THEOREM TypeCorrect == Spec => []TypeOK
<1>1. Inv => TypeOK
  BY DEF Inv
<1>. QED
  BY <1>1, Invariant, PTL

\* Freed memory is touched only by an application that changed or gave away
\* properties after it had made a client of them.
THEOREM ReuseIsTheFault == Spec => []FaultOnlyByReuse
<1>1. Inv => FaultOnlyByReuse
  BY DEF Inv
<1>. QED
  BY <1>1, Invariant, PTL

\* No string is lost but the client id of properties that never had a client,
\* and no client but those Paho refused.
THEOREM LostIsKnown == Spec => []OnlyTheseLost
<1>1. Inv => OnlyTheseLost
  <2>. SUFFICES ASSUME Inv, fault = "none"
                PROVE  /\ Lost # {} => Lost = {field["clientId"]} /\ clients = 0
                                                /\ properties = "freed"
                       /\ blocks.clients = failures + (IF client = "live" THEN 1 ELSE 0)
    BY DEF OnlyTheseLost
  <2>1. Sound /\ TypeOK
    BY DEF Inv
  <2>2. \A s \in Lost : s = field["clientId"] /\ properties = "freed" /\ clients = 0
    <3>. SUFFICES ASSUME NEW s \in Lost
                  PROVE  s = field["clientId"] /\ properties = "freed" /\ clients = 0
      OBVIOUS
    <3>1. s \in 1..strings /\ s \notin freed /\ s \in Of(Fields) /\ properties = "freed"
      BY <2>1 DEF Lost, Sound, NoneLost
    <3>2. s = field["clientId"]
      BY <2>1, <3>1 DEF Sound, NoneLost
    <3>3. client = "null"
      BY <2>1, <3>1, <3>2 DEF Sound, IdShared, TypeOK
    <3>. QED
      BY <2>1, <3>1, <3>2, <3>3 DEF Sound, IdShared
  <2>3. Lost # {} => Lost = {field["clientId"]}
    BY <2>2
  <2>. QED
    BY <2>1, <2>2, <2>3 DEF Sound, ClientsCounted
<1>. QED
  BY <1>1, Invariant, PTL
=============================================================================
