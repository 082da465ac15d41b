-------------------------------- MODULE Facts --------------------------------
(***************************************************************************)
(* The array of facts (VeidesFacts) that the application creates, fills,   *)
(* sends and destroys, with the memory its parts are given.                *)
(*                                                                         *)
(* The array object, its array of pointers and each fact are all requested *)
(* with the size of one pointer.  Memory is counted in words of that size: *)
(* a block so requested holds Granted words, and what is written past them *)
(* may destroy anything.                                                   *)
(***************************************************************************)
EXTENDS Sequences, FiniteSets, VeidesRC

CONSTANTS
    Data,       \* a fact's name and value, as the application gives them
    Granted,    \* words the allocator gives for one (glibc on 64 bits: 3)
    MaxFacts,   \* bound: facts added to one array
    MaxArrays   \* bound: arrays created

ASSUME GrantedIsPositive == Granted \in Nat \ {0}
ASSUME FactBoundsAreNats == MaxFacts \in Nat /\ MaxArrays \in Nat

VARIABLES
    handle,     \* the application's pointer: "null" or "live"
    facts,      \* what entries points to, in order
    status,     \* "ok", "overrun" once past a block, "crashed"
    blocks,     \* live heap blocks of each kind
    arrays,     \* arrays created
    rc,         \* the code returned last
    sent,       \* what the last sendFacts published, and what cJSON kept from it
    added,      \* history: what addFact has accepted since create
    destroyed   \* history: facts in the arrays destroyed, and those arrays

vars == <<handle, facts, status, blocks, arrays, rc, sent, added, destroyed>>

\* sizeof(VeidesFacts) and sizeof(VeidesFact), two pointers or a pointer and
\* an int, in words.
StructWords == 2

NoBlocks == [object |-> 0, entries |-> 0, fact |-> 0, string |-> 0]

\* strdup gives NULL when memory is short: name and value tell whether the
\* copies are there.
Fact(d, name, value) == [data |-> d, name |-> name, value |-> value]
Copies(s) == Cardinality({i \in DOMAIN s : s[i].name})
                 + Cardinality({i \in DOMAIN s : s[i].value})

\* What sendFacts leaves: the facts in the payload, those whose copy or key cJSON
\* had no memory for, by position, and whether the payload was printed at all.
Sending(published, refused, printed) ==
    [facts |-> published, refused |-> refused, printed |-> printed]
Nothing == Sending({}, {}, FALSE)

Init ==
    /\ handle = "null"
    /\ facts = <<>>
    /\ status = "ok"
    /\ blocks = NoBlocks
    /\ arrays = 0
    /\ rc = VEIDES_RC_SUCCESS
    /\ sent = Nothing
    /\ added = <<>>
    /\ destroyed = [facts |-> 0, arrays |-> 0]

\* A write of the words up to last of a block.
Write(last) == status' = IF last > Granted THEN "overrun" ELSE status

\* VeidesAgentClientFacts_create.  count, in the second word, is stored.
Create ==
    /\ status = "ok" /\ arrays < MaxArrays
    /\ arrays' = arrays + 1
    /\ IF handle = "live"
       THEN rc' = VEIDES_RC_INVALID_HANDLE /\ UNCHANGED <<handle, facts, status, blocks, added>>
       ELSE \/ rc' = VEIDES_RC_NOMEM /\ UNCHANGED <<handle, facts, status, blocks, added>>
            \/ /\ handle' = "live"
               /\ facts' = <<>> /\ added' = <<>>
               /\ Write(StructWords)
               /\ blocks' = [blocks EXCEPT !.object = @ + 1]
               /\ rc' = VEIDES_RC_SUCCESS
    /\ sent' = Nothing
    /\ UNCHANGED destroyed

\* Mutant: the entry after the last is written too, to end the array.
AddFactTerminated(d) ==
    /\ status = "ok" /\ handle = "live" /\ Len(added) < MaxFacts
    /\ facts' = Append(facts, Fact(d, TRUE, TRUE)) /\ added' = Append(added, d)
    /\ Write(Len(facts) + 2)
    /\ sent' = Nothing
    /\ UNCHANGED <<handle, blocks, arrays, rc, destroyed>>

\* VeidesAgentClientFacts_addFact.  realloc to the size it has leaves the
\* array where it is.
AddFact(d) ==
    /\ status = "ok" /\ handle = "live" /\ Len(added) < MaxFacts
    /\ \/ rc' = VEIDES_RC_NOMEM /\ UNCHANGED <<facts, status, blocks, added>>
       \/ \E name, value \in BOOLEAN :
             /\ facts' = Append(facts, Fact(d, name, value))
             /\ added' = Append(added, d)
             /\ Write(IF StructWords > Len(facts) + 1 THEN StructWords ELSE Len(facts) + 1)
             /\ blocks' = [blocks EXCEPT
                    !.entries = IF facts = <<>> THEN @ + 1 ELSE @,
                    !.fact    = @ + 1,
                    !.string  = @ + Copies(<<Fact(d, name, value)>>)]
             /\ rc' = VEIDES_RC_SUCCESS
    /\ sent' = Nothing
    /\ UNCHANGED <<handle, arrays, destroyed>>

\* malloc of the fact fails and its NULL is written through, or the handle is
\* NULL, as in the sample when create has failed.
AddFactFaults ==
    /\ status = "ok" /\ Len(added) < MaxFacts
    /\ status' = "crashed"
    /\ UNCHANGED <<handle, facts, blocks, arrays, rc, sent, added, destroyed>>

\* The facts that cJSON can hold: cJSON_CreateString fails for a NULL value and
\* cJSON_AddItemToObject for a NULL name, as each may for want of memory.  The
\* first is skipped and the second is not looked at.
Copied(refused)  == {i \in DOMAIN facts \ refused : facts[i].name /\ facts[i].value}
Payload(refused) == {facts[i] : i \in Copied(refused)}

\* Mutant: the loop breaks off where it should go on.
SendFactsBreaks ==
    /\ status = "ok" /\ handle = "live"
    /\ sent' = Sending({facts[i] : i \in {j \in Copied({}) : 1..j \subseteq Copied({})}}, {}, TRUE)
    /\ rc' = VEIDES_RC_SUCCESS
    /\ UNCHANGED <<handle, facts, status, blocks, arrays, added, destroyed>>

\* VeidesAgentClient_sendFacts.  cJSON_CreateObject may fail, and publish may.  A
\* payload that cannot be printed is published as NULL, an empty message.
SendFacts ==
    /\ status = "ok"
    /\ IF handle = "null"
       THEN rc' = VEIDES_RC_NULL_PARAM /\ sent' = Nothing
       ELSE \/ rc' \in {VEIDES_RC_NOMEM, VEIDES_RC_NOT_CONNECTED} /\ sent' = Nothing
            \/ /\ rc' = VEIDES_RC_SUCCESS
               /\ \E refused \in SUBSET DOMAIN facts :
                     \/ sent' = Sending(Payload(refused), refused, TRUE)
                     \/ sent' = Sending({}, refused, FALSE)
    /\ UNCHANGED <<handle, facts, status, blocks, arrays, added, destroyed>>

\* Mutant: names and values are freed, and the values once more.
DestroyTwice ==
    /\ status = "ok" /\ handle = "live"
    /\ handle' = "null" /\ facts' = <<>>
    /\ blocks' = [blocks EXCEPT !.object = @ - 1, !.string = @ - 2 * Copies(facts)]
    /\ sent' = Nothing
    /\ UNCHANGED <<status, arrays, rc, added, destroyed>>

\* Mutant: the values are forgotten.
DestroyNames ==
    /\ status = "ok" /\ handle = "live"
    /\ handle' = "null" /\ facts' = <<>>
    /\ blocks' = [blocks EXCEPT !.object = @ - 1,
                                !.string = @ - Cardinality({i \in DOMAIN facts : facts[i].name})]
    /\ destroyed' = [facts |-> destroyed.facts + Len(facts),
                     arrays |-> destroyed.arrays + (IF facts = <<>> THEN 0 ELSE 1)]
    /\ sent' = Nothing
    /\ UNCHANGED <<status, arrays, rc, added>>

\* VeidesAgentClientFacts_destroy; the application drops its pointer.  Names
\* and values are freed, and the object.
Destroy ==
    /\ status = "ok" /\ handle = "live"
    /\ handle' = "null" /\ facts' = <<>>
    /\ blocks' = [blocks EXCEPT !.object = @ - 1, !.string = @ - Copies(facts)]
    /\ destroyed' = [facts |-> destroyed.facts + Len(facts),
                     arrays |-> destroyed.arrays + (IF facts = <<>> THEN 0 ELSE 1)]
    /\ rc' = VEIDES_RC_SUCCESS
    /\ sent' = Nothing
    /\ UNCHANGED <<status, arrays, added>>

\* A NULL handle is reported, and then read.
DestroyNull ==
    /\ status = "ok" /\ handle = "null"
    /\ status' = "crashed"
    /\ rc' = VEIDES_RC_INVALID_HANDLE
    /\ UNCHANGED <<handle, facts, blocks, arrays, sent, added, destroyed>>

Next ==
    \/ Create \/ SendFacts \/ Destroy \/ DestroyNull \/ AddFactFaults
    \/ \E d \in Data : AddFact(d)

Spec == Init /\ [][Next]_vars

-----------------------------------------------------------------------------
(* Properties                                                              *)

FactRecords == [data : Data, name : BOOLEAN, value : BOOLEAN]
Sendings    == [facts : SUBSET FactRecords, refused : SUBSET Nat, printed : BOOLEAN]

TypeOK ==
    /\ handle \in {"null", "live"}
    /\ facts \in Seq(FactRecords) /\ sent \in Sendings
    /\ status \in {"ok", "overrun", "crashed"}
    /\ blocks \in [{"object", "entries", "fact", "string"} -> Nat]
    /\ arrays \in Nat
    /\ rc \in Int
    /\ added \in Seq(Data)
    /\ destroyed \in [facts : Nat, arrays : Nat]

\* create, addFact and destroy write past a block only if the allocator gives
\* a one-pointer request less than a structure, or once the array holds more
\* facts than the words it was given: up to there a program that calls them
\* in any order, with any of them failing, is safe.
OverrunPastGranted ==
    status = "overrun" => Granted < StructWords \/ Len(facts) > Granted

\* However calls succeed and fail, names, values and the array object are
\* freed exactly once; what stays is the array of pointers of each array
\* destroyed, and every fact that was in one.
OnlyContainersLeak ==
    status = "ok" =>
        /\ blocks.object  = IF handle = "live" THEN 1 ELSE 0
        /\ blocks.string  = Copies(facts)
        /\ blocks.fact    = destroyed.facts + Len(facts)
        /\ blocks.entries = destroyed.arrays + (IF facts = <<>> THEN 0 ELSE 1)

\* Whenever sendFacts succeeds, the payload holds facts accepted since create,
\* each whole; and of those facts one is missing only if its own name or value
\* was not copied, by addFact or by cJSON, or if the message is empty: no fact
\* takes another with it, and none of an array destroyed before comes back.
PayloadTraced ==
    [][SendFacts /\ handle = "live" /\ rc' = VEIDES_RC_SUCCESS =>
          /\ \A f \in sent'.facts :
                f.name /\ f.value /\ \E i \in DOMAIN added : added[i] = f.data
          /\ sent'.printed =>
                \A i \in DOMAIN added :
                    \/ \E f \in sent'.facts : f.data = added[i]
                    \/ ~facts[i].name \/ ~facts[i].value \/ i \in sent'.refused]_vars
=============================================================================
