------------------------------ MODULE Ownership ------------------------------
(***************************************************************************)
(* Who owns the strings of the properties: veides_properties.c, and create *)
(* and destroy of the client, which keeps a pointer to the properties and  *)
(* its own copy of their pointer to the client id.                         *)
(*                                                                         *)
(* Strings are numbered as they are allocated, so that one that was freed  *)
(* can be told from the one that replaced it.  0 is NULL.                  *)
(***************************************************************************)
EXTENDS VeidesRC, Functions

CONSTANTS
    Fields,     \* "clientId" and some of "key", "secretKey", "host"
    Reuse,      \* whether the application goes on using the properties of a
                \* client it has created; samples/agentBasic.c does not
    MaxStrings, \* bound: strings allocated
    MaxClients  \* bound: clients created

ASSUME FieldsNameTheId == "clientId" \in Fields
ASSUME ReuseIsBoolean == Reuse \in BOOLEAN
ASSUME OwnershipBounds == MaxStrings \in Nat /\ MaxClients \in Nat

VARIABLES
    properties, \* "null", "bare" (without its two parts), "live", "freed"
    field,      \* the string each field points to
    client,     \* "null", "live", "freed"
    clientId,   \* the string client->clientId points to
    strings,    \* strings allocated so far
    freed,      \* those freed
    blocks,     \* parts of properties and clients that are live
    fault,      \* "freed" once a freed block was used or freed, "null" if
                \* NULL was read, or "none"
    rc,         \* what the last call returned
    reused,     \* history: the properties were changed, or given to a second
                \* client, after the first was created
    clients,    \* clients created
    failures    \* clients that Paho would not create

propsVars  == <<properties, field>>
clientVars == <<client, clientId, clients, failures>>
heapVars   == <<strings, freed, blocks>>
vars == <<propsVars, clientVars, heapVars, fault, rc, reused>>

Init ==
    /\ properties = "null"
    /\ field = [f \in Fields |-> 0]
    /\ client = "null" /\ clientId = 0 /\ clients = 0 /\ failures = 0
    /\ strings = 0 /\ freed = {}
    /\ blocks = [parts |-> 0, clients |-> 0]
    /\ fault = "none"
    /\ rc = VEIDES_RC_SUCCESS
    /\ reused = FALSE

Return(code) == fault = "none" /\ rc' = code

\* A step that uses or frees the strings in s.
Touches(s) == fault' = IF s \cap freed = {} THEN fault ELSE "freed"
Free(s)    == Touches(s) /\ freed' = freed \cup (s \ {0})
Of(fields) == {field[f] : f \in fields}

ReadsNull ==
    /\ fault = "none"
    /\ fault' = "null"
    /\ UNCHANGED <<propsVars, clientVars, heapVars, rc, reused>>

\* What the application may do with properties it has given to a client.
MayUse == clients > 0 => Reuse

-----------------------------------------------------------------------------
(* Properties                                                              *)

\* VeidesAgentClientProperties_create.  When the memory for a part is short,
\* the object stays, without parts, and with it a first part that was there.
PropertiesCreate ==
    /\ \/ /\ properties # "null"
          /\ Return(VEIDES_RC_INVALID_HANDLE)
          /\ UNCHANGED <<properties, blocks>>
       \/ /\ properties = "null"
          /\ \/ Return(VEIDES_RC_NOMEM) /\ UNCHANGED <<properties, blocks>>
             \/ /\ Return(VEIDES_RC_NOMEM)
                /\ properties' = "bare"
                /\ \E n \in 0..1 : blocks' = [blocks EXCEPT !.parts = n]
             \/ /\ Return(VEIDES_RC_SUCCESS)
                /\ properties' = "live"
                /\ blocks' = [blocks EXCEPT !.parts = 2]
    /\ UNCHANGED <<field, clientVars, strings, freed, fault, reused>>

\* The arguments setProperty refuses: a NULL handle, a NULL or empty name or
\* value, or a name that is no property.
SetPropertyRefused ==
    /\ \/ properties = "null" /\ Return(VEIDES_RC_INVALID_HANDLE)
       \/ properties \in {"bare", "live"}
            /\ (Return(VEIDES_RC_NULL_PARAM) \/ Return(VEIDES_RC_INVALID_PROPERTY))
    /\ UNCHANGED <<propsVars, clientVars, heapVars, fault, reused>>

\* Mutant: the string that is replaced is not freed.
SetPropertyKeeps(f) ==
    /\ properties = "live" /\ MayUse /\ strings < MaxStrings
    /\ Return(VEIDES_RC_SUCCESS)
    /\ strings' = strings + 1
    /\ field' = [field EXCEPT ![f] = strings + 1]
    /\ UNCHANGED <<properties, clientVars, freed, blocks, fault, reused>>

\* VeidesAgentClientProperties_setProperty.  It succeeds even if there is no
\* memory for the copy.
SetProperty(f) ==
    /\ properties = "live" /\ MayUse /\ strings < MaxStrings
    /\ Return(VEIDES_RC_SUCCESS)
    /\ Free({field[f]})
    /\ \/ strings' = strings + 1 /\ field' = [field EXCEPT ![f] = strings + 1]
       \/ UNCHANGED strings /\ field' = [field EXCEPT ![f] = 0]
    /\ reused' = (reused \/ clients > 0)
    /\ UNCHANGED <<properties, clientVars, blocks>>

\* VeidesAgentClientProperties_setPropertiesFromEnv, in an environment that
\* names the fields in fs.  It sets them one after the other, and goes on
\* when a copy fails; the copies are those of the fields in got.
SetPropertiesFromEnv(fs) ==
    /\ properties = "live" /\ MayUse
    /\ Return(VEIDES_RC_SUCCESS)
    /\ Free(Of(fs))
    /\ \E got \in SUBSET fs, n \in 0..MaxStrings - strings :
          \E copy \in Bijection(got, strings + 1..strings + n) :
             /\ strings' = strings + n
             /\ field' = [f \in Fields |-> IF f \in got THEN copy[f]
                                           ELSE IF f \in fs THEN 0 ELSE field[f]]
    /\ reused' = (reused \/ (fs # {} /\ clients > 0))
    /\ UNCHANGED <<properties, clientVars, blocks>>

\* The parts are read although they are NULL.
SetPropertyBare == properties = "bare" /\ ReadsNull

\* Mutant: the client id is freed as well.
PropertiesDestroyAll ==
    /\ properties \in {"bare", "live"} /\ client # "live"
    /\ Return(VEIDES_RC_SUCCESS)
    /\ Free(Of(Fields))
    /\ properties' = "freed"
    /\ UNCHANGED <<field, clientVars, strings, blocks, reused>>

\* Mutant: freePtr does not look for NULL.
PropertiesDestroyBlind ==
    /\ properties \in {"bare", "live"} /\ client # "live"
    /\ Return(VEIDES_RC_SUCCESS)
    /\ freed' = freed \cup Of(Fields \ {"clientId"})
    /\ properties' = "freed"
    /\ UNCHANGED <<field, clientVars, strings, blocks, fault, reused>>

\* VeidesAgentClientProperties_destroy, once the client is gone.  The client
\* id is not freed, nor are the two parts.
PropertiesDestroy ==
    /\ properties \in {"bare", "live"} /\ client # "live"
    /\ Return(VEIDES_RC_SUCCESS)
    /\ Free(Of(Fields \ {"clientId"}))
    /\ properties' = "freed"
    /\ UNCHANGED <<field, clientVars, strings, blocks, reused>>

\* A NULL handle is reported, and then read.
PropertiesDestroyNull == properties = "null" /\ ReadsNull

-----------------------------------------------------------------------------
(* The client                                                              *)

\* veides_properties_validate: all fields are set.  It reads the strings.
Valid == properties = "live" /\ 0 \notin Of(Fields)

\* veides_client_create.  When Paho fails, what was built is handed to
\* veides_client_destroy, which refuses it because it has no Paho handle yet.
ClientCreate ==
    /\ client # "live" /\ properties # "freed" /\ clients < MaxClients /\ MayUse
    /\ \/ /\ ~Valid
          /\ Return(VEIDES_RC_NULL_PARAM)
          /\ Touches(Of(Fields)) \/ UNCHANGED fault
          /\ UNCHANGED <<clientVars, blocks, reused>>
       \/ /\ Valid
          /\ Return(VEIDES_RC_SUCCESS)
          /\ Touches(Of(Fields))
          /\ client' = "live"
          /\ clientId' = field["clientId"]
          /\ clients' = clients + 1
          /\ blocks' = [blocks EXCEPT !.clients = @ + 1]
          /\ reused' = (reused \/ clients > 0)
          /\ UNCHANGED failures
       \/ /\ Valid /\ failures < MaxClients
          /\ Return(MQTTASYNC_FAILURE)
          /\ Touches(Of(Fields))
          /\ failures' = failures + 1
          /\ blocks' = [blocks EXCEPT !.clients = @ + 1]
          /\ reused' = (reused \/ clients > 0)
          /\ UNCHANGED <<client, clientId, clients>>
    /\ UNCHANGED <<propsVars, strings, freed>>

\* connect, which validates the properties again, and every send, which reads
\* the client id.
ClientUse ==
    /\ client = "live"
    /\ Return(VEIDES_RC_SUCCESS)
    /\ Touches(Of(Fields) \cup {clientId})
    /\ UNCHANGED <<propsVars, clientVars, heapVars, reused>>

\* veides_client_destroy.
ClientDestroy ==
    /\ client = "live"
    /\ Return(VEIDES_RC_SUCCESS)
    /\ Free({clientId})
    /\ client' = "freed"
    /\ blocks' = [blocks EXCEPT !.clients = @ - 1]
    /\ UNCHANGED <<propsVars, clientId, clients, failures, strings, reused>>

Next ==
    \/ PropertiesCreate \/ SetPropertyRefused \/ SetPropertyBare
    \/ \E f \in Fields : SetProperty(f)
    \/ \E fs \in SUBSET Fields : SetPropertiesFromEnv(fs)
    \/ PropertiesDestroy \/ PropertiesDestroyNull
    \/ ClientCreate \/ ClientUse \/ ClientDestroy

Spec == Init /\ [][Next]_vars

-----------------------------------------------------------------------------
(* Properties                                                              *)

TypeOK ==
    /\ properties \in {"null", "bare", "live", "freed"}
    /\ field \in [Fields -> 0..strings]
    /\ client \in {"null", "live", "freed"}
    /\ clientId \in 0..strings
    /\ strings \in Nat
    /\ freed \subseteq 1..strings
    /\ blocks \in [parts : 0..2, clients : Nat]
    /\ fault \in {"none", "null", "freed"}
    /\ rc \in Int
    /\ reused \in BOOLEAN
    /\ clients \in Nat /\ failures \in Nat

\* An application that sets its properties, creates one client from them and
\* leaves them alone until that client is destroyed never makes the SDK touch
\* or free a freed string, in whatever order and however often it calls the
\* rest and whichever calls fail.  Properties and client share the client id,
\* so this takes all of create, setProperty and the two destroys.
FaultOnlyByReuse == fault = "freed" => reused

\* Strings nothing points to any more that were not freed.
Lost == {s \in 1..strings :
            /\ s \notin freed
            /\ ~(properties # "freed" /\ s \in Of(Fields))
            /\ ~(client = "live" /\ s = clientId)}

\* What is leaked, after any sequence of calls that read no NULL or freed
\* memory: of strings, only a client id whose properties never had a client,
\* for only a client frees it; of clients, those that Paho refused and no
\* other, because veides_client_destroy refuses a client without Paho handle.
\* What hangs from a client object, its tables and its Paho handle, is not
\* counted here.
OnlyTheseLost ==
    fault = "none" =>
        /\ Lost # {} => Lost = {field["clientId"]} /\ clients = 0 /\ properties = "freed"
        /\ blocks.clients = failures + (IF client = "live" THEN 1 ELSE 0)
=============================================================================
