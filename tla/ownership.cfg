SPECIFICATION Spec
CONSTANTS
    Fields = {"clientId", "key", "host"}
    Reuse = TRUE
    MaxStrings = 5
    MaxClients = 2
INVARIANTS
    TypeOK
    FaultOnlyByReuse
    OnlyTheseLost
CHECK_DEADLOCK FALSE
