SPECIFICATION Spec
CONSTANTS
    Letters = {"a", "$"}
    MaxSub = 5
    MaxTopic = 3
INVARIANTS
    TypeOK
    WildcardMatchesNothing
    AgreesWithMQTT
PROPERTIES
    Terminates
CHECK_DEADLOCK FALSE
