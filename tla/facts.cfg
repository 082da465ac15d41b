SPECIFICATION Spec
CONSTANTS
    Data = {d1, d2}
    Granted = 3
    MaxFacts = 4
    MaxArrays = 2
INVARIANTS
    TypeOK
    OverrunPastGranted
    OnlyContainersLeak
PROPERTIES
    PayloadTraced
CHECK_DEADLOCK FALSE
