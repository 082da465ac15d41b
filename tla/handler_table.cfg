SPECIFICATION FairSpec
CONSTANTS
    Names = {a, b}
    NoName = NoName
    Callbacks = {cb1, cb2}
    MaxSets = 4
    MaxDispatches = 2
INVARIANTS
    TypeOK
    ReadsWrittenSlot
    FaultsOnlyIfMoved
    OneHandlerPerName
PROPERTIES
    DispatchEnds
    ImplementsRouting
CHECK_DEADLOCK FALSE
