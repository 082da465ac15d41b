SPECIFICATION FairSpec
CONSTANTS
    App = app
    Paho = paho
    Handlers = {h1, h2}
    NoHandler = NoHandler
    Nobody = Nobody
    Calling = {h1}
    Levels = {0, 1}
    MaxMessages = 3
INVARIANTS
    CallsAHandler
    TornOnlyIfShared
PROPERTIES
    MutexGivenBack
CHECK_DEADLOCK FALSE
