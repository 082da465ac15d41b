SPECIFICATION MessagesFairSpec
CONSTANTS
    ActionTopic = ActionTopic
    MethodTopic = MethodTopic
    FailureCodes <- MCRefusals
    BrokerRefuses = {}
    MaxDrops = 1
    MaxPolls = 2
    MaxCalls = 2
    Names = {n}
    NoName = NoName
    MaxMessages = 1
    MaxRegistered = 1
INVARIANTS
    MessagesTypeOK
    UnhandledHadNoHandler
PROPERTIES
    ImplementsSession
    LostOnlyInWindow
    MessagesDispatched
    CallsReturnWithoutCallbacks
CHECK_DEADLOCK FALSE
