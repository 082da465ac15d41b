SPECIFICATION FairSpec
CONSTANTS
    ActionTopic = ActionTopic
    MethodTopic = MethodTopic
    FailureCodes <- MCFailureCodes
    BrokerRefuses = {ActionTopic}
    MaxDrops = 1
    MaxPolls = 2
    MaxCalls = 3
INVARIANTS
    TypeOK
    SuccessIsReported
    OwnAnswerOnQuietClient
    FlagMirrorsSession
    SubscribedThenHandled
PROPERTIES
    ClearsOnlyOwnReport
    CallsReturn
CHECK_DEADLOCK FALSE
