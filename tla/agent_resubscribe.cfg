SPECIFICATION FairSpec
CONSTANTS
    ActionTopic = ActionTopic
    MethodTopic = MethodTopic
    FailureCodes <- MCRefusals
    BrokerRefuses = {}
    MaxDrops = 1
    MaxPolls = 2
    MaxCalls = 1
PROPERTIES
    ResubscribesAfterReconnect
CHECK_DEADLOCK FALSE
