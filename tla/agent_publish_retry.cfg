SPECIFICATION FairSpec
CONSTANTS
    ActionTopic = ActionTopic
    MethodTopic = MethodTopic
    FailureCodes <- MCRefusals
    BrokerRefuses = {}
    MaxDrops = 0
    MaxPolls = 2
    MaxCalls = 2
PROPERTIES
    PublishReturns
CHECK_DEADLOCK FALSE
