SPECIFICATION Spec
CONSTANTS
    ActionTopic = ActionTopic
    MethodTopic = MethodTopic
    FailureCodes <- MCRefusals
    BrokerRefuses = {}
    MaxDrops = 0
    MaxPolls = 2
    MaxCalls = 2
INVARIANTS
    DisconnectOverBeforeDestroy
CHECK_DEADLOCK FALSE
