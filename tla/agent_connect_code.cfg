SPECIFICATION Spec
CONSTANTS
    ActionTopic = ActionTopic
    MethodTopic = MethodTopic
    FailureCodes <- MCFewCodes
    BrokerRefuses = {}
    MaxDrops = 0
    MaxPolls = 2
    MaxCalls = 1
INVARIANTS
    ConnectedOnlyIfAccepted
CHECK_DEADLOCK FALSE
