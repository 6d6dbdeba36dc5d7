SPECIFICATION FairSpec
CONSTANTS
    MAX_DECODE_PASSES = 3
    MAX_RESOURCE_LENGTH = 20
    Calls = {c1, c2}
    Idle = Idle
    Names = {"scratch", "other"}
    Resources <- OneResource
    Family <- MCFamily
    GateTools = {"trash"}
    Stores <- MCStores
    OpSets <- MCOpSets
    Baselines <- MCBaselines
    RevocableStates = {"pending", "active"}
    Lifetimes = {0}
    HasGateway = FALSE
    MaxTime = 2
    MaxRequests = 2
PROPERTY Answered
