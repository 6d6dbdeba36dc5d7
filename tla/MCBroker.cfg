SPECIFICATION Spec
CONSTANTS
    MAX_DECODE_PASSES = 3
    MAX_RESOURCE_LENGTH = 20
    Calls = {c1, c2}
    Idle = Idle
    Names = {"scratch"}
    Resources <- TwoResources
    Family <- MCFamily
    GateTools = {"read", "trash"}
    Stores <- MCStores
    OpSets <- MCOpSets
    Baselines <- MCBaselines
    RevocableStates = {"pending", "active"}
    Lifetimes = {1}
    HasGateway = TRUE
    MaxTime = 2
    MaxRequests = 2
SYMMETRY CallSymmetry
INVARIANTS
    TypeOK
    WriteBeforeOperate
    ExecutionJustified
    TransferAdmitted
    EnvelopeHonest
PROPERTIES
    CitesOnlyActive
    GateSpec
