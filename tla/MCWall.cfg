SPECIFICATION Spec
CONSTANTS
    MAX_DECODE_PASSES = 3
    MAX_RESOURCE_LENGTH = 18
    ScopeTokens <- MCScopeTokens
    RequestTokens <- MCRequestTokens
    MaxTokens = 3
INVARIANTS
    NodesWellFormed
    EncodingBlind
    SubtreeClosed
    GraphPrefixBlind
    AddressesAsSpelled
    OperatesOnJudged
