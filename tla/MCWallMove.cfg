SPECIFICATION Spec
CONSTANTS
    MAX_DECODE_PASSES = 3
    MAX_RESOURCE_LENGTH = 30
    ScopeTokens <- MCMoveTokens
    RequestTokens <- MCMoveTokens
    MaxTokens = 3
INVARIANT MoveLands
