SPECIFICATION Spec
CONSTANTS
    TokenLength <- MCTokenLength
    Raws <- PlainOnly
INVARIANT StartupFailurePropagates
