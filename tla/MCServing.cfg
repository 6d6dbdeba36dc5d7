SPECIFICATION FairSpec
CONSTANTS
    TokenLength <- MCTokenLength
    Raws <- MCRaws
INVARIANTS
    TypeOK
    ServesConnected
    EveryAccountRouted
    SurfacesSeparate
    NoEarlyStop
    ShutdownReaches
PROPERTIES
    StartupEnds
    ShutdownEnds
