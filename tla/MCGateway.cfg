SPECIFICATION FairSpec
CONSTANTS
    TimelineLimit = 2
    MaxEvents = 4
INVARIANTS
    TypeOK
    HistorySkipped
    RepeatedOnlyAfterRaise
PROPERTIES
    NoneOvertaken
    DecisionsReachCore
