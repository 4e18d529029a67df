SPECIFICATION FairSpec
CONSTANTS
    Scripts <- TestScripts
INVARIANTS
    SignalOutlivesUsers
    JoinedWhenJudged
    Inv
PROPERTIES
    VerdictIsEarned
    TestEnds
    ConformingPasses
