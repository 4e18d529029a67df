SPECIFICATION FairSpec
CONSTANTS
    Tests <- AllTests
    MaxLoop = 2
    WavesPerGroup = 3
INVARIANTS
    HappensBefore
    SyncedAfterWrite
    GroupPasses
PROPERTY
    KernelEnds
