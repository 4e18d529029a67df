SPECIFICATION Spec
CONSTANTS
    Tests <- EmptyFlagTests
    MaxLoop = 2
    WavesPerGroup = 3
INVARIANT
    DataSeen
