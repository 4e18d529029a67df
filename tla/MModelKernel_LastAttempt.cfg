SPECIFICATION Spec
CONSTANTS
    Tests <- RelaxedAgentTests
    MaxLoop = 2
    WavesPerGroup = 3
INVARIANT
    LastAttemptSucceeds
