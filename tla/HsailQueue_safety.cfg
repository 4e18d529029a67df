SPECIFICATION Spec
CONSTANTS
    NoSignal = NoSignal
    NoArg = NoArg
    Signals = {s1, s2}
    KernArgs = {k1, k2}
    Size = 2
    MaxTests = 3
    MaxDispatches = 2
INVARIANTS
    PacketPointerValid
    NotLaunchedEarly
    BacklogIsLost
    CompletionIsOwn
    ErrorIsOwn
    KernargOfOwner
    Inv
PROPERTIES
    DoorbellMonotonic
    RunEnds
