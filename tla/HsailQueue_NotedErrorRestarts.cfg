SPECIFICATION Spec
CONSTANTS
    NoSignal = NoSignal
    NoArg = NoArg
    Signals = {s1, s2}
    KernArgs = {k1, k2}
    Size = 2
    MaxTests = 2
    MaxDispatches = 2
INVARIANT
    NotedErrorRestarts
