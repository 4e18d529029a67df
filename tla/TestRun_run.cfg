SPECIFICATION Spec
CONSTANTS
    Paths = {p, q}
    NoPath = none
    MaxSpecs = 4
INVARIANTS
    SummaryMatchesLog
    OwnOutput
CHECK_DEADLOCK FALSE
