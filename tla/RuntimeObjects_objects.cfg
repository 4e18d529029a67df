SPECIFICATION Spec
CONSTANTS
    Resources <- MCResources
    RegionLists <- MCRegionLists
    MaxTests = 2
INVARIANTS
    GivenBackOnce
    UsersGoFirst
    LosesOneBlock
    AssertionsHold
CHECK_DEADLOCK FALSE
