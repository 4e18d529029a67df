CONSTANTS
    Undef = Undef
    Trap = Trap
    chunkSize = 8
    chunkReserved = 2
    Lost = Lost
    Unstored = Unstored
SPECIFICATION Spec
INVARIANTS
    TestsSelected
    IntegersExact
    FloatsRounded
    FloatsConverted
    TestsGenerated
    ValuesCompared
    ImagesExpected
    WorkItemsFound
    ArgumentsFound
    KernelsReturn
    TestsConfigured
CHECK_DEADLOCK FALSE
