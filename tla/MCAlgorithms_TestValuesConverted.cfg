CONSTANTS
    Undef = Undef
    Trap = Trap
    chunkSize = 8
    chunkReserved = 2
    Lost = Lost
    Unstored = Unstored
SPECIFICATION Spec
INVARIANTS
    TestValuesConverted
CHECK_DEADLOCK FALSE
