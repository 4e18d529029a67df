CONSTANTS
    ITERATION_NUMBER = 2
    LOOP_COUNT = 2
    DATA_ITEM_COUNT = 2
    Cases <- MCCases
SPECIFICATION Spec
INVARIANTS
    ResultsExpected
    NoRace
    FbarriersDefined
PROPERTIES
    Ends
CHECK_DEADLOCK FALSE
