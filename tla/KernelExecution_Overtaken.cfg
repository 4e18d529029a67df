CONSTANTS
    ITERATION_NUMBER = 2
    LOOP_COUNT = 2
    DATA_ITEM_COUNT = 2
    Cases <- OvertakenCases
SPECIFICATION Spec
INVARIANTS
    ResultsExpected
CHECK_DEADLOCK FALSE
