CONSTANTS
    IntMax = 1023
    WeightInv = 20
    ColumnVals <- MCColumnVals
    ConstVals <- MCConstVals
    Calls <- MCCalls
SPECIFICATION Spec
INVARIANTS OverlapComplete LeftPrefix Probability
