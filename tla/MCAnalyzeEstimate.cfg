CONSTANTS
    IntMax = 1023
    WeightInv = 20
    ColumnVals <- MCColumnVals
    ConstVals <- MCConstVals
    Inputs <- MCInputs
    Constants <- MCConstants
    Calls = {}
SPECIFICATION EstimateSpec
INVARIANTS NoFalseZero CertainClauses
