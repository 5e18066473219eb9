CONSTANTS
    IntMax = 63
    WeightInv = 20
    Vals <- MCVals
    MaxRows = 3
    Inputs <- MCInputs
SPECIFICATION FreqSpec
INVARIANTS FreqTypeOK SweepExact NeverUndercounts GridCovers RowMass
