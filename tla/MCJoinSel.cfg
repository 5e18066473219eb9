CONSTANTS
    IntMax = 511
    WeightInv = 20
    Vals = {0, 1, 3, 20, 41, 60, 97, 100}
    Unbounded = TRUE
    Calls <- MCCalls
SPECIFICATION Spec
INVARIANTS LowFindsOverlap SumOverIntervals SameGridDiagonal
PROPERTY SidesExchangeable
