CONSTANTS
    IntMax = 127
    WeightInv = 20
    Null = Null
    Targets <- OneOrDefault
    DefaultTarget = 2
    Garbage = {0, 1, 39}
    Vals = {0, 1, 4}
    AnyVals = {0, 1}
    MaxRows = 4
    Samples <- MCSamples
SPECIFICATION Spec
INVARIANTS EvenlySpaced NoEmptyHistogramRange Quantiles
