CONSTANTS
    Inserters = {p1}
    Scanners = {s1}
    Vacuum = v
    Nobody = nobody
    NumBlocks = 12
    Capacity = 3
    Wide = {5}
    HasSubtypeDiff = TRUE
    MaxDeaths = 0
    MaxVacuums = 2
    TupleKey <- FlatKeys
    DeadTuples <- FlatDead
    Queries <- FlatQueries
    InitPages <- FlatPages
    InitFsm <- FlatFsm
SPECIFICATION Spec
INVARIANTS ScanComplete NoTupleTwice DeadTuplesRemoved PlacesOnLivePage KillsWhatWasSeen
