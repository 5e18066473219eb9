CONSTANTS
    Inserters = {p1, p2}
    Scanners = {}
    Vacuum = nobody
    Nobody = nobody
    NumBlocks = 22
    Capacity = 2
    Wide = {6}
    HasSubtypeDiff = TRUE
    MaxDeaths = 1
    MaxVacuums = 0
    TupleKey <- FullKeys
    DeadTuples = {}
    Queries = {}
    InitPages <- FullPages
    InitFsm = {}
SPECIFICATION FairSpec
INVARIANTS OneWayToEachPage KeysCover ParentRefound NoLockCycle
PROPERTIES InsertsEnd
