SPECIFICATION Spec
CONSTANTS
    Backends = {b1, b2}
    MaxChunk = 1
    Reset = reset
    MaxVersion = 3
    None = none
SYMMETRY Symm
INVARIANTS
    ObsoleteEntriesAreDoomed
    OnlyCommittedRowsSpread
    OnlyLateEntriesFail
    PlannerSeesAnnounced
