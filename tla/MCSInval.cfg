SPECIFICATION FairSpec
CONSTANTS
    MaxBackends = 2
    MAXNUMMESSAGES = 3
    MSGNUMWRAPAROUND = 3
    CLEANUP_MIN = 1
    CLEANUP_QUANTUM = 1
    SIG_THRESHOLD = 1
    WRITE_QUANTUM = 1
    MAXINVALMSGS = 2
    Batches = {2}
    MaxSent = 4
    MaxDepth = 2
INVARIANTS
    QueueSound
    NoLostWakeup
    NothingDropped
    ReceiveGuarantee
PROPERTIES
    ImplementsInvalQueue
    SenderFinishes
CHECK_DEADLOCK FALSE
