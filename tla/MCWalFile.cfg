SPECIFICATION WalSpec
CONSTANTS
    CommitModes = {TRUE, FALSE}
    SegmentMax = 3
    Tears = {"partial", "lenOnly"}
    MaxAppends = 5
    MaxRestarts = 3
INVARIANTS
    SeqIncreasingBeforeRotation
PROPERTIES
    ImplementsDurableLog
CHECK_DEADLOCK FALSE
