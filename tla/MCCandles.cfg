SPECIFICATION FairSpec
CONSTANTS
    Intervals <- MCIntervals
    Duration <- MCDuration
    Grace = 1
    QueueSize = 1
    MaxRetries = 2
    Limit = 2
    Skew = 1
    MaxTime = 2
    MaxTrades = 3
    MaxFaults = 2
INVARIANTS
    BarsExact
    ServedInOrder
PROPERTIES
    ClosedBarsStored
CHECK_DEADLOCK FALSE
