SPECIFICATION FairSpec
CONSTANTS
    Streams = {"match", "trade"}
    Workers = {1, 2}
    BatchSize = 2
    SegmentMax = 2
    PowerLoss = FALSE
    MaxRecords = 3
    MaxFailures = 1
    MaxCrashes = 1
INVARIANTS
    NothingSkipped
    DeliveredInOrder
PROPERTIES
    EventsDelivered
CHECK_DEADLOCK FALSE
