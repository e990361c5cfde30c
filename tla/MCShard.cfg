SPECIFICATION FairSpec
CONSTANTS
    Symbols = {"BTC", "ETH"}
    OrderIds = {1, 2}
    SymbolOf <- MCSymbolOf
    Invalid = {2}
    Modes = {TRUE, FALSE}
    BatchMax = 2
    SnapshotEvery = 2
    Keep = 2
    MaxTopic = 3
    MaxCrashes = 1
    MaxStops = 1
INVARIANTS
    NoDoubleMatch
    NoCommandSkipped
    WalBeforeMemory
    OrderlyRestartsComplete
    CancelSticks
PROPERTIES
    CommandsConsumed
CONSTRAINT SmallBatches
CHECK_DEADLOCK FALSE
