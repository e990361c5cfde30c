SPECIFICATION Spec
CONSTANTS
    Symbols = {"BTC", "ETH"}
    OrderIds = {1, 2}
    SymbolOf <- MCSymbolOf
    Invalid = {}
    Modes = {FALSE}
    BatchMax = 1
    SnapshotEvery = 2
    Keep = 2
    MaxTopic = 3
    MaxCrashes = 1
    MaxStops = 0
INVARIANTS
    RecoveredBooksComplete
CHECK_DEADLOCK FALSE
