SPECIFICATION IndexFairSpec
CONSTANTS
    Sources = {"binance", "okx", "bybit"}
    SourceWeight <- MCWeight
    Honest = {"binance", "okx"}
    HonestPrices = {100, 102}
    OtherPrices = {1, 104, 200}
    Num = 3
    Den = 100
    MinSources = 1
    StaleAfter = 1
    ServeLimit = 2
    KeyTTL = 1
    MaxAge = 3
INVARIANT
    MajorityHolds
PROPERTY
    SilenceShows
CHECK_DEADLOCK FALSE
