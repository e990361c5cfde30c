SPECIFICATION PushSpec
CONSTANTS
    r1 = r1
    m2 = m2
    r2 = r2
    m1 = m1
    Conns = {r1, r2, m1, m2}
    MarketMakers = {m1, m2}
    Channels = {"ticker:A", "ticker:B", "ticker@all:USDT"}
    Prefix <- MCPrefix
    Symbol <- MCSymbol
    Requests <- MCRequests
    RetailMax = 1
    MarketMakerMax = 3
    MaxSymbols = 1
    SendSize = 1
    MaxFrames = 2
    MaxRequests = 3
    MaxFailures = 1
INVARIANTS
    ConnectionLimit
    NothingMissed
CONSTRAINT HandshakesOrRequests
CHECK_DEADLOCK FALSE
