SPECIFICATION FairSpec
CONSTANTS
    Users = {"alice", "bob"}
    Request <- AllKinds
    Adjustments <- Withdrawal
    Deposit <- Funds
    Unit = 4
    Rules <- MCRules
    Reference = 3
    PageSize = 1
    BatchMax = 2
    MaxOrders = 3
    MaxCancels = 1
    MaxExtras = 1
INVARIANTS
    HoldingsFollowTrades
    OneOrderPerKey
    FundsStayFrozen
PROPERTIES
    TradesSettle
CHECK_DEADLOCK FALSE
