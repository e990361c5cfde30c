SPECIFICATION Spec
CONSTANTS
    OrderIds = {1, 2, 3}
    Prices = {1, 2}
    MaxQty = 2
    Times = {0, 1}
    MaxSeq = 4
INVARIANTS
    BookUncrossed
    MapAgreesWithLevels
    QuantityConserved
    MakerOncePerCommand
    FillsFollowPriority
PROPERTIES
    GoneForGood
CHECK_DEADLOCK FALSE
