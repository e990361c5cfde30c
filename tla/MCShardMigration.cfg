SPECIFICATION Spec
CONSTANTS
    p1 = p1
    p2 = p2
    Pods = {p1, p2}
    Symbols = {"hot", "cold"}
    Shards = {"A", "B"}
    Routes <- MCRoutes
    Home <- MCHome
    Orders = {o1, o2, o3}
    SymbolOf <- MCSymbolOf
    Asked <- MCAsked
    Allowed = {}
    MaxMigrations = 1
    MaxCancels = 2
    MaxStarts = 1
SYMMETRY MCSymmetry
INVARIANTS
    IndexAgrees
    OneShardMatches
    NoFalseMismatch
CONSTRAINT FewOrders
CHECK_DEADLOCK FALSE
