SPECIFICATION Spec
CONSTANTS
    MaxCommands = 3
    Shapes <- MCShapes
    Steps = {0, 1, 2}
    Window = 1
    DepthLimit = 1
    MaxFaults = 2
INVARIANTS
    MirrorAgrees
    DepthFollows
    TickerAllFollows
    WindowExact
CONSTRAINT FewAtOnce
CHECK_DEADLOCK FALSE
