SPECIFICATION Spec
CONSTANTS
    k1 = k1
    k2 = k2
    Key <- Keys
    Calls <- StoreCalls
    MaxMoves = 1
    MoveWindow = 1
    MaxCreations = 1
    CreationWindow = 1
    MaxTasks = 2
    MaxInstant = 1
    Proc = {p1, p2}
    NoProc = NoProc
    MaxLog = 6
    MaxRefusals = 1
SYMMETRY Symmetry
INVARIANTS
    ViewIsLogPrefix
PROPERTIES
    EngineImplemented
