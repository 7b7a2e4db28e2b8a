SPECIFICATION QASpec
CONSTANTS
    Key = {k1, k2, k3, k4}
    Calls <- MCCalls
    MaxMoves = 3
    MoveWindow = 2
    MaxCreations = 5
    CreationWindow = 2
    MaxTasks = 4
    MaxInstant = 2
    Title = {a, b, c}
    NoTitle = NoTitle
    Shapes <- MCShapes
SYMMETRY TitleSymmetry
INVARIANTS
    OracleAgrees
    ReportsAreComplete
PROPERTY PastIsSettled
CHECK_DEADLOCK FALSE
