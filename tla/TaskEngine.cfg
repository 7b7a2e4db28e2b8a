SPECIFICATION MCSpec
CONSTANTS
    Key = {k1, k2, k3}
    Calls <- EngineCalls
    MaxMoves = 1
    MoveWindow = 1
    MaxCreations = 2
    CreationWindow = 1
    MaxTasks = 3
    MaxInstant = 2
    LastInstant = 5
SYMMETRY KeySymmetry
INVARIANTS
    TypeOK
    StatusIsJustified
    MoveCap
    LineageIsAChain
    CreationLimit
    OneTaskPerKey
    HeldNotApplied
    CatchUpAgrees
