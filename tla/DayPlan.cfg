SPECIFICATION PlanSpec
CONSTANTS
    Key = {k1, k2, k3, k4}
    Calls <- MCCalls
    MaxMoves = 3
    MoveWindow = 4
    MaxCreations = 3
    CreationWindow = 5
    MaxTasks = 4
    MaxInstant = 5
    DayLength = 4
    NineOClock = 1
    HalfHour = 1
    MaxContext = 2
    MaxCalls = 2
    Shapes <- MCShapes
INVARIANTS
    EndedIsReplanned
    MorningIsStacked
    NoRunaway
PROPERTY PlansAreAccepted
CHECK_DEADLOCK FALSE
