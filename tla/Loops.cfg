CONSTANTS
    Task = {x}
    NewDay = NewDay
    BatchLimit = 2
    MaxCalls = 2
    MaxCreations = 1
    QueryLimit = 4
    FloatLimit = 2
    MaxAnswer = 3
    MaxTriggers = 3
    MaxOthers = 1
    MaxFailures = 1
    MaxCrashes = 1
    DayLength = 4
    Refresh = 2
    BackoffBase = 1
    BackoffMax = 3
    FloatExponent = 2
    Horizon = 5
    MaxBoundaries = 2
    MaxErrors = 2
    MaxAdvance = 1
    Proc = {p1, p2, p3}
    NoProc = NoProc

SPECIFICATION MCSpec

INVARIANTS
    NoTriggerLost
    DecidedOnce
    BudgetHolds
    WokenInTime

PROPERTIES
    EveryTriggerHandled
    EveryBoundaryTicked
    TakeOver

CHECK_DEADLOCK FALSE
