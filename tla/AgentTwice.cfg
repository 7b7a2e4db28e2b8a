CONSTANTS
    Task = {x, y}
    NewDay = NewDay
    BatchLimit = 2
    MaxCalls = 2
    MaxCreations = 2
    QueryLimit = 9
    FloatLimit = 2
    MaxAnswer = 2
    MaxTriggers = 2
    MaxOthers = 0
    MaxFailures = 0
    MaxCrashes = 1

SPECIFICATION Spec

INVARIANTS
    NothingAppliedTwice

CHECK_DEADLOCK FALSE
