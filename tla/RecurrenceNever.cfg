CONSTANTS
    Requests <- MCNeverRequests
    Zones <- MCZones
    FirstYear = 2027
    FirstWeekday = 4
    DayLength = 24
    Through = 430
    MaxCandidates = 20
    t1 = t1
    t2 = t2
    Template <- MCTemplate
    DatesOf <- MCDatesOf
    DayBegins <- MCDayBegins
    StartAt <- MCStartAt
    BreaksFrom <- MCBreaksFrom
    FirstDay <- MCFirstDay
    Span = 5
    Horizon = 4
    Lookback = 1
    LastDate = 4
    MaxInstant = 6
    MaxStepsBack = 1
    MaxFinished = 1

SPECIFICATION MCSpec

INVARIANT ExpansionIsBounded

CHECK_DEADLOCK FALSE
