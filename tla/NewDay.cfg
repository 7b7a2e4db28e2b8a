SPECIFICATION FairDaySpec
CONSTANTS
    Proc = {p1, p2}
    NoProc = NoProc
    LastDay = 4
INVARIANTS
    OneScheduler
    NewDayForward
    HandoverAgrees
PROPERTIES DayIsAnnounced
