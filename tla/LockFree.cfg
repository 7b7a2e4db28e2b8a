SPECIFICATION LockSpec
CONSTANTS
    Proc = {p1, p2, p3}
    NoProc = NoProc
INVARIANTS OneScheduler
CHECK_DEADLOCK FALSE
