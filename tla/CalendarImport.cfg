SPECIFICATION ImportSpec
CONSTANTS
    Key <- MCKeys
    Calls <- MCCalls
    MaxMoves = 3
    MoveWindow = 1
    MaxCreations = 5
    CreationWindow = 1
    MaxTasks = 5
    MaxInstant = 1
    Importer = {p, q}
    Files <- MCFiles
    NoUid = "no uid"
    NoFile = NoFile
    NoCall = NoCall
    UserWindows <- MCUserWindows
    MaxUserCalls = 1
    MaxImports = 3
SYMMETRY ImporterSymmetry
INVARIANTS
    OneTaskPerEvent
    SettledIsFollowed
CHECK_DEADLOCK FALSE
