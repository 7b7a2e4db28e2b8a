CONSTANTS
    Proc = {p1}
    Clients = {"seq", "cursor", "time"}
    Kinds = {"told", "silent", "unreadable"}
    PageSize = 2
    MaxInstant = 1
    MaxLog = 4
    Importer = {i1, i2}
    Nobody = Nobody
    MaxRows = 3

SPECIFICATION MCSpec

INVARIANTS
    WatchTellsEach
    ClientMissesOnlyWhatIsCut
    ImportIsWhole

PROPERTIES
    EveryEventTold
    NewRowsComeAfter

CHECK_DEADLOCK FALSE
