SPECIFICATION FileSpec
CONSTANTS
    TableKeys = {5, 65}
    IndexKeys = {25, 65}
    ShortRecords = {a}
    LongRecords = {}
    KeyPks = {7}
    ShortSize = 2
    LongSize = 2
    PageSize = 52
    FileHeader = 2
    MaxPages = 11
    Reserve = 3
    MaxTrees = 2
    Idle = Idle
    NoValue = NoValue
    StartFiles <- MCStartFiles
    MaxCrashes = 1
    None = None
CHECK_DEADLOCK FALSE
INVARIANTS
    FileIsTheNodes
    PointersStayInFile
    CrashCostsOneSplit
    ReachablePagesFormTrees
    ReachableEntriesAreFound
PROPERTIES
    CallReturns
