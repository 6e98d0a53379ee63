SPECIFICATION Spec
CONSTANTS
    TableKeys = {1, 2, 3, 4, 5, 6, 7, 8}
    IndexKeys = {}
    ShortRecords = {a}
    LongRecords = {}
    KeyPks = {7}
    ShortSize = 2
    LongSize = 2
    PageSize = 54
    FileHeader = 4
    MaxPages = 20
    Reserve = 3
    MaxTrees = 1
    Idle = Idle
    NoValue = NoValue
INVARIANTS
    WellLinked
    EveryPageInOneTree
    EveryEntryIsFound
    SeparatorIsLargestOnItsLeft
PROPERTIES
    InsertReturns
    ImplementsKeyedStore
