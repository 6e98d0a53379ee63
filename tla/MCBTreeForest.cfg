SPECIFICATION Spec
CONSTANTS
    TableKeys = {1, 2, 3, 4}
    IndexKeys = {1, 2, 3, 4, 5}
    ShortRecords = {a}
    LongRecords = {}
    KeyPks = {7}
    ShortSize = 2
    LongSize = 2
    PageSize = 52
    FileHeader = 2
    MaxPages = 20
    Reserve = 3
    MaxTrees = 2
    Idle = Idle
    NoValue = NoValue
INVARIANTS
    TypeOK
    EveryPageInOneTree
PROPERTIES
    OtherTreesUntouched
    ImplementsKeyedStore
