SPECIFICATION Spec
CONSTANTS
    TableKeys = {1}
    IndexKeys = {1, 2, 3, 4, 5, 6, 7}
    ShortRecords = {a}
    LongRecords = {}
    KeyPks = {7}
    ShortSize = 2
    LongSize = 2
    PageSize = 52
    FileHeader = 2
    MaxPages = 26
    Reserve = 3
    MaxTrees = 2
    Idle = Idle
    NoValue = NoValue
INVARIANTS
    EveryEntryIsReached
    Balanced
    SeparatorIsLargestOnItsLeft
PROPERTIES
    ImplementsKeyedStore
