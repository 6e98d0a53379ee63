SPECIFICATION Spec
CONSTANTS
    TableKeys = {1, 2, 3}
    IndexKeys = {}
    ShortRecords = {a}
    LongRecords = {b}
    KeyPks = {7}
    ShortSize = 10
    LongSize = 500
    PageSize = 1024
    FileHeader = 100
    MaxPages = 9
    Reserve = 3
    MaxTrees = 1
    Idle = Idle
    NoValue = NoValue
INVARIANTS
    NoPageOverflows
