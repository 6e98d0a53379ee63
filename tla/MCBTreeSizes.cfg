SPECIFICATION Spec
CONSTANTS
    TableKeys = {1, 2, 3, 4, 5, 6, 7}
    IndexKeys = {}
    ShortRecords = {a}
    LongRecords = {b}
    KeyPks = {7}
    ShortSize = 1
    LongSize = 2
    PageSize = 76
    FileHeader = 4
    MaxPages = 20
    Reserve = 3
    MaxTrees = 1
    Idle = Idle
    NoValue = NoValue
INVARIANTS
    NoPageOverflows
    RoomWhereInsertGoes
