CONSTANTS
    Handles = {s1}
    KeyWord = 16
    NoStmt = NoStmt
    Idle = Idle
    Files <- NegativeFiles
    Selects <- NegativeSelects
SPECIFICATION Spec
INVARIANTS
    RowsAreAnswer
