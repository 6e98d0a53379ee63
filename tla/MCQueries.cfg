CONSTANTS
    Handles = {s1}
    KeyWord = 16
    NoStmt = NoStmt
    Idle = Idle
    Files <- MCFiles
    Selects <- MCSelects
SPECIFICATION Spec
INVARIANTS
    OperandsReady
    RowsAreAnswer
PROPERTIES
    StepReturns
