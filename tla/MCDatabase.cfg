CONSTANTS
    Handles = {s1, s2}
    KeyWord = 16
    NoStmt = NoStmt
    NoSql = NoSql
    Idle = Idle
    InitialFiles <- MCFiles
    Statements <- MCStatements
    MaxPrepared = 4
SPECIFICATION Spec
INVARIANTS
    TypeOK
    OperandsReady
    SelectsReadSnapshot
    IndexEntriesMatchRows
    DoneMeansIndexed
    SchemaSound
    SchemaKnown
PROPERTIES
    StepReturns
