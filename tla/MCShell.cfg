SPECIFICATION Spec
CONSTANTS
    FileNames = {f, g}
    InitialFiles <- MCInitialFiles
    Sqls <- MCSqls
    Texts <- MCTexts
    Rows <- MCRows
    MaxLines = 3
    MaxCrashes = 1
    ReopenOpen = FALSE
    Null = Null
INVARIANTS
    RowsAreKept
    ReadsWhatIsWritten
PROPERTIES
    ExplainOnlyExplains
