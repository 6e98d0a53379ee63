SPECIFICATION Spec
CONSTANTS
    FileNames = {f, g}
    InitialFiles <- MCInitialFiles
    Sqls <- MCSpacedSqls
    Texts <- NoTexts
    Rows <- MCRows
    MaxLines = 3
    MaxCrashes = 1
    ReopenOpen = FALSE
    Null = Null
PROPERTIES
    ExplainOnlyExplains
