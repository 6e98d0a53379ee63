SPECIFICATION Spec
CONSTANTS
    Values <- MCValues
    GrowBy = 61
    MaxLength = 255
    nfields = 4
    MaxHeader = 16
    MaxData = 180
CHECK_DEADLOCK FALSE
INVARIANTS
    DataFitsBuffer
    ReadsStayInRecord
    RoundTrip
