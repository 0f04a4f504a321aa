SPECIFICATION Spec
CONSTANTS
    alphabet_ <- MCAlphabet
    Start = "^"
    End = "$"
    Resolution = 4
    MaxCounted = 2
    None = None
INVARIANTS
    TypeOK
    RowsNumbered
    RowsCumulative
PROPERTIES
    DrawsWhatWasSeen
CHECK_DEADLOCK FALSE
