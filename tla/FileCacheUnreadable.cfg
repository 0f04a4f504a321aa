SPECIFICATION Spec
CONSTANTS
    Files = {f1}
    Contents <- MCContents
    Size <- MCSize
    Absent = Absent
    NULL = NULL
    Unused = Unused
    NoAnswer = NoAnswer
    Period = 2
    MaxTime = 5
    QuietTime = 5
    FirstStamp = 1
    DistinctStamps = TRUE
    SteadyPermissions = FALSE
INVARIANT
    FoundHasData
