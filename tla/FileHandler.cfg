SPECIFICATION HandlerFairSpec
CONSTANTS
    Files = {f1}
    Contents <- MCContents
    Size <- MCSize
    Absent = Absent
    NULL = NULL
    Unused = Unused
    NoAnswer = NoAnswer
    Period = 2
    MaxTime = 6
    QuietTime = 2
    FirstStamp = 1
    DistinctStamps = TRUE
    SteadyPermissions = TRUE
    Browsers = {b1}
    Nobody = Nobody
    NoCopy = NoCopy
    Nothing = Nothing
    Shifts <- EastOfGreenwich
INVARIANTS
    HandlerTypeOK
    FoundHasData
    BoundedStaleness
    UnmodifiedIsCurrent
    NotModifiedIsRight
    BrowserStaleness
PROPERTIES
    KeepsPromise
    BrowserConverges
