SPECIFICATION FairSpec
CHECK_DEADLOCK FALSE
CONSTANTS
    MaxProcs = 2
    Nobody = Nobody
    Other = Other
    Uris <- MCUris
    Patterns <- MCPatterns
    MaxEvents = 2
INVARIANTS
    ServerTypeOK
    OneGoesOn
    ReadyToServe
    RightHandler
    ServesWhole
PROPERTIES
    ComesUp
