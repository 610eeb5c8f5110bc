SPECIFICATION AnsweringSpec
CONSTANTS
    c1 = c1
    NumParams = 2
    VehicleId = 1
    Client <- OneClient
    MaxPolls = 1
    UintSize = 65536
INVARIANTS
    MissingOnlyForced
PROPERTIES
    ServesLoaded
    InitDone
    OnlineIsKnown
    RefreshEnds
    SilentIsForgotten
CHECK_DEADLOCK FALSE
