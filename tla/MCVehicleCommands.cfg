SPECIFICATION FairSpec
CONSTANTS
    mode = mode
    takeoff = takeoff
    mode2 = mode2
    wide = wide
    r1 = r1
    r2 = r2
    NoCmd = NoCmd
    Nobody = Nobody
    StateHandler = StateHandler
    Cmd <- TakeoffCmd
    Op <- TakeoffOp
    Request <- TwoRequest
    Setup <- TakeoffSetup
    Main <- TakeoffMain
    Result = {0}
    RetryLimit = 0
    PollLimit = 1
INVARIANTS
    ReplyIsAcked
    GivenUpForAReason
PROPERTIES
    PopTakesDecided
    AckUpdatesHead
    CommandsLeave
    RequestsAnswered
CHECK_DEADLOCK FALSE
