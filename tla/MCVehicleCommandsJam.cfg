SPECIFICATION Spec
CONSTANTS
    mode = mode
    takeoff = takeoff
    mode2 = mode2
    wide = wide
    r1 = r1
    r2 = r2
    NoCmd = NoCmd
    Nobody = Nobody
    StateHandler = StateHandler
    Cmd <- TwoCmd
    Op <- TwoOp
    Request <- TwoRequest
    Setup <- TwoSetup
    Main <- TwoMain
    Result = {0}
    RetryLimit = 1
    PollLimit = 1
INVARIANTS
    NotJammed
CHECK_DEADLOCK FALSE
