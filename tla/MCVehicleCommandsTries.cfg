SPECIFICATION Spec
CONSTANTS
    mode = mode
    takeoff = takeoff
    mode2 = mode2
    wide = wide
    r1 = r1
    r2 = r2
    NoCmd = NoCmd
    Nobody = Nobody
    StateHandler = StateHandler
    Cmd <- OneCmd
    Op <- OneOp
    Request <- OneRequest
    Setup <- OneSetup
    Main <- OneMain
    Result = {0}
    RetryLimit = 5
    PollLimit = 10
INVARIANTS
    TriedFiveTimes
CHECK_DEADLOCK FALSE
