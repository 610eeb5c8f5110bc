SPECIFICATION RelaySpec
CONSTANTS
    throttled = throttled  unthrottled = unthrottled
    Kind = {throttled, unthrottled}
    Unthrottled = {unthrottled}
    PipeCap = 2
    MaxPkt = 4
INVARIANTS
    NothingForgotten
PROPERTIES
    EchoedInTheEnd
