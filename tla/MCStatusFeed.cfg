SPECIFICATION Spec
CONSTANTS
    s1 = s1  s2 = s2
    Socket = {s1, s2}
    Periodic = Periodic
    FmuLoop = FmuLoop
    Nobody = Nobody
    Seconds = 0
INVARIANTS
    NoWriteDuringEmit
    TickSucceeds
PROPERTIES
    FeedGoesOn
    LoopGoesOn
    PagesTell
