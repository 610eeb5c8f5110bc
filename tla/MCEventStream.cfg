SPECIFICATION StreamSpec
CONSTANTS
    c1 = c1  c2 = c2
    Client = {c1, c2}
    NoClient = NoClient
INVARIANTS
    ThreeRounds
PROPERTIES
    WaitingGets
    LeaversGo
