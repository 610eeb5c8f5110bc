SPECIFICATION Spec
CONSTANTS
    a1 = a1  a2 = a2  bad = bad
    c1 = c1  c2 = c2
    NoConn = NoConn
    NoAddr = NoAddr
    Addr <- MCAddr
    BadAddr <- MCBadAddr
    CmdLine <- MCCmdLine
    Dashed <- MCDashed
    Fragment = bad
    Room = 1
    Conn <- MCConn
    MaxReq = 2
    MaxStop = 1
INVARIANTS
    OpenIsLinked
    ListAgrees
PROPERTIES
    StartRestores
    TasksEnd
CHECK_DEADLOCK FALSE
