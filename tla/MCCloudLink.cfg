SPECIFICATION FairSpec
CONSTANTS
    a1 = a1
    a2 = a2
    l1 = l1
    l2 = l2
    l3 = l3
    NoAccount = NoAccount
    Session = {1}
    Account <- TwoAccounts
    Listener <- ThreeListeners
    TimeOut = 2
    MaxFiles = 1
    MaxLogout = 1
INVARIANTS
    StoppedIsSilent
    UploadsAreSequential
    
PROPERTIES
    BothGoOn
CHECK_DEADLOCK FALSE
