SPECIFICATION OnlineSpec
CONSTANTS
    heartbeat = heartbeat
    MsgId <- MCMsgId
    MaxTime = 2
    MaxFlight = 2
    MaxRecord = 2
    MaxUpload = 1
    MaxCrash = 1
INVARIANTS
    LockedIsLeftAlone
PROPERTIES
    RemovesWhatWasUploaded
    FilesAreSynced
    ReaderGoesOn
CHECK_DEADLOCK FALSE
