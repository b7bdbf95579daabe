SPECIFICATION FairSpec
CONSTANTS
    RequiredCommits = 2
    CommitEvery = 2
    MaxBlocksPending = 4
    MaxBlock = 8
    CommitCanFail = FALSE
PROPERTIES
    StopTerminates
    RoomReturns
    ConfirmedIsSent
CHECK_DEADLOCK FALSE
