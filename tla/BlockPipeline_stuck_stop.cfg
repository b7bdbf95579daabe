SPECIFICATION FairSpec
CONSTANTS
    RequiredCommits = 2
    CommitEvery = 2
    MaxBlocksPending = 3
    MaxBlock = 5
    CommitCanFail = TRUE
PROPERTIES
    StopTerminates
CHECK_DEADLOCK FALSE
