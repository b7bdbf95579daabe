SPECIFICATION FairSpec
CONSTANTS
    Node = {1, 2, 3}
    Script <- Line
    Stoppers = {1, 2}
    MaxSources = 1
    Remainder = {TRUE}
    CommitEvery = 2
    RequiredCommits = 1
    CacheLags = TRUE
    NetworkFails = TRUE
INVARIANTS
    InOnePlace
    
    
PROPERTIES
    EveryPaymentArrives
CHECK_DEADLOCK FALSE
