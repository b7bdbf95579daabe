SPECIFICATION Spec
CONSTANTS
    Node = {1, 2, 3}
    Script <- MutualPayments
    Stoppers = {}
    MaxSources = 2
    Remainder = {TRUE}
    CommitEvery = 1
    RequiredCommits = 1
    CacheLags = FALSE
    NetworkFails = FALSE
INVARIANTS
    TypeOK
    SpentOnce
    HonestProofsPass
CHECK_DEADLOCK FALSE
