SPECIFICATION Spec
CONSTANTS
    RequiredCommits = 2
    CommitEvery = 2
    MaxBlocksPending = 3
    MaxBlock = 7
    CommitCanFail = TRUE
INVARIANTS
    TypeOK
    SentIsConfirmed
    SentOnceEach
    NextCommittedIsNearest
    DrainedWhenStopped
    PendingBounded
PROPERTIES
    CommittedContentFrozen
    ImplementsDelivery
CHECK_DEADLOCK FALSE
