CONSTANTS
    Receiver = {r1, r2}
    RegisterEvery = 2
    MaxReceived = 6
SPECIFICATION FairSpec
INVARIANTS
    TypeOK
    RegisteredOnce
    BatchesAreFull
    QueuesAreBounded
PROPERTIES
    FullQueueIsRegistered
CHECK_DEADLOCK FALSE
