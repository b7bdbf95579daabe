SPECIFICATION FairSpec
CONSTANTS
    Process = {"master", "worker"}
    Master = "master"
    Node = {1, 2}
    Home <- OneEach
    CanFail = TRUE
INVARIANTS
    TypeOK
    KilledWhenAllAreDone
    TransactsWithAll
PROPERTIES
    EndsUnlessFailed
CHECK_DEADLOCK FALSE
