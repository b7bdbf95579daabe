\* Every order of callbacks and of the steps of the two updating threads;
\* requests succeed once Tendermint runs.
CONSTANTS
    MaxHeight = 3
    BlockContents <- Contents
    QueryCanFail = FALSE
SPECIFICATION FairSpec
INVARIANTS
    TypeOK
    HeightIsRead
    UpdatesLeaveNoGap
PROPERTIES
    ImplementsKnown
    ReachesCache
CHECK_DEADLOCK FALSE
