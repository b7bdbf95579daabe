SPECIFICATION FairSpec
CONSTANTS
    Process = {"master", "worker"}
    Master = "master"
    Node = {0, 1}
    Home <- OneEach
    Batch <- OfWorker
    Single <- OneMore
    SingleAfter = {2}
    Page = {"page"}
    MaxStarts <- TwoForMaster
    MaxConnections = 2
    MaxInFlight = 2
    MaxPoints = 2
INVARIANTS
    TypeOK
    ListIsWhole
    GraphIsOfPosted
PROPERTIES
    ImplementsFlags
    PagesShowNow
CHECK_DEADLOCK FALSE
