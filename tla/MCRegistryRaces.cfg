SPECIFICATION RacesSpec
CONSTANTS
    root = root
    child = child
    leaf = leaf
    new = new
    newer = newer
    r1 = r1
    r2 = r2
    c1 = c1
    NoParent = NoParent
    NoLock = NoLock
    NoAction = NoAction
    Services <- AllServices
    Trees <- SomeTrees
    Rotates <- TwoRotates
    Runs <- OneRun
    ServiceOf <- ChildRuns
    Parallelism <- Single
    Scenarios <- SomeScenarios
    OtherRequests <- Reservers
    Retries = 0
    RotationLockExpiration = 1
    LockyInFlight = 2
    ActionyInFlight = 2
INVARIANTS
    TreeInStep
    BumpsNumberedApart
    RotatedWasLocked
    RotatedWhole
    OpenActionKeepsRotation
CHECK_DEADLOCK FALSE
