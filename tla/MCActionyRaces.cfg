SPECIFICATION FairSpec
CONSTANTS
    one = one
    replaced = replaced
    many = many
    unknown = unknown
    r1 = r1
    r2 = r2
    r3 = r3
    NoAction = NoAction
    Services <- AllServices
    Requests <- ThreeRequests
    Parallelism <- AllParallelisms
    BodyStatuses <- Completing
    MaxInFlight = 3
INVARIANTS
    TypeOK
    TwoActiveNeedARace
    CanceledForAReplacement
    ClosedHasTime
    MetadataLostByCrossing
    ClosingUndoneByCrossing
PROPERTIES
    RequestsAnswered
CHECK_DEADLOCK FALSE
