SPECIFICATION Spec
CONSTANTS
    s1 = s1
    s2 = s2
    over = over
    under = under
    i1 = i1
    i2 = i2
    NoLock = NoLock
    NoAction = NoAction
    None = None
    Services <- FourServices
    Blockees <- Both
    Parallelism <- Mixed
    Clients <- TwoClients
    Scenarios <- ClientScenarios
    ReserveExpiration = 1
    LockyInFlight = 2
    ActionyInFlight = 2
INVARIANTS
    TypeOK
    ConflictIsRaceOrLate
    NoLockForgotten
    NotFoundIsOwnRemoval
    OpenActionIsHeld
    OwnLeftoversAdmit
CHECK_DEADLOCK FALSE
