SPECIFICATION Spec
CONSTANTS
    s1 = s1
    s2 = s2
    over = over
    under = under
    i1 = i1
    i2 = i2
    NoLock = NoLock
    NoAction = NoAction
    None = None
    Services <- TwoServices
    Blockees <- OneWay
    Parallelism <- BothMultiple
    Clients <- TwoClients
    Scenarios <- JustRuns
    ReserveExpiration = 1
    LockyInFlight = 1
    ActionyInFlight = 1
PROPERTIES
    AccessIsValidated
CHECK_DEADLOCK FALSE
