SPECIFICATION FairSpec
CONSTANTS
    a = a
    b = b
    c = c
    d = d
    r1 = r1
    r2 = r2
    r3 = r3
    NoLock = NoLock
    Services <- FourServices
    Requests <- TwoRequests
    Blockees <- TwoBlockees
    ReserveExpiration = 1
    LockBodies <- FewBodies
    MaxInFlight = 2
INVARIANTS
    TypeOK
    RefusalLeavesNoRow
PROPERTIES
    ImplementsLeases
    RequestsAnswered
    AbandonedReserveExpires
    BusyBlockeeRefuses
CHECK_DEADLOCK FALSE
