SPECIFICATION Spec
CONSTANTS
    a = a
    b = b
    c = c
    d = d
    r1 = r1
    r2 = r2
    r3 = r3
    NoLock = NoLock
    Services <- TwoServices
    Requests <- ThreeRequests
    Blockees <- MutualPair
    ReserveExpiration = 1
    LockBodies <- LastingBodies
    MaxInFlight = 3
SYMMETRY RequestSymmetry
INVARIANTS
    NoOverlookedLock
    ConflictingGrantsRaced
    GrantedLockKept
    ReleasedStaysReleased
CHECK_DEADLOCK FALSE
