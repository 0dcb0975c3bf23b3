SPECIFICATION FairSpec
CONSTANTS
    root = root
    child = child
    unknown = unknown
    r1 = r1
    NoParent = NoParent
    NoLock = NoLock
    Services <- AllServices
    Trees <- JustFamily
    Rotates <- OneRotate
    Retries = 1
    RotationLockExpiration = 1
    OtherRequests = {}
    LockyInFlight = 3
INVARIANTS
    TypeOK
    AnsweredWithoutLock
PROPERTIES
    BusyServiceNotRotated
    TreeUnlocked
CHECK_DEADLOCK FALSE
