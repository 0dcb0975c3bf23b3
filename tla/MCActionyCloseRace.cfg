SPECIFICATION Spec
CONSTANTS
    one = one
    replaced = replaced
    many = many
    unknown = unknown
    r1 = r1
    r2 = r2
    r3 = r3
    NoAction = NoAction
    Services <- JustReplaceable
    Requests <- ThreeRequests
    Parallelism <- Replaceable
    BodyStatuses <- Completing
    MaxInFlight = 2
PROPERTIES
    ClosedIsFinal
CHECK_DEADLOCK FALSE
