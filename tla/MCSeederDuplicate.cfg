SPECIFICATION FairSpec
CONSTANTS
    x = x
    y = y
    z = z
    NoParent = NoParent
    NoService = NoService
    Names <- ThreeNames
    Inputs <- DuplicateInputs
    Trees <- OnlyEmpty
PROPERTIES
    SeedEnds
CHECK_DEADLOCK FALSE
