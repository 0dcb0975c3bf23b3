SPECIFICATION FairSpec
CONSTANTS
    x = x
    y = y
    z = z
    NoParent = NoParent
    NoService = NoService
    Names <- ThreeNames
    Inputs <- ManyInputs
    Trees <- ManyTrees
INVARIANTS
    TypeOK
    CommittedTreeInStep
    CreatedWhole
    ModifiedAsAsked
PROPERTIES
    SeedEnds
CHECK_DEADLOCK FALSE
