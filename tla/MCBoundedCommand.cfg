SPECIFICATION FairSpec
CONSTANTS
    MaxDump = 4
    Limit = 3
    PipeCap = 2
INVARIANTS
    SuccessIsWhole
    NothingOutlives
PROPERTIES
    CommandReturns
CHECK_DEADLOCK FALSE
