SPECIFICATION Spec
CONSTANTS
    PIDs = {p1, p2}
    Programs <- CommandLines
    ShortName <- LsofName
    Labels = {svc}
    NoLabel = NoLabel
    MaxProcs = 3
    MaxPerLabel = 2
    MaxClock = 1
SYMMETRY Interchangeable
INVARIANTS
    OnlyVerifiedVictims
    VerdictIsHonest
    ContextSeamIsStrict
CHECK_DEADLOCK FALSE
