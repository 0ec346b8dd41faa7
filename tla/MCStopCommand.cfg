SPECIFICATION Spec
CONSTANTS
    NoFormula = NoFormula
    NoLabel = NoLabel
    DatabaseFormulas = {"redis"}
    TunnelFormula = "cloudflared"
    PIDs <- TwoPIDs
    Ports <- TwoPorts
    Programs <- SomePrograms
    Labels = {"homebrew.mxcl.redis", "com.example.agent"}
    BrewLabel <- ServiceLabels
    Targets <- Arguments
    StartProcs = 2
    MaxProcs = 3
INVARIANTS
    OnlyTheTargetIsHit
    ZeroMeansDone
    SupervisedStaysDown
    PreviewKeepsItsWord
CHECK_DEADLOCK FALSE
