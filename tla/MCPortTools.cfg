SPECIFICATION FairSpec
CONSTANTS
    c1 = c1
    c2 = c2
    Commands = {c1, c2}
    Ports <- TwoPorts
    BadPort = 0
    Jobs <- EveryJob
    Nobody = Nobody
    Server = Server
    InitialBackoff = 1
    MaxBackoff = 3
INVARIANTS
    ToolsInv
    NothingIsLeft
    AnswersAreWitnessed
PROPERTIES
    TimeoutsAreReal
    ToolsReturn
CHECK_DEADLOCK FALSE
