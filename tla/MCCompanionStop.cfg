SPECIFICATION StopSpec
CONSTANTS
    Handlers = {h1, h2}
    RequestIDs = {r1}
    Rows = {row1, row2}
    Operations = {stop, restartManaged}
    Restart = restartManaged
    NoRequest = NoRequest
    Free = Free
    Stopper = Stopper
    SnapshotTTL = 1
    ReceiptTTL = 1
    MaxReceipts = 1
    MaxSnapshots = 1
    MaxClock = 0
    PIDs = {p1}
    Programs <- CommandLines
    ShortName <- LsofName
    Labels = {svc}
    NoLabel = NoLabel
    MaxProcs = 2
    MaxPerLabel = 1
    MaxSeconds = 0
    TracedSnap = 1
    TracedRow = row1
SYMMETRY Interchangeable
INVARIANTS
    ToldOfTheProcess
PROPERTIES
    EngineKeepsContract
    NoLateSignal
CHECK_DEADLOCK FALSE
