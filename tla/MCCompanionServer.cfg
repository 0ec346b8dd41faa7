SPECIFICATION Spec
CONSTANTS
    Handlers = {h1, h2}
    RequestIDs = {r1, r2}
    Rows = {row}
    Operations = {stop, restartManaged}
    NoRequest = NoRequest
    Free = Free
    Stopper = Stopper
    SnapshotTTL = 1
    ReceiptTTL = 1
    MaxReceipts = 1
    MaxSnapshots = 2
    MaxClock = 1
SYMMETRY Interchangeable
INVARIANTS
    CompanionInv
    OutcomeTruthful
    ReplayConsistent
PROPERTIES
    SnapshotLossJustified
    ReceiptsDurable
    ImplementsLedger
CHECK_DEADLOCK FALSE
