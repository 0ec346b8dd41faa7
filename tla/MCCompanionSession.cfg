SPECIFICATION FairSession
CONSTANTS
    Handlers = {h1, h2}
    RequestIDs = {r1}
    Rows = {row}
    Operations = {stop}
    NoRequest = NoRequest
    Free = Free
    Stopper = Stopper
    SnapshotTTL = 1
    ReceiptTTL = 1
    MaxReceipts = 1
    MaxSnapshots = 1
    MaxClock = 1
PROPERTIES
    RetiresItsOwn
    ShutdownCompletes
    ActionsSettle
    SnapshotExpires
CHECK_DEADLOCK FALSE
