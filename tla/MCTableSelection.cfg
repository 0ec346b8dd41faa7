SPECIFICATION TableSpec
CONSTANTS
    Scans <- SomeScans
    Fields <- PaneFields
    Hits <- Matches
    NoRow = NoRow
    MaxPins = 1
INVARIANTS
    TableInv
    PinnedRowIsPicked
PROPERTIES
    SelectionNeverJumps
CHECK_DEADLOCK FALSE
