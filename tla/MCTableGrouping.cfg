SPECIFICATION TableSpec
CONSTANTS
    Scans <- SomeScans
    Fields <- PaneFields
    Hits <- Matches
    NoRow = NoRow
    MaxPins = 1
PROPERTIES
    SelectionSurvivesGrouping
CHECK_DEADLOCK FALSE
