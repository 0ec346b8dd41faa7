SPECIFICATION Spec
CONSTANTS
    s1 = s1
    s2 = s2
    Sources = {s1, s2}
    Devices = {"gpu0", "gpu1"}
    MaxDevices = 4
    Page = 2
    Budget = 6
    IDs = {1, 2, 3, 4, 5, 6}
    MaxChurn = 2
    MaxSeries = 2
SYMMETRY Interchangeable
INVARIANTS
    CohortIsOneMoment
    EvidenceIsExplicit
    ReportIsTruthful
CHECK_DEADLOCK FALSE
