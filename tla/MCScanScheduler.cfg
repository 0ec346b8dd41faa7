SPECIFICATION FairSpec
CONSTANTS
    MaxEvents = 5
INVARIANTS
    SchedulerInv
PROPERTIES
    PausedViewFrozen
    ManualRefreshAnswered
    StopIsSeen
CHECK_DEADLOCK FALSE
