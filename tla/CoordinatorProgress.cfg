SPECIFICATION FairSpec
CONSTANTS
    Kinds = {"catalog", "incoming", "organizer"}
    Targets = {"Incoming"}
    Restarts = TRUE
    TimerBeforeLanding = FALSE
    BusyClose = FALSE
    MaxEvents = 4
CHECK_DEADLOCK FALSE
INVARIANTS
    CloseSavesEverything
PROPERTIES
    OperationEnds
    CloseEnds
    QueuedScansRun
    EditsReachDisk
