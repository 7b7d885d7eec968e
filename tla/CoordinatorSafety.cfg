SPECIFICATION Spec
CONSTANTS
    Kinds = {"catalog", "incoming", "organizer"}
    Targets = {"Library", "Incoming"}
    Restarts = FALSE
    TimerBeforeLanding = FALSE
    BusyClose = TRUE
    MaxEvents = 4
CHECK_DEADLOCK FALSE
INVARIANTS
    EpochHeldUntilLanding
    CleanMeansSaved
PROPERTIES
    DiskNeverForgets
    LiveNeverForgets
