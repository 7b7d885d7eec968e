CONSTANTS
    Books = {"a", "b"}
    Damaged = {"b"}
    ItemViews = {"v"}
    Panels = {"p"}
    FastWorkers = {"f"}
    SlowWorkers = {"s"}
    CoverWorkers = {"u"}
    QueueSize = 1
    MemoryItems = 1
    DiskItems = 1
    PruneStride = 2
    MaxEvents = 2
SPECIFICATION Spec
CHECK_DEADLOCK FALSE
INVARIANTS PendingCoversAnswers
PROPERTIES CoverIsServed CoverLostOnlyInQueue
