CONSTANTS
    Books = {"a", "b"}
    LastPage = 1
    Rotations = {"none", "right"}
    Damaged = {"b"}
    SlowBooks = {"a"}
    FastWorkers = {"f"}
    SlowWorkers = {"s1", "s2"}
    QueueSize = 1
    MemoryItems = 1
    Window = 1
    MaxMoves = 3
SPECIFICATION Spec
CHECK_DEADLOCK FALSE
INVARIANTS TypeOK LoadedIsItsPage
PROPERTIES LostOnlyToTrimOrFinish WantedIsServed
