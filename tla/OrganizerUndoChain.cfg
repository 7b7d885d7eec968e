CONSTANTS
    LastBook = 2
    LastName = 3
    Twin = 3
    Offered = {"Cancel", "Rename", "Overwrite"}
    MaxRuns = 2
    MaxOthers = 0
    MaxFaults = 0
SPECIFICATION FairSpec
CHECK_DEADLOCK FALSE
INVARIANTS UndoUnwinds
