CONSTANTS
    LastIssue = 3
    FirstIssues = 2
    PageSize = 1
    MaxPages = 1
    MaxDay = 2
    MaxEdits = 1
    MaxStops = 1
    MaxOthers = 2
    Refreshes = TRUE
SPECIFICATION FairSpec
CHECK_DEADLOCK FALSE
INVARIANTS BelowWatermarkIsCurrent ServedIsWhole QueueOwesNothing
PROPERTIES WindowIsFinished
