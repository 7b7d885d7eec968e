CONSTANTS
    LastBook = 2
    LastName = 3
    Twin = 3
    Offered = {"Cancel", "Rename", "Overwrite"}
    MaxRuns = 2
    MaxOthers = 1
    MaxFaults = 2
SPECIFICATION FairSpec
CHECK_DEADLOCK FALSE
INVARIANTS LandedBooksHaveTheirFiles UndoRestores
PROPERTIES KeptOrBinned RunEnds
