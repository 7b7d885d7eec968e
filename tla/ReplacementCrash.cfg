SPECIFICATION FairSpec
CONSTANTS
    SameExtension = FALSE
    Interference = FALSE
    CloseAfterFailure = FALSE
    MaxFaults = 3
INVARIANTS
    LibraryComicKept
    CatalogsNameValidFiles
PROPERTIES
    PromiseKeptInOrder
    StartupRollsForward
