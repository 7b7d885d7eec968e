SPECIFICATION Spec
CONSTANTS
    SameExtension = TRUE
    Interference = TRUE
    CloseAfterFailure = TRUE
    MaxFaults = 3
INVARIANTS
    ImagesForJournal
PROPERTIES
    NeverDropsLastCopy
