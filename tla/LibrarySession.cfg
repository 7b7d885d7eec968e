CONSTANTS
    LastPath = 2
    MaxEvents = 3
    MaxFaults = 1
    RestoreFiles = TRUE
SPECIFICATION FairSpec
CHECK_DEADLOCK FALSE
INVARIANTS OneBookPerFile
PROPERTIES OpensWhatWasSaved NoticedIsScanned NoticeLostOnly
