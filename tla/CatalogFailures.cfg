SPECIFICATION FairSpec
CONSTANTS
    Books = {b1, b2}
    NoJournal = NoJournal
    Kinds = {"Adoption", "Discard"}
    Failures = {"action", "commit", "cleanup"}
    MaxRuns = 2
    MaxFaults = 2
INVARIANTS
    JournalLoadable
PROPERTIES
    RecoveryTakesNothing
    StartupRecovers
