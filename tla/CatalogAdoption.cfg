SPECIFICATION Spec
CONSTANTS
    Books = {b1, b2}
    NoJournal = NoJournal
    Kinds = {"Adoption", "Undo"}
    Failures = {}
    MaxRuns = 2
    MaxFaults = 2
INVARIANTS
    RecordNeverLost
    CatalogsMatchFiles
PROPERTIES
    RecordsMoveInOrder
