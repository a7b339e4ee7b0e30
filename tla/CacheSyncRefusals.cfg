CONSTANTS
    n1 = n1
    n2 = n2
    n3 = n3
    n4 = n4
    n5 = n5
    p1 = p1
    None = None
    UUID = {p1, n1, n2}
    InitialItems <- NoteAndPrefs
    CreatedKinds = {"Note", "ItemsKey"}
    Refusals = {"uuid_error", "content_error", "uuid_conflict"}
    BatchSize = 1
    PageLimit = 1
    MaxEdits = 2
    MaxFaults = 1
    MaxClock = 8
SPECIFICATION Spec
INVARIANTS SyncInv EditsAccounted TokenCovers
CHECK_DEADLOCK FALSE
PROPERTIES LedgerKept ProtectedKept
