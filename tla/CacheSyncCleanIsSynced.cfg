CONSTANTS
    n1 = n1
    n2 = n2
    n3 = n3
    n4 = n4
    n5 = n5
    p1 = p1
    None = None
    UUID = {n1, n2}
    InitialItems <- OneNote
    CreatedKinds = {"Note"}
    Refusals = {"uuid_error"}
    BatchSize = 1
    PageLimit = 1
    MaxEdits = 2
    MaxFaults = 0
    MaxClock = 8
SPECIFICATION Spec
INVARIANT CleanIsSynced
CHECK_DEADLOCK FALSE
