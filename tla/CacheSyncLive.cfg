CONSTANTS
    n1 = n1
    n2 = n2
    n3 = n3
    n4 = n4
    n5 = n5
    p1 = p1
    None = None
    UUID = {n1, n2, n3, n4, n5}
    InitialItems <- OneNote
    CreatedKinds = {"Note"}
    Refusals = {}
    BatchSize = 2
    PageLimit = 1
    MaxEdits = 2
    MaxFaults = 1
    MaxClock = 8
SPECIFICATION FairSpec
INVARIANTS CaughtUp NoSpuriousDuplicate
PROPERTY Convergence
CHECK_DEADLOCK FALSE
