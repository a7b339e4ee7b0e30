SPECIFICATION Spec
CONSTANTS
    k1 = k1  k2 = k2  u1 = u1  u2 = u2
    None = None
    Key = {k1, k2}
    UUID = {u1, u2}
    FirstKey = k1
    MaxClock = 5
    MaxFaults = 1
SYMMETRY Names
INVARIANTS KeyInv NoItemOrphaned UsableAfterSync
PROPERTY StartsDecryptable
CHECK_DEADLOCK FALSE
