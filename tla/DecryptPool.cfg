SPECIFICATION FairSpec
CONSTANTS
    None = None
    MasterKey = "master"
    SessionKeys <- Keys
    ParsedKinds = {"Note"}
    Batches <- Lists
    Worker = {1, 2, 3}
    Threshold = 2
INVARIANTS PoolInv QuietAfterSuccess NothingLeftOut
PROPERTIES DecryptsAll PoolEnds
CHECK_DEADLOCK FALSE
