SPECIFICATION FairSpec
CONSTANTS
    p1 = p1  p2 = p2  t1 = t1  t2 = t2
    None = None
    Process = {p1, p2}
    Thread = {t1, t2}
    Of <- TwoOfOne
    MaxRetries = 2
    MaxToken = 3
INVARIANTS TokensInv NoTokenTwice
PROPERTY MutexReleased
CHECK_DEADLOCK FALSE
