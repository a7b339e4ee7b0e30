SPECIFICATION FairSpec
CONSTANTS
    c1 = c1  c2 = c2
    None = None
    Caller = {c1, c2}
    Closing = {c1}
    MinDelay = 2
    MaxRetries = 4
    Failures <- Messages
    MaxLate = 1
INVARIANTS OpeningInv NoTwoSyncsWork CleanedUp
PROPERTIES SyncsSpaced LostTwoWays CallsReturn
CHECK_DEADLOCK FALSE
