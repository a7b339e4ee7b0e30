SPECIFICATION FairSpec
CONSTANTS
    p1 = p1
    p2 = p2
    Process <- Processes
    MaxRequestRetries = 1
    MaxCalls = 3
INVARIANTS SignInInv OneSessionEach ChallengeKnown
PROPERTY CallsEnd
CHECK_DEADLOCK FALSE
