SPECIFICATION FairSpec
CONSTANTS
    a = a  b = b  c = c  d = d  e = e
    UUID <- Five
    Push <- PushThree
    InitialServer <- FiveStored
    InitialClock = 4
    DefaultPage = 5
    MinPage = 2
    MaxPage = 5
    ScaleBy = 2
    PageSizes <- Halves
    MaxAttempts = 3
    MaxWrites = 1
INVARIANTS PagingInv PushesAnswered ChangesCovered OneExchange
PROPERTY Terminates
CHECK_DEADLOCK FALSE
