SPECIFICATION Spec
CONSTANTS
    a = a  b = b  c = c  d = d  e = e
    UUID <- Five
    Push <- PushThree
    InitialServer <- FiveStored
    InitialClock = 4
    DefaultPage = 5
    MinPage = 2
    MaxPage = 5
    ScaleBy = 2
    PageSizes <- Halves
    MaxAttempts = 3
    MaxWrites = 0
INVARIANT ConflictsReported
CHECK_DEADLOCK FALSE
