CONSTANTS
    ClientAddresses = {c1}
    NoAddress = none
    PingTime = 1
    Timeout = 7
    MaxDelay = 1
    MaxStall = 2
    Backlog = 2
SPECIFICATION FairSpec
INVARIANT
    NobodyIsBrief
PROPERTIES
    AnsweringStays
    CrashedIsForgotten
CHECK_DEADLOCK FALSE
