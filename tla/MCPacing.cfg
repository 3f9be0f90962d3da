CONSTANTS
    Clients = {c1, c2}
    PollTimeout = 3
    InputRate = 6
    DeltaRate = 10
    MaxDelay = 1
SPECIFICATION FairPacingSpec
INVARIANT ClientsComeRound
PROPERTY DeltasGoOut
CHECK_DEADLOCK FALSE
