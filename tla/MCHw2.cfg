CONSTANTS
    Clients = {c1, c2}
    MaxId = 5
    MaxStarts = 2
    MaxFailures = 2
SPECIFICATION FairHw2Spec
INVARIANTS
    NobodyGivesUp
    PlayersAreLive
PROPERTY StartedArrives
CHECK_DEADLOCK FALSE
