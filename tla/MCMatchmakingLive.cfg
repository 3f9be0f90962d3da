CONSTANTS
    Clients = {c1, c2}
    Servers = {s1}
    PeerCount = 3
    MaxBegins = 1
    MaxEscapes = 1
    MaxFailures = 0
SPECIFICATION FairSpec
PROPERTIES
    ESCStops
    StartedArrives
    RequeueCompletes
CHECK_DEADLOCK FALSE
