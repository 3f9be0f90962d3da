CONSTANTS
    Clients = {c1, c2}
    PeerCount = 2
    MaxJoins = 2
    MaxFailures = 0
    MaxInFlight = 1
SPECIFICATION Spec
INVARIANT EveryPacketReadable
CHECK_DEADLOCK FALSE
