CONSTANTS
    Clients = {c1, c2}
    PeerCount = 2
    MaxJoins = 3
    MaxFailures = 1
    MaxInFlight = 1
SPECIFICATION Spec
SYMMETRY Symmetry
INVARIANTS
    ReliableIsReadable
    RosterInTransit
    IdsAreDistinct
CHECK_DEADLOCK FALSE
