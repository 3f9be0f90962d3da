CONSTANTS
    Clients = {c1, c2}
    Servers = {s1}
    PeerCount = 2
    MaxBegins = 2
    MaxEscapes = 1
    MaxFailures = 1
SPECIFICATION Spec
SYMMETRY Symmetry
INVARIANTS
    TypeOK
    StartedFindsLobbyPeer
    StarterIsRegistered
    ListedPeersAreLive
    CallbacksWaitForClosing
CHECK_DEADLOCK FALSE
