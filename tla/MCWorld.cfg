CONSTANTS
    Fresh <- MCFresh
    Clients = {c1, c2}
    kBots = 1
    NumIds = 4
    StartSizes <- MCStartSizes
    MinSize = 2
    VelSize = 2
    Byte <- MCByte
    Tiny <- MCTiny
    Clamped <- MCClamped
    BotSpeeds <- MCBotSpeeds
    Speeds <- MCSpeeds
    MaxCreated = 3
    MaxInputs = 3
SPECIFICATION Spec
SYMMETRY MCSymmetry
INVARIANTS
    OneBodyEach
    WorldIsAlive
PROPERTIES
    GoneStaysGone
    OwnersSteer
    InputsTakeEffect
CHECK_DEADLOCK FALSE
