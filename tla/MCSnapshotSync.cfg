CONSTANTS
    Byte <- MCByte
    Fresh <- MCFresh
    States <- MCStates
    MaxEpoch = 4
SPECIFICATION FairSpec
INVARIANTS
    ConfirmationsNotAhead
    InFlightConsistent
    ExactWhereNeverReturning
PROPERTIES
    ImplementsReplica
    EpochsNeverGoBack
    QueueDrains
CHECK_DEADLOCK FALSE
