CONSTANTS
    Lag = 3
    HistoryCap = 4
    HalfTrips <- MCHalfTrips
    MaxClock = 7
    MaxReceived = 6
SPECIFICATION Spec
INVARIANT FramesHaveTwo
PROPERTIES
    FramesAreLagged
    PredictionReachesNow
CHECK_DEADLOCK FALSE
