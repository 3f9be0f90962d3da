CONSTANTS
    BitsPerByte = 2
    Fresh <- MCFresh
    Vectors <- MCVectors
SPECIFICATION Spec
INVARIANTS
    ReadsExactly
    RoundTrip
    AppliesTheDelta
CHECK_DEADLOCK FALSE
