CONSTANTS
    Line <- MCLine
    Empty <- MCEmpty
    MaxTyped = 3
    MaxPending = 2
SPECIFICATION FairSpec
PROPERTIES
    LinesInOrder
    LinesAreHandled
    EnterWhileJoiningExits
CHECK_DEADLOCK FALSE
