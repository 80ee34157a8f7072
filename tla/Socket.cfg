SPECIFICATION FairSpec
CONSTANTS
    Sockets = {s1}
    Sizes = {1, 3}
    BufferSize = 2
    SendRoom = 2
    MaxPackets = 5
    NoSocket = none
INVARIANTS
    ClosedOnce
PROPERTIES
    ImplementsByteStream
    PacketsLeave
    DelayedCloseEnds
CHECK_DEADLOCK FALSE
