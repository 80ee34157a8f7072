SPECIFICATION FairSpec
CONSTANTS
    MaxSessions = 2
    MaxPackets = 3
    MaxShared = 1
    MaxStrays = 1
    Limit = 1
    ExpireTime = 2
INVARIANTS
    NoUseAfterFree
    OneOwner
    HandledInOrder
PROPERTIES
    LoginHandled
    SessionsLeave
