SPECIFICATION Spec
CONSTANTS
    MaxSessions = 1
    MaxPackets = 2
    MaxShared = 1
    MaxStrays = 0
    Limit = 1
    ExpireTime = 2
INVARIANT
    AbortReturns
