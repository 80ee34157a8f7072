SPECIFICATION Spec
CONSTANTS
    a1 = a1
    a2 = a2
    Accounts = {a1, a2, a3}
    Privileged = {a3}
    Limit = 1
    Tolerance = 1
    MaxSessions = 4
    MaxNow = 0
    NoAccount = NoAccount
SYMMETRY Interchangeable
INVARIANTS
    QueueSound
    PositionsTold
    LimitRespected
    NoIdleSlot
PROPERTY
    NobodyOvertakes
