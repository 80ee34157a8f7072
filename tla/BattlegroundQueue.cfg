SPECIFICATION FairSpec
CONSTANTS
    a1 = a1
    a2 = a2
    h1 = h1
    h2 = h2
    Team <- TwoByTwo
    Alone = {a1, a2, h1}
    Parties <- BothParties
    Absent = {h2}
    Quitters = {a1}
    Settings <- SmallSettings
    MaxBgs = 1
    MaxUpdates = 2
INVARIANTS
    InvitedExact
    TeamsFit
    QueueAgrees
    SlotsOffered
PROPERTY EndedGone
CHECK_DEADLOCK FALSE
