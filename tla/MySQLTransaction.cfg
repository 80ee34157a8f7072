SPECIFICATION FairSpec
CONSTANTS
    c1 = c1
    c2 = c2
    c3 = c3
    t1 = t1
    t2 = t2
    t3 = t3
    NoTxn = NoTxn
    NoConn = NoConn
    AsyncConns = {c1, c2}
    SyncConns = {}
    Txns = {t1, t2, t3}
    Size <- Sizes
    Retries = 1
    Attempts = 2
    MaxLosses = 1
    MaxRefusals = 1
INVARIANTS
    OutcomeUnlessLost
PROPERTIES
    TransactionsEnd
