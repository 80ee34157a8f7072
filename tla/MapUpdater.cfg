SPECIFICATION FairSpec
CONSTANTS
    w1 = w1
    w2 = w2
    w3 = w3
    m1 = m1
    m2 = m2
    m3 = m3
    i1 = i1
    i2 = i2
    NoRequest = NoRequest
    Workers = {w1, w2}
    BaseMaps = {m1, m2, m3}
    Terrain <- TwoTerrains
    Instances = {i1, i2}
    Parent <- OneInstanced
INVARIANTS
    Barrier
    OneUpdater
    NoDanglingMap
    NoNullCall
    TickComplete
PROPERTIES
    WorldThreadReturns
