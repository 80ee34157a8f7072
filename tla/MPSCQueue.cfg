SPECIFICATION FairQueueSpec
CONSTANTS
    Producers = {p1, p2}
    Nodes = {n1, n2, n3, n4}
    Values = {v1, v2}
    Null = Null
    NoValue = NoValue
INVARIANTS
    NoUseAfterFree
PROPERTIES
    ImplementsFifo
    AllDequeued
