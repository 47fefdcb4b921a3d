SPECIFICATION VRTSpec
CONSTANTS
    p1 = p1
    p2 = p2
    g1 = g1
    g2 = g2
    g3 = g3
    t1 = t1
    n1 = n1
    n2 = n2
    None = None
    Failed = Failed
    Procs = {p1, p2}
    Geos = {g1, g2, g3}
    Tiles = {t1}
    Names = {n1, n2}
    MaxSources = 1
    FileOf <- SomeGeos
    SlowRequests <- SlowReads
    Source <- SomeSources
    Base <- SomeBase
INVARIANTS
    OpenWhileRead
    NobodyStuck
PROPERTIES
    VRTServiceSpec
