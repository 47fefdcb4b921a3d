SPECIFICATION Spec
CONSTANTS
    p1 = p1
    p2 = p2
    p3 = p3
    g1 = g1
    g2 = g2
    g3 = g3
    t1 = t1
    None = None
    Failed = Failed
    Procs = {p1, p2, p3}
    Geos = {g1, g2, g3}
    Tiles = {t1}
    SlowRequests <- SlowReads
    FileOf <- SharedFiles
INVARIANTS
    TypeOK
    OneFetchPerTile
PROPERTIES
    ServiceSpec
