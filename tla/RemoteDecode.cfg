SPECIFICATION Spec
CONSTANTS
    None = None
    Failed = Failed
    Garbage = Garbage
    Procs = {p1, p2}
    Geos = {g1, g2, g3}
    LocalGeos = {g3}
    Tiles = {t1, t2, t3}
    CutTiles = {t2, t3}
    ChunkedTiles = {t1, t3}
    SlowTiles = {t3}
    MaxHandles = 3
INVARIANTS
    HandleOpenInUse
    NothingLeaks
    BufferIsDecoders
PROPERTIES
    DecodeServiceSafety
    EveryDecodeEnds
