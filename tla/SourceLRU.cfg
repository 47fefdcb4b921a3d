SPECIFICATION Spec
CONSTANTS
    None = None
    Failed = Failed
    Procs = {p1, p2}
    Files = {f1, f2, f3}
    Geos = {g1, g2, g3, g4}
    MaxSources = 2
INVARIANTS
    LRUConsistent
    LRUIsMostRecent
    HandlesOpen
    OpenOnlyWhenAbsent
PROPERTIES
    EveryAskAnswered
