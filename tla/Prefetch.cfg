SPECIFICATION Spec
CONSTANTS
    None = None
    TilesAcross = 3
    TotalRows = 2
    Asked = {0, 2}
    MaxForgets = 2
    Runners = {r1, r2, r3}
INVARIANTS
    OnlyAdjacentFetched
    JoinedCallRuns
PROPERTIES
    GoroutinesEnd
