SPECIFICATION PageSpec
CONSTANTS
    None = None
    Longitudes <- SomeLongitudes
    MaxClicks = 4
    MaxResets = 2
INVARIANTS
    MapShowsPoints
    WaitedPageCurrent
PROPERTIES
    FetchingEnds
CHECK_DEADLOCK FALSE
