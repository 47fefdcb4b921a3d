SPECIFICATION Spec
CONSTANTS
    None = None
    Parts = 2
    MaxFailures = 1
    Files <- SomeFiles
    Mosaics <- SomeMosaics
    Base = 8
    NativeOrder = "little"
    Missing = Missing
    NoSample = NoSample
    Outside = Outside
    Word <- SomeWord
    Paths <- PathsOf
    Points <- PointsOf
INVARIANTS
    OnTheLine
    ElevationsRight
    SegmentsWalked
    RepliesRight
PROPERTIES
    Unbroken
CHECK_DEADLOCK FALSE
