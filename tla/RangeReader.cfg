SPECIFICATION Spec
CONSTANTS
    None = None
    Procs = {p1, p2}
    ObjectSize = 3
    Offsets = {0, 1, 4}
    Lengths = {0, 1, 2}
    Seeks <- SomeSeeks
INVARIANTS
    ErrorForgiven
    ReadAtAsTaken
PROPERTIES
    ReadAtEnds
    ReaderServiceSafety
