SPECIFICATION OpenSpec
CONSTANTS
    None = None
    ObjectSize = 7
    PrefetchSizes = {2, 9}
    MaxMergeSpan = 3
    ChunkSize = 2
    Directories <- SomeDirectories
    Entries <- SomeEntries
INVARIANTS
    TagsRight
    NoTagReadAlone
CHECK_DEADLOCK FALSE
