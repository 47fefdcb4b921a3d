SPECIFICATION Spec
CONSTANTS
    MaxBytes = 5
    MaxSize = 6
    Calls <- SmallCalls
CHECK_DEADLOCK FALSE
INVARIANTS
    FilledInsideObject
    NoLateWrite
PROPERTIES
    EveryReadReturns
