SPECIFICATION Spec
CONSTANTS
    Rows = 3
    Docs = 2
    DocOf <- Repeats
    Chunk = 2
    MaxFaults = 1
    MaxOthers = 0
INVARIANT
    CancelledWasAsked
CHECK_DEADLOCK FALSE
