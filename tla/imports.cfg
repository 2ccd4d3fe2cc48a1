SPECIFICATION LiveSpec
CONSTANTS
    Rows = 3
    Docs = 2
    DocOf <- Repeats
    Chunk = 2
    MaxFaults = 1
    MaxOthers = 1
INVARIANTS
    NothingTwice
    OriginalKept
    DuplicateIsCovered
PROPERTIES
    QueueAdvances
CHECK_DEADLOCK FALSE
