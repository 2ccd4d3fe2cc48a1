SPECIFICATION LiveSpec
CONSTANTS
    front = front
    w1 = w1
    w2 = w2
    Worker = {w1, w2}
    MaxEvents = 2
    MaxFaults = 2
    MaxReaders = 1
INVARIANTS
    CurrentServable
    BuildUntouched
    HeldSurvives
PROPERTIES
    PointerAdvances
    CatchesUp
CHECK_DEADLOCK FALSE
