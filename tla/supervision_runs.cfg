SPECIFICATION Spec
CONSTANTS
    b1 = b1
    b2 = b2
    Background = {b1, b2}
    MaxEvents = 1
    MaxRuns = 2
    MaxFaults = 1
    Attempts = 4
INVARIANTS
    FenceCovers
    DeadlineIsItsOwn
    IdleMeansAnswered
CHECK_DEADLOCK FALSE
SYMMETRY Interchangeable
