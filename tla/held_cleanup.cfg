SPECIFICATION Spec
CONSTANTS
    front = front
    w1 = w1
    w2 = w2
    Worker = {w1}
    MaxEvents = 3
    MaxFaults = 0
    MaxReaders = 1
INVARIANTS
    HeldStays
CHECK_DEADLOCK FALSE
