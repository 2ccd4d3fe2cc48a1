SPECIFICATION LiveSpec
CONSTANTS
    b1 = b1
    b2 = b2
    Background = {b1}
    MaxEvents = 1
    MaxRuns = 1
    MaxFaults = 1
    Attempts = 4
PROPERTIES
    FenceComesDown
    
CHECK_DEADLOCK FALSE
