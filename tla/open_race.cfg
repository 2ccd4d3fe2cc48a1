SPECIFICATION Spec
CONSTANTS
    h1 = h1
    h2 = h2
    Handle = {h1, h2}
    Creators = {}
    NoHead = NoHead
    NoHandle = NoHandle
    Starts = {"bound"}
    LegacyCount = 0
    MaxBatch = 1
    MaxId = 1
    MaxFaults = 0
SYMMETRY HandleSymmetry
INVARIANT
    NoFalseAccusation
