SPECIFICATION LiveSpec
CONSTANTS
    h1 = h1
    h2 = h2
    Handle = {h1, h2}
    Creators = {h1}
    NoHead = NoHead
    NoHandle = NoHandle
    Starts = {"legacy", "absent"}
    LegacyCount = 1
    MaxBatch = 2
    MaxId = 3
    MaxFaults = 2
INVARIANTS
    CommittedReadable
    AckedDurable
    BatchAtomic
    ObservedStays
    ViewCommitted
PROPERTIES
    KeepsPromise
    LockReleased
