SPECIFICATION LiveSpec
CONSTANTS
    b1 = b1
    b2 = b2
    d1 = d1
    noDoc = noDoc
    NoDoc = noDoc
    Background = {b1, b2}
    Doc = {d1}
    Ops = {"plain", "upload", "recover", "bulk", "spend"}
    Limit = 1
    MaxJobs = 2
    MaxOpens = 1
    MaxCrashes = 1
    MaxErrors = 0
INVARIANT IdsFresh
INVARIANT OnePaidRun
INVARIANT ForegroundStopHolds
PROPERTY EveryJobSettles
CHECK_DEADLOCK FALSE
