SPECIFICATION Spec
CONSTANTS
    b1 = b1
    b2 = b2
    d1 = d1
    noDoc = noDoc
    NoDoc = noDoc
    Background = {b1}
    Doc = {d1}
    Ops = {"upload", "recover", "bulk", "spend"}
    Limit = 2
    MaxJobs = 3
    MaxOpens = 0
    MaxCrashes = 1
    MaxErrors = 1
PROPERTY TerminalStays
INVARIANT HandleFindsJob
INVARIANT CancelledIsStill
INVARIANT RecoverBeforePosting
INVARIANT SettlingPrecedes
CHECK_DEADLOCK FALSE
