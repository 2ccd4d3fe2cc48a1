SPECIFICATION LiveSpec
CONSTANTS
    c1 = c1
    c2 = c2
    v1 = v1
    NoVault = NoVault
    NoOne = NoOne
    Caller = {c1, c2}
    Calls <- Mixed
    Vault = {v1}
    MaxGen = 2
    MaxFaults = 1
INVARIANTS
    OneSidecar
    BulkNotKilled
    NoReplay
PROPERTIES
    IdentityKept
    EveryCallReturns
CHECK_DEADLOCK FALSE
