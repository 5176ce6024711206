CONSTANTS
    Heads <- MCHeads
    Purchases = {b1}
    Calls = {c1}
    Timeout = 3
    ClaimOffset = 1
    MaxAttempts = 3
    MaxFailures = 2
    MaxTimeouts = 0
    MaxTxs = 7
    MaxNow = 4
    None = none
SPECIFICATION Spec
INVARIANT TypeOK
PROPERTY RefinesSale
CHECK_DEADLOCK FALSE
