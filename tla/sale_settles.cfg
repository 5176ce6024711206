CONSTANTS
    Heads <- MCHeads
    Purchases = {b1}
    Calls = {c1}
    Timeout = 3
    ClaimOffset = 1
    MaxAttempts = 3
    MaxFailures = 0
    MaxTimeouts = 0
    MaxTxs = 6
    MaxNow = 3
    None = none
SPECIFICATION FairSpec
PROPERTY Settles
CHECK_DEADLOCK FALSE
