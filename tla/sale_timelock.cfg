CONSTANTS
    Heads <- MCHeads
    Purchases = {b1}
    Calls = {c1}
    Timeout = 3
    ClaimOffset = 1
    MaxAttempts = 3
    MaxFailures = 0
    MaxTimeouts = 0
    MaxTxs = 6
    MaxNow = 4
    None = none
SPECIFICATION Spec
INVARIANT PaymentOutlastsClaim
CHECK_DEADLOCK FALSE
