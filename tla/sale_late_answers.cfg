CONSTANTS
    Heads <- MCHeads
    Purchases = {b1, b2}
    Calls = {c1}
    Timeout = 3
    ClaimOffset = 1
    MaxAttempts = 3
    MaxFailures = 0
    MaxTimeouts = 2
    MaxTxs = 6
    MaxNow = 0
    None = none
SPECIFICATION Spec
INVARIANT NoFreeTicket
CHECK_DEADLOCK FALSE
