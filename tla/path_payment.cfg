CONSTANTS
    Topology <- MCTopology
    Heads <- MCHeads
    Coins <- MCCoins
    Instants <- MCInstants
    Hashes = {h}
    Payments = {1, 2}
    BaseTimeout = 24
    MAX_RETRIES = 1
    ClaimMargin = 20
    MaxTxs = 5
    MaxNow = 26
    MaxTroubles = 1
SPECIFICATION Spec
INVARIANTS TypeOK CollectedAfterPaid RelayCovered CompletedIsLocked CoverOutlives
CHECK_DEADLOCK FALSE
