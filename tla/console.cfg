CONSTANTS
    Heads <- MCHeads
    Tabs = {t1}
    NoTab = none
    Amounts = {a1, a2}
    MaxPairs = 1
    FlowAttempts = 1
    MaxClicks = 2
    MaxTroubles = 1
    Buyers = {}
    Charlie = charlie
    None = none
    Prize = 1
    CloseTimes = {0, 1}
    MintWindow = 0
    PayDelay = 1
    ScriptPayDelay = 2
    Tools = {}
    Desks = {desk1, desk2}
    Operations = {"draw"}
    Retries = 1
    MaxCreates = 2
    MaxOrders = 2
    MaxFaults = 2
    MaxTxs = 2
    MaxNow = 0
SPECIFICATION Spec
INVARIANTS TypeOK UnrecordedHasCause PreimageFirst OneRowPerPurchase
INVARIANTS OneActiveLottery OrphanHasCause RegisteredExists RecordsAreOpen OneJobPerOperation
SYMMETRY DeskSymmetry
CHECK_DEADLOCK FALSE
