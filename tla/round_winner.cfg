CONSTANTS
    Heads <- MCHeads
    Buyers = {charlie, b1}
    Charlie = charlie
    None = none
    Prize = 1
    CloseTimes = {0}
    MintWindow = 0
    PayDelay = 1
    ScriptPayDelay = 1
    Tools = {"create", "buy", "pay", "close", "collect"}
    Draws = {d1}
    Timeout = 1
    ClaimOffset = 1
    MaxAttempts = 3
    Leftovers = {b1}
    WalkIns = {b1}
    MaxFailures = 1
    MaxTimeouts = 1
    MaxScripts = 1
    MaxTxs = 7
    MaxNow = 1
SPECIFICATION Spec
INVARIANTS TypeOK OneWinner OnlyWinnersArePaid WinnerBeforeIda SurplusHasCause
CHECK_DEADLOCK FALSE
