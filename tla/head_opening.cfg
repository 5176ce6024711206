CONSTANTS
    Cases <- MCCases
    MIN_COMMIT_LOVELACE = 10
    COMMIT_RETRIES = 1
    MaxInits = 2
    MaxTroubles = 1
SPECIFICATION Spec
INVARIANTS TypeOK SuccessIsOpen NoEmptyCommit
PROPERTY InitOpens
CHECK_DEADLOCK FALSE
