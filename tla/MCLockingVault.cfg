SPECIFICATION LockFairSpec
CONSTANTS
    safe = safe
    holder = holder
    Callers = {safe, holder}
    Holders = {holder}
    deployer = safe
    Nobody = Nobody
    StockTokens = {}
    DURATION_7D = 1
    DURATION_14D = 2
    DURATION_21D = 3
    DURATION_30D = 4
    LockAmounts = {0, 1, 9}
    LockDurations = {0, 1, 3, 5}
    MaxLocks = 2
    MaxDonation = 1
    MaxTime = 3
    Fees = {0, 1}
CHECK_DEADLOCK FALSE
INVARIANTS PrincipalAccounted VaultCoversLocks
PROPERTIES HistoryIsFrozen MaturedLocksReturn
