SPECIFICATION WebSpec
CONSTANTS
    Kinds = {"lock", "withdraw", "claim"}
    Funded = 4
    Distribution = 2
    MaxRuns = 2
    MaxOtherClaims = 1
    Accounts = {a, b}
    EligibleAccounts = {a}
    Entitled = {a}
    Entitlement = 2
    CycleFunded = 4
    Nobody = Nobody
    MaxSwitches = 3
    MaxCallbacks = 2
    MaxWorld = 2
    Gross = {100}
    Spent = {1}
    Acquired = 5
    ShownCycle = "c1"
    OtherCycle = "c2"
    HeadBlock = 4
    Confirmations = 1
    ChunkSize = 2
    NoRow = NoRow
    MaxBlocks = 4
    MaxReorgs = 1
    MaxEffects = 2
CHECK_DEADLOCK FALSE
INVARIANTS  LockPanelSettles 
    ReportIsSnapshot 
