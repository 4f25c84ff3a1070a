SPECIFICATION CustodySpec
CONSTANTS
    c1 = c1
    c2 = c2
    w1 = w1
    w2 = w2
    s1 = s1
    s2 = s2
    Cycles = {c1, c2}
    Claimants = {w1, w2}
    StockTokens = {s1, s2}
    ZeroAddress = ZeroAddress
    executor = executor
    stranger = stranger
    ApprovedStockTokens = {s1}
    Accounts = {executor, stranger}
    acquisitionExecutor = executor
    WethAmounts = {0, 1, 2}
    StockAmounts = {0, 1, 6}
    MaxWeth = 3
    Amounts = {0, 1, 2, 3}
    Roots <- MCRoots
    Windows <- ClaimWindows
    Fundings <- MCFundings
    MaxDonation = 1
    MaxTime = 4
    Fees = {0, 1}
CHECK_DEADLOCK FALSE
INVARIANTS  PaidOneLeaf NoClaimStarved VaultAccountsBalance
PROPERTIES RecoveryIsFinal EverythingLeaves
