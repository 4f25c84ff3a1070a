SPECIFICATION SettlementSpec
CONSTANTS
    safe = safe
    safe2 = safe2
    r1 = r1
    r2 = r2
    noContract = noContract
    Nobody = Nobody
    Callers = {safe, safe2}
    deployer = safe
    RouterAddresses = {r1, r2, noContract}
    BadRouters = {noContract}
    codeOf <- RouterCode
    CodeHashes = {1, 2}
    Selectors = {0, 1}
    Caps = {0, 2, 3}
    CANARY_MAX_SELL_WETH = 2
    MAX_DEADLINE_HORIZON = 1
    Intents <- MCIntents
    StockOutputs = {1, 3, 5}
    MaxWeth = 2
    MaxSettlements = 2
    Answers = {0, 2, 3}
    maxWethFeedAge = 1
    maxNvdaFeedAge = 1
    wethTokenUnit = 2
    nvdaTokenUnit = 2
    wethFeedUnit = 1
    nvdaFeedUnit = 1
    sequencerRecoveryGrace = 1
    MaxTime = 3
    StockTokens = {}
    MaxDonation = 0
    Fees = {0}
CHECK_DEADLOCK FALSE
INVARIANTS SettledOnce SpendingBounded NeverBelowFairValue
PROPERTY SettledOnReviewedCode
