SPECIFICATION RialtoSpec
CONSTANTS
    r1 = r1
    r2 = r2
    None = None
    Routers = {r1, r2}
    PinnedRouters = {r1}
    Decimals <- MCDecimals
    VenueQuotes <- MCQuotes
    Policies <- MCPolicies
    Configs <- MCConfigs
    Lifetimes = {0, 2}
    Skews = {0, 1}
    Multiplier = 3
    MultiplierUnit = 2
    SELL_TOKEN_DECIMALS = 1
    maxStaleness = 2
    MaxMoves = 1
    MaxPlans = 1
    Answers = {0, 2, 3}
    maxWethFeedAge = 2
    maxNvdaFeedAge = 1
    wethTokenUnit = 10
    nvdaTokenUnit = 10
    wethFeedUnit = 1
    nvdaFeedUnit = 1
    sequencerRecoveryGrace = 1
    MaxTime = 4
    StockTokens = {}
    MaxDonation = 0
    Fees = {0}
CHECK_DEADLOCK FALSE
INVARIANTS PlannedRouterWasActive PlannedMinimumInBand 
    ReportIsExact
