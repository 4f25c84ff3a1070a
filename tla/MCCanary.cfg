SPECIFICATION CanarySpec
CONSTANTS
    DeployerSteps = 2
    TesterSteps = 1
    Tasks = {t1}
    Overlap = FALSE
    MaxRequests = 4
    MaxReloads = 3
    MaxFaults = 2
    None = None
    Confirmations = 1
    MaxPriceAge = 1
    ValidityWindow = 3
    PriceUnit = 5
    Quotes = {3, 4}
    LpUsd = 10
    TradeUsd = 2
    CapUsd = 14
    GasEstimates = {1, 2}
    OtherGasEstimate = 1
    GasMultiplierPct = 120
    MaxFee = 1
    Code = {v1, v2}
    ToolsOverlap = FALSE
    MaxBlocks = 3
    MaxReorgs = 1
    MaxClock = 2
    MaxCaptures = 2
    MaxCollections = 1
    MaxGenerations = 2
    MaxPreflights = 1
    Completed = 2
    AnchorCost = 1
    ReviewedCosts = {4, 6, 8}
    PaidPrincipal = 8
    MaxHeight = 4
    MaxShuffles = 1
    MaxRecoveryCaptures = 2
    MaxRecoveryGenerations = 2
SYMMETRY symmetry
CHECK_DEADLOCK FALSE
INVARIANT NeverBlindRetry
INVARIANT InPacketOrder
INVARIANT AuthorizationIsRehearsal
INVARIANT ExposureWithinCap
INVARIANT PriceWasFresh
INVARIANT PreflightSawRehearsal
INVARIANT CaptureIsExact
INVARIANT CeilingsWithinCap
