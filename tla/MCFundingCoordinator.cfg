SPECIFICATION Spec
CONSTANTS
    s1 = s1
    s2 = s2
    w1 = w1
    w2 = w2
    operator = operator
    publisher = publisher
    coordinator = coordinator
    routerA = routerA
    weth = weth
    StockTokens = {s1}
    ApprovedStockTokens = {s1}
    Accounts = {operator, publisher, coordinator}
    acquisitionExecutor = coordinator
    acquisitionOperator = operator
    rootPublisher = publisher
    WethAmounts = {1}
    StockAmounts = {1, 5}
    MaxWeth = 2
    Routers = {routerA, weth}
    NoRouter = NoRouter
    InvalidRouters = {weth}
    Quotes <- PipelineQuotes
    Cycles = {0, 1}
    Windows <- ClaimWindows
    Claimants = {w1, w2}
    ZeroAddress = ZeroAddress
    Amounts = {1, 2}
    Roots <- PipelineRoots
    Fundings = {}
    MaxAcquisitions = 2
    MaxTime = 3
    MaxDonation = 1
    Fees = {0, 1}
CHECK_DEADLOCK FALSE
INVARIANTS  StockTraced
PROPERTIES KeepsPromise
