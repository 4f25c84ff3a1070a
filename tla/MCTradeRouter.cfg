SPECIFICATION RouterSpec
CONSTANTS
    safe = safe
    alice = alice
    weth = weth
    bps = bps
    router = router
    adapter = adapter
    venue = venue
    stockBudgetRecipient = vault
    Nobody = Nobody
    Callers = {safe, alice}
    deployer = safe
    Recipients = {alice, vault, router, Nobody}
    GrossInputs = {0, 99, 100}
    Minimums = {0, 4}
    SwapOutputs = {3, 101}
    InitialBalances <- PoolAndTrader
    MaxTrades = 2
    MaxDonation = 1
    StockTokens = {}
    MaxTime = 1
    Fees = {0}
CHECK_DEADLOCK FALSE
INVARIANTS OnlyGiftsRemain SupplyAccountsForBurns BudgetsMatchRates
