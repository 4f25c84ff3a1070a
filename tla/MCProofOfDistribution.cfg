SPECIFICATION DistributionSpec
CONSTANTS
    Wallets = {"alice", "bob"}
    Zero = "0x0"
    EPOCH_SECONDS = 3
    TIER_SPECS <- MCTiers
    Fixtures <- CycleFixtures
    Accounts = {"alice", "bob"}
    Pin = 2
    LastBlock = 3
    LOG_CHUNK = 1
    Amount = 3
    DeepReorgs = FALSE
    MaxReorgs = 1
CHECK_DEADLOCK FALSE
INVARIANTS WeightsAreTheIntegral EntitlementsAreFairShares SnapshotIsPinnedState
