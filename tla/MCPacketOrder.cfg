SPECIFICATION OpSpec
CONSTANTS
    DeployerSteps = 2
    TesterSteps = 1
    Tasks = {t1, t2}
    Overlap = TRUE
    MaxRequests = 2
    MaxReloads = 0
    MaxFaults = 0
CHECK_DEADLOCK FALSE
INVARIANT InPacketOrder
