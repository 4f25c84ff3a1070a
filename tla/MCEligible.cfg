SPECIFICATION DashboardSpec
CONSTANTS
    Accounts = {a, b}
    EligibleAccounts = {a}
    Entitled = {a}
    Entitlement = 2
    CycleFunded = 4
    Nobody = Nobody
    MaxSwitches = 2
    MaxCallbacks = 1
    MaxWorld = 0
CHECK_DEADLOCK FALSE
INVARIANT EligibleAccountSigned
