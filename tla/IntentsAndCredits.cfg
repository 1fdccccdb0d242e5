SPECIFICATION ServicesSpec
CONSTANTS
    h1 = h1
    h2 = h2
    v1 = v1
    v2 = v2
    Intents = {h1, h2}
    Votes = {v1, v2}
    Carries <- MCTogether
    MayFail = TRUE
    MaxStores = 2
    MaxCrashes = 1
    af = af
    ap = ap
    x1 = x1
    x2 = x2
    x3 = x3
    y1 = y1
    y2 = y2
    g1 = g1
    Accounts = {ap}
    PlanOf <- MCPlanOf
    Monthly <- MCMonthly
    Trial <- MCTrial
    None = None
    Requests = {x1, x2, x3, y1, y2, g1}
    Wants <- MCWantsPlus
    MaxMonth = 2
    MaxFaults = 1
INVARIANTS
    SubmittedWasSigned
    ExportsAreCharged
PROPERTIES
    SignedIntentsSettle
    DueAccountsAreReset
CHECK_DEADLOCK FALSE
