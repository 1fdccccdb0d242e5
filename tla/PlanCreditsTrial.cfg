SPECIFICATION CreditsSpec
CONSTANTS
    af = af
    ap = ap
    x1 = x1
    x2 = x2
    x3 = x3
    y1 = y1
    y2 = y2
    g1 = g1
    Accounts = {af}
    PlanOf <- MCPlanOf
    Monthly <- MCMonthly
    Trial <- MCTrial
    None = None
    Requests = {x1, x2}
    Wants <- MCWantsTrial
    MaxMonth = 1
    MaxFaults = 0
INVARIANTS
    TrialIsOneTime
CHECK_DEADLOCK FALSE
