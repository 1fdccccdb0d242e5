SPECIFICATION GoldSpec
CONSTANTS
    None = None
    sol = sol
    zec = zec
    e1 = e1
    e2 = e2
    swap = swap
    Events = {e1, e2, swap}
    Assets = {sol, zec}
    Facts <- MCFacts
    Reportable <- MCDeposits
    Legs <- MCLegs
    OwnLeg <- MCOwnLeg
    LiveBalances = {}
    Margin = 1
    LegWindow = 3
    MergeWindow = 1
    LastMayFail = FALSE
    MaxChanges = 2
    MaxStops = 0
PROPERTIES
    LegsReachDeposits
CHECK_DEADLOCK FALSE
