SPECIFICATION RelaySpec
CONSTANTS
    r1 = r1
    r2 = r2
    r3 = r3
    a1 = a1
    a2 = a2
    dao = dao
    old = old
    t1 = t1
    t2 = t2
    Relays = {r1, r2, r3}
    Asked <- MCAsked
    Treasuries = {dao, old}
    Actions = {a1, a2}
    Targets = {t1, t2}
    Unlimited = {dao}
    Legacy = {old}
    Bond <- MCBond
    GasCredits = 1
    RegCost = 1
    MaxTopUp = 2
    MaxSponsoring = 4
    MaxTargets = 1
    MaxAttempts = 2
    MaxCrashes = 1
INVARIANTS
    FrontedIsBounded
    VotesFindTokensRegistered
    CreditsForLandedActions
    PaidWasSpent
PROPERTIES
    RelaysEnd
CHECK_DEADLOCK FALSE
