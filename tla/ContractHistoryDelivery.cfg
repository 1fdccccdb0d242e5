SPECIFICATION PartsSpec
CONSTANTS
    dao = dao
    Contract = Contract
    near = near
    usdc = usdc
    btc = btc
    alice = alice
    evm = evm
    l1 = l1
    l2 = l2
    NoList = NoList
    Accounts = {dao, Contract}
    ListIds = {l1, l2}
    Tokens = {near, usdc, btc}
    Native = {near}
    Intents = {btc}
    Payees = {alice, evm}
    NearPayees = {alice}
    Inputs <- MCInputs
    MaxRecords = 2
    MaxCredits = 3
    MaxU128 = 3
    None = None
    sol = sol
    zec = zec
    e1 = e1
    e2 = e2
    swap = swap
    Events = {e1, e2, swap}
    Assets = {sol, zec}
    Facts <- MCFacts
    Reportable <- MCReportable
    Legs <- MCMerged
    OwnLeg <- MCNoLeg
    LiveBalances = {6}
    Margin = 1
    LegWindow = 3
    MergeWindow = 1
    LastMayFail = FALSE
    MaxChanges = 3
    MaxStops = 1
    d1 = d1
    d2 = d2
    c1 = c1
    c2 = c2
    t1 = t1
    k1 = k1
    Daos = {d1, d2}
    Chats = {c1, c2}
    NoChat = NoChat
    ConnectTokens = {t1}
    TokenChat <- MCTokenChat
    Calls = {k1}
    Connected <- MCApart
    Losable = {c2}
    BatchSize = 2
    MaxNotices = 2
    MaxFaults = 1
    MaxRestarts = 1
INVARIANTS
    PaidExactlyOnce
    CreditsConserved
    
    CleanGoldIsReplay
    LostMarksAreRepeated
    
    NoHistoryIsSent
PROPERTIES
    DecisionsAreFinal
    LedgerSpec
    NoticesAreDelivered
CHECK_DEADLOCK FALSE
