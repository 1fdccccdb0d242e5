SPECIFICATION ServiceSpec
CONSTANTS
    dao = dao
    Contract = Contract
    near = near
    usdc = usdc
    alice = alice
    evm = evm
    l1 = l1
    l2 = l2
    r1 = r1
    r2 = r2
    NoList = NoList
    NoPlan = NoPlan
    Accounts = {dao, Contract}
    ListIds = {l1, l2}
    Tokens = {near, usdc}
    Native = {near}
    Intents = {}
    Payees = {alice, evm}
    NearPayees = {alice}
    Inputs <- MCInputs
    MaxRecords = 2
    MaxCredits = 10
    MaxU128 = 2
    Requests = {r1, r2}
    Wanted <- MCWanted
    MaxRecipients = 2
    WorkerBatch = 1
    InitialQuota = 1
    MaxCrashes = 1
INVARIANTS
    
    ChargedForLists

    
