SPECIFICATION PagesSpec
CONSTANTS
    None = None
    ann = ann
    bob = bob
    zed = zed
    file = file
    paste = paste
    Names = {ann, bob, zed}
    Missing = {zed}
    LocaleRank <- BulkRanks
    ByteRank <- BulkRanks
    Texts = {file, paste}
    Parsed <- BulkParsed
    Edits <- BulkEdits
    NearTokens = {ft}
    FtTokens = {ft}
    ChainTokens = {usdc}
    MaxPending = 2
    MaxSubmits = 1
    MaxHaste = 1
    near = near
    usdc = usdc
    Sheets <- AllSheets
    Symbol = near
    MaxRecipients = 2
    sell = sell
    buy = buy
    Pairs = {sell, buy}
    Amounts = {1}
    NoAmount = 0
    Route <- ExchangeRoutes
    FirstPair = sell
    NullQuote = NullQuote
    MaxQuotes = 3
    MaxOrders = 2
    cat = cat
    governance = governance
    requestor = requestor
    Accounts = {ann, bob, cat}
    Roles = {governance, requestor}
    Nearn = cat
    NearnRoles = {requestor}
    FirstPolicy <- MembersFirst
    Others <- MembersOthers
    Link <- MembersLink
    AddForms <- MembersAdded
    MaxRequests = 1
    MaxDialogs = 1
    earn = earn
    notes = notes
    tour = tour
    Items = {earn, notes, tour}
    Priority <- Priorities
    MaxPauses = 3
    ft = ft
    alice = alice
    sol = sol
    solana = solana
    nearNetwork = nearNetwork
    NearCom = NearCom
    NoNetwork = NoNetwork
    NoAddress = NoAddress
    Tokens = {ft}
    Addresses = {alice, sol}
    Networks = {NearCom, nearNetwork, solana}
    Kind <- Kinds
    NearFormat = {alice}
    ValidFor <- Valid
    Offered <- Networked
    Fits <- Fitting
    Lower <- LowerCase
    isConfidential = FALSE
    FirstToken = ft
    MaxPaymentQuotes = 2
    MaxPayments = 2
    dao = dao
    other = other
    Treasuries = {dao, other}
    MemberOf = {dao}
    Requested <- WalletTransactions
    MaxPopups = 1
    MaxConfirms = 2
    MaxReloads = 1
    MaxFetches = 2
    btc = btc
    others = others
    eth = eth
    bitcoin = bitcoin
    nearUsdc = nearUsdc
    nearMainnet = nearMainnet
    otherNear = otherNear
    ByName <- DepositNames
    Other = others
    Usdc = usdc
    NetworksOf <- DepositNetworks
    NearChain = {nearUsdc, nearMainnet, otherNear}
    NearMainnet = nearMainnet
    Portfolios <- DepositPortfolios
    PrefillLinks <- DepositLinks
    Everything = Everything
    MaxAddressRequests = 6
INVARIANTS
    ReviewedRowsAreProposed
    ProposedAccountsExist
    
    AcceptedListIsTheSheet
    FirstReviewIsProposed
    QuotesAreProposedOnce
    RolesStayManned
    AddsGrantTheirRoles
    QueueServes
    PaymentsAreAsReviewed
    DepositsAreUsedOnce
    
    CopiedAddressIsSelections
    LoadingIsAwaited
CHECK_DEADLOCK FALSE
