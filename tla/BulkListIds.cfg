SPECIFICATION BulkSpec
CONSTANTS
    None = None
    a1 = a1
    a_b = a_b
    ft = ft
    file = file
    Names = {a1, a_b}
    Missing = {}
    LocaleRank <- InLocale
    ByteRank <- InBytes
    Texts = {file}
    Parsed <- OneList
    Edits = {}
    NearTokens = {ft}
    FtTokens = {ft}
    ChainTokens = {}
    MaxPending = 2
    MaxSubmits = 1
    MaxHaste = 0
INVARIANTS
    ListIdsMatch
CHECK_DEADLOCK FALSE
