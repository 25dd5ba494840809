SPECIFICATION WalletSpec
CONSTANTS
    m1 = m1
    m2 = m2
    m3 = m3
    ta = ta
    tb = tb
    tc = tc
    Null = Null
    None = None
    Tx = {m1, m2, m3, ta, tb, tc}
    CoinBase = {m1, m2, m3}
    vin <- MCvin
    Spendable <- MCSpendable
    Blocks <- WalletBlocks
    MaxHeight = 2
    ToServer = {}
    Message = {}
    Nonstandard = {}
    Seasons = {TRUE, FALSE}
    Mine <- MCMine
    Own = {ta, tc}
    HashOrder <- MCHashOrder
    MaxTransactions = 9
    Bad = Bad
INVARIANTS
    WalletIsExact
    BalanceIsUnspent
    OffersAreAcceptable
    BranchesConnect
PROPERTIES
    CreditsStayExact
