SPECIFICATION LedgerSpec
CONSTANTS
    m1 = m1
    m2 = m2
    m3 = m3
    tt = tt
    tx = tx
    tu = tu
    td = td
    tl = tl
    ts = ts
    Tx = {m1, m2, m3, tt, tx, tu, td, tl, ts}
    CoinBase = {m1, m2, m3, tl}
    vin <- MCvin
    Spendable <- MCSpendable
    Blocks <- MCBlocks
    MaxHeight = 4
    Outputs = {0, 1, 2, 9, 10, 17, 18, 26}
    Numbers = {0, 1, 63, 64, 127, 128, 8191, 8192, 16511, 16512, 2113663, 2113664}
    Amounts = {0, 1, 9, 10, 11, 99, 100, 101, 19, 90, 109, 1000, 99999999, 100000000, 900000000, 1000000000, 1900000000, 2000000000, 2100000000, 1234567, 22000001}
INVARIANTS
    CoinsAreTheChains
    DisconnectIsClean
    StoredFormsReadBack
