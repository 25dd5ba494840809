SPECIFICATION Spec
CONSTANTS
    m1 = m1
    m2 = m2
    m3 = m3
    tt = tt
    tx = tx
    tu = tu
    tl = tl
    ty = ty
    Null = Null
    Tx = {m1, m2, m3, tt, tx, tu, tl, ty}
    CoinBase = {m1, m2, m3, tl}
    vin <- MCvin
    Spendable <- MCSpendable
    Blocks <- IssuingBlocks
    MaxHeight = 3
    ToServer = {tl}
    Message = {ty}
    Nonstandard = {}
    Seasons = {TRUE, FALSE}
INVARIANTS
    PoolIsConsistent
    NoneIsConfirmed
    OnlyConflictsAreRemoved
    FlushedBlocksAreResurrected
    TemplatesConnect
