SPECIFICATION Spec
CONSTANTS
    miner = miner
    payment = payment
    none = none
    Holder = {miner, payment}
    None = none
    nKeyPool = 1
    MaxKeys = 7
INVARIANTS
    KeysAreApart
    FileIsWhole
    PoolNeverRunsDry
CHECK_DEADLOCK FALSE
