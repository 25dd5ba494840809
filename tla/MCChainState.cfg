SPECIFICATION FairSpec
CONSTANTS
    g = g
    a1 = a1
    a2 = a2
    a3 = a3
    b1 = b1
    b2 = b2
    b3 = b3
    c2 = c2
    Block = {g, a1, a2, a3, b1, b2, b3, c2}
    Genesis = g
    None = None
    Parent <- MCParent
    ChainWork <- MCChainWork
    Addresses <- MCAddresses
    Invalid = {b2}
    Corrupt = {a3}
INVARIANTS TypeOK BestChainIsActive CandidatesAreTheNotFailed FailedAreInvalid
    CoinsRecoverable
PROPERTIES ImplementsBestChain ActivationReturns
CHECK_DEADLOCK FALSE
