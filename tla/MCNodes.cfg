SPECIFICATION FairSpec
CONSTANTS
    n1 = n1
    n2 = n2
    opencon = opencon
    peer = peer
    NULL = NULL
    Heap = {n1, n2}
    Opener = {opencon}
    Addr = {peer}
    Caller = {peer}
    MaxOutbound = 1
    MaxInbound = 1
INVARIANTS
    UsedNodesAreKept
    ConnectionsAreGranted
PROPERTIES
    DisconnectedAreFreed
CHECK_DEADLOCK FALSE
