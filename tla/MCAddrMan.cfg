SPECIFICATION AddrManSpec
CONSTANTS
    s1 = s1
    s2 = s2
    s3 = s3
    u1 = u1
    u2 = u2
    u3 = u3
    k1 = k1
    NetAddr = {a1, a2, a3, a4}
    Source = {s1, s2, s3}
    NewBucket = {u1, u2, u3}
    TriedBucket = {k1}
    GetNewBucket <- MCGetNewBucket
    GetTriedBucket <- MCGetTriedBucket
    ADDRMAN_NEW_BUCKET_SIZE = 1
    ADDRMAN_TRIED_BUCKET_SIZE = 2
    ADDRMAN_NEW_BUCKETS_PER_ADDRESS = 2
    ADDRMAN_TRIED_ENTRIES_INSPECT_ON_EVICT = 2
    nNodes <- MCnNodes
    MaxId = 4
SYMMETRY MCSymmetry
INVARIANTS
    Check_
PROPERTIES
    TablesAreKept
