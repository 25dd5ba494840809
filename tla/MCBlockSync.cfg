SPECIFICATION Spec
CONSTANTS
    p1 = p1
    p2 = p2
    g = g
    a = a
    b = b
    c = c
    d = d
    Peer = {p1, p2}
    Block = {a, b, c, d}
    Announced = {a, b}
    Start = {g}
    Parent <- MCParent
    Bad = {c}
    MaxOrphans = 1
    MaxInTransit = 2
    Timeout = 1
    MaxTime = 2
INVARIANTS
    DownloadIsConsistent
    OrphansAreConsistent
CHECK_DEADLOCK FALSE
