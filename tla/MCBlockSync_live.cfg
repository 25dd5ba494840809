SPECIFICATION FairSpec
CONSTANTS
    p1 = p1
    p2 = p2
    g = g
    a = a
    b = b
    c = c
    d = d
    Peer = {p1, p2}
    Block = {a, b}
    Announced = {a, b}
    Start = {g}
    Parent <- MCSiblings
    Bad = {a, b}
    MaxOrphans = 0
    MaxInTransit = 2
    Timeout = 1
    MaxTime = 3
PROPERTIES
    StalledAreGivenUp
CHECK_DEADLOCK FALSE
