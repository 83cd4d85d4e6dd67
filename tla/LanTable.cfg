SPECIFICATION Spec
CONSTANTS
    Ids = {i1, i2}
    Addrs = {a1, a2}
    Callers = {c1, c2}
    None = none
    Expiry = 0
    MaxTime = 1
    MaxTasks = 2
INVARIANTS
    TypeOK
    SentToLatestAddress
    CheckedPeerIsFound
    WaitersQueued
PROPERTIES
    QueryMovesUp
    QueryAnswered
    DiscoveryStarts
    
