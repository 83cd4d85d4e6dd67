SPECIFICATION Spec
CONSTANTS
    Ids = {i1}
    Addrs = {a1}
    Callers = {c1}
    None = none
    Expiry = 1
    MaxTime = 2
    MaxTasks = 1
INVARIANT ExpiredPeerForgotten
