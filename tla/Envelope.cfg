SPECIFICATION Spec
CONSTANTS
    Sockets = {a, b}
    Keys = {k1, k2}
    NoKey = NoKey
    Sizes = {0, 15, 32}
    Buffers = {3, 47, 64, 2100}
    MaxWire = 2
INVARIANTS
    WritesInBounds
    RoundTrip
