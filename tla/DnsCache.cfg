SPECIFICATION Spec
CONSTANTS
    Keys = {k1, k2}
    Results = {r1, r2}
    None = none
    Lifetime = 2
    MaxTime = 3
PROPERTY ImplementsResolverCache
