SPECIFICATION Spec
CONSTANTS
    Ids = {i1, i2}
    Sessions = {s1}
    ApiThreads = {a1}
    Signal = signal
    NoRecord = noRecord
    Null = null
    MaxTasks = 2
INVARIANTS
    TypeOK
    RemovalPending
PROPERTY ImplementsTable
SYMMETRY ManagerSymmetry
