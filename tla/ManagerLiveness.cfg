SPECIFICATION Spec
CONSTANTS
    Ids = {i1}
    Sessions = {s1}
    ApiThreads = {a1}
    Signal = signal
    NoRecord = noRecord
    Null = null
    MaxTasks = 2
PROPERTIES
    DeadSessionLeaves
    MutexReleased
