SPECIFICATION Spec
CONSTANTS
    Packets = {p1}
    Labels = {}
    Candidates = {}
    RemoteErrors = {}
    IceStates = {1}
    LeftoverStates = {"open"}
    NegotiationTimeout = 1
    StatsInterval = 1
    Minute = 1
    Boot = 0
    MaxTime = 2
    MaxTasks = 1
    MaxSends = 0
INVARIANT TimeoutNamesTheWait
CHECK_DEADLOCK FALSE
