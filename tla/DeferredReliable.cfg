SPECIFICATION Spec
CONSTANTS
    Packets = {p1}
    Labels = {"ReliableDataChannel", "other"}
    Candidates = {}
    RemoteErrors = {}
    IceStates = {2}
    LeftoverStates = {"connecting", "open"}
    NegotiationTimeout = 1
    StatsInterval = 1
    Minute = 1
    Boot = 1
    MaxTime = 1
    MaxTasks = 2
    MaxSends = 1
INVARIANT ReliableSentOnOpenChannel
CHECK_DEADLOCK FALSE
