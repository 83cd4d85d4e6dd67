SPECIFICATION Spec
CONSTANTS
    Packets = {p1, p2}
    Labels = {"ReliableDataChannel", "other"}
    Candidates = {}
    RemoteErrors = {}
    IceStates = {3}
    LeftoverStates = {"connecting", "open", "closing", "closed"}
    NegotiationTimeout = 2
    StatsInterval = 2
    Minute = 1
    Boot = 1
    MaxTime = 1
    MaxTasks = 2
    MaxSends = 2
INVARIANTS
    TypeOK
    ReliableInOrder
    ActiveImpliesOpened
    CloseFindsConnection
    InitializedBeforeUse
PROPERTIES
    ImplementsContract
CHECK_DEADLOCK FALSE
SYMMETRY PacketSymmetry
