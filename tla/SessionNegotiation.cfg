SPECIFICATION Spec
CONSTANTS
    Packets = {p1}
    Labels = {}
    Candidates = {"candidate"}
    RemoteErrors = {"RemoteError"}
    IceStates = {1, 4}
    LeftoverStates = {"open"}
    NegotiationTimeout = 1
    StatsInterval = 1
    Minute = 1
    Boot = 0
    MaxTime = 2
    MaxTasks = 1
    MaxSends = 0
INVARIANTS
    AnswerAfterAccept
    AtMostTwoAnswers
    OneStatsRequestPerThread
PROPERTIES
    NegotiationOnlyAdvances
    OutgoingGetsConnection
    CloseTakesEffect
CHECK_DEADLOCK FALSE
