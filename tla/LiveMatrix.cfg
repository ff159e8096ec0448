\* Two policies or two episodes, started twice; small windows, so that frames are left out.
SPECIFICATION FairSpec
CONSTANTS
    None = None
    ContextSize = 2
    NavidaWindow = 4
    NavidaHistory = 2
    NavilaWindow = 4
    NavilaFrames = 3
    ContextFrames = 2
    HistoryLen = 1
    Bridge = 0
    Clients = {0, 1, 2, 3, 4}
    MaxEpisodes = 4
    MaxFaults = 1
    MaxJobs = 4
    MaxQueue = 2
    Plans <- SmallPlans
INVARIANTS MatrixInv OwnServer OwnMemory
PROPERTIES MatrixEnds
CHECK_DEADLOCK FALSE
