\* Embeddings stop coming, also across a restart, under fairness.
SPECIFICATION FairSpec
CONSTANTS
    None = None
    Goals = {g}
    OdomGoals = {}
    UnsupportedGoals = {}
    Images = {i1}
    MaxFrames = 1
    MaxAge = 0
    HardTimeout = 1
    ImageMaxAge = 0
    OdomMaxAge = 0
    MaxGeneration = 2
    MaxFrameId = 2
    MaxActivations = 2
    MaxSessions = 2
    MaxBoots = 1
    WireCapacity = 1
INVARIANT IInv
PROPERTY UnansweredStops
CHECK_DEADLOCK FALSE
