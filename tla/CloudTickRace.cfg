\* A goal change between the status check and the fetch of the action tick.
SPECIFICATION Spec
CONSTANTS
    None = None
    Goals = {g}
    OdomGoals = {}
    UnsupportedGoals = {}
    Images = {i1}
    MaxFrames = 1
    MaxAge = 0
    HardTimeout = 1
    ImageMaxAge = 0
    OdomMaxAge = 0
    MaxGeneration = 2
    MaxFrameId = 2
    MaxActivations = 1
    MaxSessions = 1
    MaxBoots = 0
    WireCapacity = 1
INVARIANT TickSurvivesEmptyCache
CHECK_DEADLOCK FALSE
