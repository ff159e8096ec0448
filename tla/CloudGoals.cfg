\* Goal changes against replies and ticks, one lifetime of the node.
SPECIFICATION Spec
CONSTANTS
    None = None
    Goals = {g, odom}
    OdomGoals = {odom}
    UnsupportedGoals = {}
    Images = {i1, i2}
    MaxFrames = 2
    MaxAge = 1
    HardTimeout = 1
    ImageMaxAge = 0
    OdomMaxAge = 0
    MaxGeneration = 2
    MaxFrameId = 3
    MaxActivations = 1
    MaxSessions = 1
    MaxBoots = 0
    WireCapacity = 2
INVARIANTS CachedForCurrentGoal PairingInv OneLateDrive
SYMMETRY ImageSymmetry
CHECK_DEADLOCK FALSE
