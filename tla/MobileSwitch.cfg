\* The dead man's switch, two server threads.
SPECIFICATION MobileFairSpec
CONSTANTS
    None = None
    Empty = Empty
    Paths = {p, Empty}
    MovingPaths = {p}
    HoldTimeout = 1
    Workers = {w1, w2}
    ChunkMaxAge = 2
    MaxDecode = 1
    BridgePeriod = 2
    FollowerPeriod = 1
    PathLatency = 1
INVARIANT SwitchInv
PROPERTIES QuietPhoneStops SwitchSpec EarlyStopBounded
CHECK_DEADLOCK FALSE
