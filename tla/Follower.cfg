\* Paths, frame mismatches and forced stops in any order.
SPECIFICATION FairSpec
CONSTANTS
    None = None
    Empty = Empty
    Paths = {p1, p2, slow, Empty}
    MovingPaths = {p1, p2}
    HoldTimeout = 2
INVARIANT FollowerInv
PROPERTIES   StopArrives
