\* Goals, stops, replies, odometry and power answers in any order.
SPECIFICATION ExecutorSpec
CONSTANTS
    None = None
    Goals = {g1, g2}
    MaxChunk = 2
    MaxCalls = 2
INVARIANTS ExecutorInv ActsForCurrentGoal
PROPERTIES StopIsLatched LateAnswerIsInert
CHECK_DEADLOCK FALSE
