\* Sessions started and stopped beside frames being saved, voice notes and one another.
SPECIFICATION RecorderSpec
CONSTANTS
    Null = Null
    MaxSessions = 2
    MaxFrames = 2
    MaxOpenings = 2
    MaxTalks = 1
INVARIANTS RecorderInv
PROPERTY StopsFinish
CHECK_DEADLOCK FALSE
