\* The node on its own: two sessions, two activations, two goal changes.
SPECIFICATION FairSpec
CONSTANTS
    None = None
    Threads = {t1, t2}
    ImageMaxAge = 0
    ContextSize = 1
    Attempts = 2
    MaxSessions = 2
    MaxActivations = 2
    Goals = {g, bad}
    BadGoals = {bad}
    MaxFrames = 1
    MaxGeneration = 2
INVARIANTS LocalInv ReadyMeansArmed
PROPERTIES CrashOnlyInCleanup DeadCameraStops LaunchActivates
CHECK_DEADLOCK FALSE
