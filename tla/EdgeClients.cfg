\* The operator's application against its connection, its models and its camera.
SPECIFICATION Spec
CONSTANTS
    None = None
    Zero = Zero
    Goals = {g1, g2}
    HistoryLen = 2
    MaxGeneration = 3
    MaxRequests = 2
    MaxStarts = 1
INVARIANTS ClientsInv NothingStaleIsHanded
PROPERTIES PendingLeaves RequestsEnd
CHECK_DEADLOCK FALSE
