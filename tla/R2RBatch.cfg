SPECIFICATION Spec
CONSTANTS
    NumEpisodes = 2
    MaxChildren = 3
    MaxSteps = 2
    MaxInFlight = 2
    Policies = {planned, other}
    PlannedPolicy = planned
    StartupRetries = 1
    MaxRuns = 2
    MaxMishaps = 1
    None = None
INVARIANTS BatchInv RowIsOwn
PROPERTIES BatchEnds CampaignSpec
CHECK_DEADLOCK FALSE
