CONSTANTS
    Owners = {}
    MaxSeq = 2
    Unaddressed = {}
    MaxRetry = 2
    Limit = 2
    Burst = 1
    Scenarios <- ResetOnce
    NoRow = NoRow
SPECIFICATION Spec
INVARIANTS CapSurvivesRestart
CHECK_DEADLOCK FALSE
