CONSTANTS
    Owners = {rest, mcp}
    MaxSeq = 4
    Unaddressed = {}
    MaxRetry = 1
    Limit = 2
    Burst = 1
    Scenarios <- Rules
    NoRow = NoRow
SPECIFICATION Spec
SYMMETRY Symmetry
INVARIANTS DailyCap
PROPERTIES StopHolds
CHECK_DEADLOCK FALSE
