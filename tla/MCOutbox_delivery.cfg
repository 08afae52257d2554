CONSTANTS
    Owners = {}
    MaxSeq = 3
    Unaddressed = {1}
    MaxRetry = 2
    Limit = 2
    Burst = 1
    Scenarios <- Rough
    NoRow = NoRow
SPECIFICATION FairSpec
INVARIANTS TypeOK NoResendLoop NoDuplicate FirstTriesInOrder
PROPERTIES KeepsPromise
CHECK_DEADLOCK FALSE
