CONSTANTS
    Owners = {rest}
    MaxSeq = 2
    Unaddressed = {}
    MaxRetry = 2
    Limit = 2
    Burst = 1
    Scenarios <- BanOnce
    NoRow = NoRow
SPECIFICATION FairSpec
PROPERTIES BanHolds
CHECK_DEADLOCK FALSE
