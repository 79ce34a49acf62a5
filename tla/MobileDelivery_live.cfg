SPECIFICATION FairSpec
CONSTANTS
    NumRows = 1
    Browsers = {"b1", "b2"}
    MaxAttempts = 2
    FirstRetry = 1
    MaxRetry = 2
    Lease = 2
    Expiry = 4
    Period = 1
    Budget = 1
    MaxBurst = 1
    Answers = {"accepted", "transient", "refused"}
    RouterAges = {0, 3}
    MaxCrashes = 1
    MaxChanges = 1
INVARIANTS
    TapsSingleUse
PROPERTIES
    EveryRowSettles
