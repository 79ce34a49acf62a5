SPECIFICATION Spec
CONSTANTS
    NumRows = 2
    Browsers = {}
    MaxAttempts = 2
    FirstRetry = 1
    MaxRetry = 2
    Lease = 2
    Expiry = 4
    Period = 1
    Budget = 1
    MaxBurst = 2
    Answers = {"accepted", "transient", "refused"}
    RouterAges = {0, 1, 2, 3}
    MaxCrashes = 1
    MaxChanges = 1
INVARIANTS
    CallsCounted
    DeadLetterEarned
    BudgetHeld
PROPERTIES
    RevivedOnlyByLostReply
