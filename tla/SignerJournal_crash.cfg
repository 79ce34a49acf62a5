SPECIFICATION SignerSpec
CHECK_DEADLOCK FALSE
CONSTANTS
    Approvals = {"a1", "a2"}
    Loses = FALSE
    MaxCrashes = 3
    MaxFailures = 2
INVARIANTS
    StaysReadable
PROPERTIES
    SignsOnce
