SPECIFICATION Spec
CONSTANTS
    Events = {"a", "b", "r", "x", "o"}
    ClassOf <- EventClasses
    KeyOf <- Dedupe
    Requests = {"q"}
    Batch = 2
    MaxEntries = 2
    MaxPosts = 1
    MaxFaults = 1
INVARIANTS
    AckedIsDurable
    RoutedAtMostOnce
    FanoutMatches
    StrandedOnlyByFailure
CHECK_DEADLOCK FALSE
