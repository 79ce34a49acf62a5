SPECIFICATION Spec
CHECK_DEADLOCK FALSE
SYMMETRY Symmetry
CONSTANTS
    o1 = o1
    o2 = o2
    h1 = h1
    h2 = h2
    Opps = {o1, o2}
    Handlers = {h1, h2}
    Threshold = 1
    MaxOrders = 2
    MaxCalls = 3
    MaxFaults = 1
INVARIANTS
    SecondOrderOverlaps
    RecordIsVenues
    FailuresBounded
