SPECIFICATION FairSpec
CONSTANTS
    Positions = {"p1"}
    SymbolOf <- OneOnly
    MaxOpen = 1
    Size = 2
    NaturalRules = {"stop"}
    Observers = {"observer"}
    Routes = {}
    Engagers = {"kill"}
    MaxKills = 1
    MaxAhead = 1
    MaxRestarts = 1
    Breaches = {FALSE}
    Bookings = {TRUE, FALSE}
    Lateness = {TRUE, FALSE}
INVARIANTS
    CleanRunVouches
PROPERTIES
    KillDrains
    UnbookedStopsEntries
