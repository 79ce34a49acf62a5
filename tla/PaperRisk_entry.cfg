SPECIFICATION Spec
CONSTANTS
    Positions = {"p1", "p2"}
    SymbolOf <- TwoSymbols
    MaxOpen = 1
    Size = 1
    NaturalRules = {"stop"}
    Observers = {"observer"}
    Routes = {}
    Engagers = {"kill"}
    MaxKills = 1
    MaxAhead = 1
    MaxRestarts = 0
    Breaches = {TRUE, FALSE}
    Bookings = {TRUE}
    Lateness = {FALSE}
INVARIANTS
    PortfolioCap
PROPERTIES
    EntrySeesControls
