SPECIFICATION Spec
CONSTANTS
    Positions = {"p1"}
    SymbolOf <- OneOnly
    MaxOpen = 1
    Size = 2
    NaturalRules = {"stop"}
    Observers = {"observer"}
    Routes = {"close"}
    Engagers = {"kill"}
    MaxKills = 2
    MaxAhead = 2
    MaxRestarts = 0
    Breaches = {FALSE}
    Bookings = {TRUE}
    Lateness = {FALSE}
INVARIANTS
    KillAuditedOnce
    NaturalRuleKept
PROPERTIES
    KillExitFrozen
