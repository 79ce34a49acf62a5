SPECIFICATION FairSpec
CHECK_DEADLOCK FALSE
CONSTANTS
    Positions = {1}
    PassLimit = 1
    LastHour = 2
    Day = 2
    Marks = {1}
    Pay <- Payments
    Capital = 5
    MaxFaults = 2
INVARIANTS
    ChargedExactly
    CleanMeansTrue
    LeftOutWasLost
PROPERTIES
    PeakWasReached
    KeepsBook
    LateFundingSettles
