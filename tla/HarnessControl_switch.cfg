SPECIFICATION FairSpec
CHECK_DEADLOCK FALSE
CONSTANTS
    Hosts = {"task", "manual"}
    Scheduled = "task"
    Keep = 1
    MaxCommands = 2
    MaxFaults = 1
INVARIANTS
    RunsOnce
    AgreedStop
PROPERTIES
    LastCommandSettles
