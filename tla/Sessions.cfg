SPECIFICATION LiveSpec
CONSTANTS
    Keys = {1}
    MaxLogon = 2
    Limit = 3
    Warn = 1
    Faults <- AllFaults
    MaxFaults = 2
    MaxOrders = 1
INVARIANTS
    EndsKept
    EndsTrue
PROPERTIES
    ServerFollows
    WarnedFirst
    IdleLeaves
