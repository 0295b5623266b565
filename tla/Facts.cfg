SPECIFICATION LiveSpec
CONSTANTS
    Blocks = {"software", "network"}
    Platform = "linux"
    Faults <- AllFaults
    MaxFaults = 2
    MaxChanges = 2
    MaxOrders = 1
INVARIANTS
    RecordedIsHeld
PROPERTIES
    ServerLearns
