SPECIFICATION LiveSpec
CONSTANTS
    n1 = n1
    n2 = n2
    Names <- TwoNames
    FirstName = n1
    Tasks <- TwoTasks
    Aborting <- FirstTask
    MaxVersion = 2
    Learned <- LearnsPower
    Orders <- AllOrders
    MaxOrders = 2
    Faults <- AllFaults
    MaxFaults = 2
    None = None
INVARIANTS
    AppliedMeansDone
    OneName
PROPERTIES
    SnapinsInOrder
    Converges
