SPECIFICATION LiveSpec
CONSTANTS
    n1 = n1
    n2 = n2
    Names <- TwoNames
    FirstName = n1
    Tasks <- TwoTasks
    Aborting <- FirstTask
    MaxVersion = 2
    Learned <- LearnsPower
    Orders <- NameAndVersion
    MaxOrders = 2
    Faults <- NoFaults
    MaxFaults = 0
    None = None
PROPERTY
    UpdatesAfterRestart
