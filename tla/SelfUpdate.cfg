SPECIFICATION FairSpec
CONSTANTS
    MaxVersion = 3
    CanStart <- AllThree
    CanPoll <- FirstTwo
    MinDowngrade = 2
    MaxSequence = 2
    HandCommands <- BothCommands
    HandStopsService = TRUE
    Disturbances <- AllDisturbances
    MaxDisturbances = 3
INVARIANTS
    WayBack
    BinaryInPlace
    ConfigReadable
PROPERTIES
    NoReplay
    RevertUndoesUpdate
    RevertReported
    BadVersionLeaves
CHECK_DEADLOCK FALSE
