SPECIFICATION LiveSpec
CONSTANTS
    m1 = m1
    m2 = m2
    Machines <- Two
    None = None
    Blank = Blank
    Features <- AnyAnswer
    Grace = 1
    MaxTime = 2
    MaxKey = 4
    MaxFaults = 2
INVARIANTS
    NotAsAnother
    OwnState
PROPERTIES
    KeepsEnrollment
    GraceKept
    GetsThrough
