SPECIFICATION LiveSpec
CONSTANTS
    s1 = s1
    s2 = s2
    c1 = c1
    c2 = c2
    None = None
    Servers <- TwoServers
    Cas <- TwoCas
    InStore <- OneInStore
    CommandLines <- SixLines
    Faults <- AllFaults
    MaxFaults = 2
    MaxSetups = 2
    MaxRebuilds = 1
INVARIANTS
    TrustAsSettled
    CertificateFits
    TokenKept
PROPERTIES
    ComesBack
CHECK_DEADLOCK FALSE
