SPECIFICATION Spec
CONSTANTS
    MaxTask = 1
    Providers <- NoProviders
    Commanders <- OnlyPower
    Disturbances <- OnlyRefusals
    MaxDisturbances = 1
    MaxRequests = 1
INVARIANT
    OncePerTask
