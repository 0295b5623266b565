SPECIFICATION FairSpec
CONSTANTS
    MaxTask = 1
    Providers <- MCProviders
    Commanders <- BothCommanders
    Disturbances <- AllDisturbances
    MaxDisturbances = 2
    MaxRequests = 1
INVARIANTS
    OwedIsHeld
    NoStrayBootNext
    OncePerTaskUnlessForgotten
PROPERTIES
    TaskRestartReachesFOS
    ForcedRequestActs
