SPECIFICATION Spec
CONSTANTS
    service = service
    byHand = byHand
    Procs <- MCProcs
    MaxAttempt = 2
    MaxBoot = 2
    MaxKey = 2
SYMMETRY Agents
INVARIANTS
    NothingForgotten
    VerifiedAfterRestart
    OneRestart
PROPERTIES
    NothingReplayed
    FollowsLatch
