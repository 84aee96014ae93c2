SPECIFICATION FairSpec
CONSTANTS
    Messages = {m1}
    Workers = {k1, k2}
    MaxAttempts = 3
    BatchLimit = 1
    MaxCrashes = 2
    None = None
INVARIANTS
    CleanDelivery
    AttemptsAreLogged
PROPERTIES
    KeepsContract
    EveryMessageSettles
CHECK_DEADLOCK FALSE
