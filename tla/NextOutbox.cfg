SPECIFICATION FairSpec
CONSTANTS
    Messages = {m1, m2}
    Workers = {k1, k2}
    MaxAttempts = 2
    BatchLimit = 2
    MaxFaults = 1
    None = None
INVARIANTS
    CleanDelivery
    GivenUpAfterAllAttempts
PROPERTIES
    KeepsContract
    EveryMessageSettles
CHECK_DEADLOCK FALSE
