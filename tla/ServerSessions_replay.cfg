SPECIFICATION Spec
CONSTANTS
    Sessions = {s1, s2, s3}
    Resets = {c1}
    Requests = {r1, r2}
    Isolations = {"snapshot"}
    MaxVersion = 3
    None = None
INVARIANTS
    ReplayRevokesFamily
CHECK_DEADLOCK FALSE
