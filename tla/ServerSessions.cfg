SPECIFICATION Spec
CONSTANTS
    Sessions = {s1, s2, s3}
    Resets = {c1}
    Requests = {r1, r2}
    Isolations = {"snapshot", "current"}
    MaxVersion = 3
    None = None
SYMMETRY Symmetry
INVARIANTS
    UsableHasProof
    ReplayEndsFamily
PROPERTIES
    KeepsContract
CHECK_DEADLOCK FALSE
