SPECIFICATION CreateSpec
CONSTANTS
    Blocks = {"A", "B"}
    Steps = {"setup", "doctor", "smoke", "report"}
    Files <- MCFiles
    Rewritten <- MCRewritten
INVARIANT
    BlockedByDecision
CHECK_DEADLOCK FALSE
