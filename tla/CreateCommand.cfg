SPECIFICATION CreateSpec
CONSTANTS
    Blocks = {"A", "B"}
    Steps = {"setup", "doctor", "smoke", "report"}
    Files <- MCFiles
    Rewritten <- MCRewritten
INVARIANTS
    GenerationWasDecided
    DestinationNeverLost
    AnswersMakeConfig
CHECK_DEADLOCK FALSE
