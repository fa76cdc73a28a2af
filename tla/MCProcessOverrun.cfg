SPECIFICATION ProcessSpec
CONSTANTS
    Job = {j1}
    Retries = 1
    Answers = {200}
INVARIANTS
    ShutdownDrains
CHECK_DEADLOCK FALSE
