SPECIFICATION ProcessSpec
CONSTANTS
    Job = {j1, j2}
    Retries = 1
    Answers = {200, 404, 500}
INVARIANTS
    NothingRefused
    StoreOutlivesWork
PROPERTIES
    VerdictComes
    ExitComes
CHECK_DEADLOCK FALSE
