SPECIFICATION Spec
CONSTANTS
    Job = {j1, j2}
    Retries = 2
    Answers = {200, 404, 429, 500}
SYMMETRY Symmetry
INVARIANTS
    TypeOK
    VerdictEarned
    AbortsOnlyPastBudget
PROPERTIES
    QuietAfterClose
    CallbacksKept
CHECK_DEADLOCK FALSE
