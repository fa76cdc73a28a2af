SPECIFICATION Spec
CONSTANTS
    Proc = {p1, p2}
    Overlap = TRUE
    Txid = {x1, x2}
    Instant = {200, 250, 255}
    NoOne = NoOne
    NoCharge = NoCharge
INVARIANTS
    AppliedCount
CHECK_DEADLOCK FALSE
