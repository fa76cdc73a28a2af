SPECIFICATION Spec
CONSTANTS
    Proc = {p1, p2}
    Overlap = FALSE
    Txid = {x1, x2}
    Instant = {200, 250, 255}
    NoOne = NoOne
    NoCharge = NoCharge
INVARIANTS
    MigrateTypeOK
    AppliedCount
    ReadyIsWhole
PROPERTIES
    BootEnds
CHECK_DEADLOCK FALSE
