SPECIFICATION MCSpec
CONSTANTS
    MaxIDSeq = 2
    MinuteLen = 2
    RandomHalf = {r}
    TxId = {t1, t2}
    Chave = {k1, k2}
    Url = {u1, u2}
    RefundId = {d1, d2}
    Amount = {1, 2}
    Window = {1, 2}
    Time = {0, 1, 2}
    MaxRegistrations = 2
    MaxNotes = 1
SYMMETRY Symmetry
INVARIANTS
    TypeOK
    SettledOnce
    RefundCap
    RefundedIsSum
    NumbersDense
    WindowRespected
    StateIsLogged
    LogFollowsMachine
    ReplayAgrees
PROPERTIES
    LifecycleRefined
CHECK_DEADLOCK FALSE
