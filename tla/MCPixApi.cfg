SPECIFICATION MCSpec
CONSTANTS
    MaxIDSeq = 2
    MinuteLen = 2
    RandomHalf = {r}
    t1 = t1
    t2 = t2
    t3 = t3
    r1 = r1
    r2 = r2
    r3 = r3
    TxId = {t1, t2, t3}
    Chave = {k}
    Url = {u}
    RefundId = {d1, d2}
    Amount = {1, 2}
    Window = {1}
    Time = {0, 1, 2}
    MaxRegistrations = 1
    MaxNotes = 0
    Req = {r1, r2, r3}
    Kinds = {"create", "mint", "get", "pay", "refund", "hook"}
    Earlier <- OneCharge
    Stream <- ThreeTxIds
    MaxCrashes = 1
    NoTxId = NoTxId
    NoE2E = NoE2E
INVARIANTS
    ApiTypeOK
    OneWinner
    PayAnswersTrue
    MintServesItsOwn
    RefundAnswersTrue
    CallbackOwed
PROPERTIES
    Answered
CHECK_DEADLOCK FALSE
