SPECIFICATION MCSpec
CONSTANTS
    MaxIDSeq = 2
    MinuteLen = 2
    RandomHalf = {r}
    t1 = t1
    t2 = t2
    t3 = t3
    r1 = r1
    r2 = r2
    r3 = r3
    TxId = {t1}
    Chave = {k}
    Url = {u}
    RefundId = {d1}
    Amount = {1}
    Window = {1}
    Time = {0, 1}
    MaxRegistrations = 1
    MaxNotes = 0
    Req = {r1, r2}
    Kinds = {"pay", "get"}
    Earlier <- OneCharge
    Stream <- NoCharge
    MaxCrashes = 0
    NoTxId = NoTxId
    NoE2E = NoE2E
INVARIANTS
    RefusalIsHonest
CHECK_DEADLOCK FALSE
