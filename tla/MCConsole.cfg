SPECIFICATION ConsoleLive
CONSTANTS
    MaxIDSeq = 1
    MinuteLen = 2
    RandomHalf = {r}
    TxId = {1, 2}
    Chave = {k}
    Url = {}
    RefundId = {d1}
    Amount = {1}
    Window = {1}
    Time = {0, 1}
    MaxRegistrations = 0
    MaxNotes = 0
    Limit = 1
    Watched = {1}
INVARIANTS
    ConsoleTypeOK
    FreshIsNew
    PageAgrees
PROPERTIES
    NeverBackToActive
    ChargeAppears
CHECK_DEADLOCK FALSE
