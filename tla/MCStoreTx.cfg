SPECIFICATION TxSpec
CONSTANTS
    Caller = {c1, c2}
    NoOne = NoOne
    MaxCalls = 4
    TxId = {x}
    Chave = {k}
    Url = {u}
    RefundId = {r1, r2}
    Amount = {1, 2}
    Window = {1}
    Time = {0, 1}
    MaxIDSeq = 2
    MinuteLen = 1
    RandomHalf = {h}
    MaxRegistrations = 1
    MaxNotes = 1
INVARIANTS
    RefundsCoverCount
PROPERTIES
    StoreRefined
    CallsEnd
CHECK_DEADLOCK FALSE
