------------------------------ MODULE MCPixStore ------------------------------
(* A small store for TLC: the log replayed, and txids interchangeable.  Each   *)
(* behaviour explores charges alone or, with a single charge, the endpoints    *)
(* and the events written outside a transaction: the two do not touch.         *)
EXTENDS PixReplay

VARIABLE focus

MCInit == Init /\ focus \in {"charges", "endpoints"}

OneKey == CHOOSE k \in Chave : TRUE

InFocus ==
    IF focus = "charges"
    THEN /\ \A i \in DOMAIN events : events[i].type \notin NoteType \cup {"webhook.registered"}
         /\ \A t \in DOMAIN charges : charges[t].chave = OneKey
    ELSE /\ Cardinality(DOMAIN charges) <= 1 /\ refunds = Empty
         /\ \A i \in DOMAIN events : events[i].at # 1
         /\ \A t \in DOMAIN charges : charges[t].cents = 1 /\ charges[t].expiresAt # 1

MCNext == UNCHANGED focus /\ Next /\ InFocus'

MCSpec == MCInit /\ [][MCNext]_<<storeVars, focus>>

\* No operator orders or chooses among txids or refund ids.
Symmetry == Permutations(TxId) \cup Permutations(RefundId)
=============================================================================
