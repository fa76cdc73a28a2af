----------------------------- MODULE PixLifecycle -----------------------------
(***************************************************************************)
(* What the sandbox promises of one charge, whatever tables and events     *)
(* record it: a charge is created once with an amount, ends either expired *)
(* or settled and never changes afterwards, a settlement moves exactly the *)
(* amount asked, and what goes back to the payer never exceeds it.         *)
(***************************************************************************)
EXTENDS Integers

CONSTANTS TxId, Amount

VARIABLES
    state,       \* state[t]: "none", "ATIVA", "CONCLUIDA" or "EXPIRADA"
    asked,       \* asked[t]: the amount the charge asks for
    paid,        \* paid[t]: what settled
    returned     \* returned[t]: what the refunds gave back

vars == <<state, asked, paid, returned>>

Init ==
    /\ state = [t \in TxId |-> "none"]
    /\ asked = [t \in TxId |-> 0]
    /\ paid = [t \in TxId |-> 0]
    /\ returned = [t \in TxId |-> 0]

Create(t, cents) ==
    /\ state[t] = "none"
    /\ state' = [state EXCEPT ![t] = "ATIVA"]
    /\ asked' = [asked EXCEPT ![t] = cents]
    /\ UNCHANGED <<paid, returned>>

Expire(t) ==
    /\ state[t] = "ATIVA"
    /\ state' = [state EXCEPT ![t] = "EXPIRADA"]
    /\ UNCHANGED <<asked, paid, returned>>

Settle(t) ==
    /\ state[t] = "ATIVA"
    /\ state' = [state EXCEPT ![t] = "CONCLUIDA"]
    /\ paid' = [paid EXCEPT ![t] = asked[t]]
    /\ UNCHANGED <<asked, returned>>

Refund(t, cents) ==
    /\ state[t] = "CONCLUIDA"
    /\ returned[t] + cents <= paid[t]
    /\ returned' = [returned EXCEPT ![t] = @ + cents]
    /\ UNCHANGED <<state, asked, paid>>

Next ==
    \E t \in TxId :
        \/ Expire(t)
        \/ Settle(t)
        \/ \E cents \in Amount : Create(t, cents) \/ Refund(t, cents)

Spec == Init /\ [][Next]_vars
=============================================================================
