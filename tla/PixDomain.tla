------------------------------ MODULE PixDomain ------------------------------
(***************************************************************************)
(* The vocabulary of internal/core: the statuses a charge, a payment and a *)
(* refund can have, the rules that read them, and the identifiers minted   *)
(* for payments and refunds.  Pure operators; no state.                    *)
(*                                                                         *)
(* Instants are whole numbers of an arbitrary unit, money is int64 cents   *)
(* well below overflow (ParseAmount caps it at 10^12), and free text       *)
(* (payer, message, BR Code) is left out: no rule reads it.                *)
(***************************************************************************)
EXTENDS Integers

CONSTANTS
    MaxIDSeq,     \* the largest sequence an identifier's last field can carry
    MinuteLen,    \* instants per minute, the resolution of an identifier
    RandomHalf    \* what the seeded source can put in an identifier

ASSUME MaxIDSeqAssumption == MaxIDSeq \in Nat
ASSUME MinuteLenAssumption == MinuteLen \in Nat \ {0}

\* The two REMOVIDA_* statuses are declared by core.Status and reached by no code.
ChargeStatus == {"ATIVA", "CONCLUIDA", "EXPIRADA"}
PaymentStatus == {"SETTLED", "REFUNDED"}
\* NAO_REALIZADO is declared and reached by no code.
RefundStatus == {"EM_PROCESSAMENTO", "DEVOLVIDO"}

(***************************************************************************)
(* Charge.IsExpired, Charge.EffectiveStatus, Payment.RefundableCents.      *)
(***************************************************************************)
\* mutant: the window is compared without looking at the status
IsExpiredInAnyStatus(charge, now) == now >= charge.expiresAt

IsExpired(charge, now) == charge.status = "ATIVA" /\ now >= charge.expiresAt

EffectiveStatus(charge, now) ==
    IF IsExpired(charge, now) THEN "EXPIRADA" ELSE charge.status

RefundableCents(payment) == payment.cents - payment.refunded

(***************************************************************************)
(* newTransactionID: prefix, minute, random half and sequence.  A sequence *)
(* wider than its five base-36 digits is refused.                          *)
(***************************************************************************)
\* mutant: the width check is off by one
SeqFitsLoosely(seq) == seq \in 1 .. MaxIDSeq + 1

SeqFits(seq) == seq \in 1 .. MaxIDSeq

TransactionId(prefix, now, rnd, seq) ==
    [prefix |-> prefix, minute |-> now \div MinuteLen, rnd |-> rnd, seq |-> seq]

NewE2EID(now, rnd, seq) == TransactionId("E", now, rnd, seq)
NewRtrID(now, rnd, seq) == TransactionId("D", now, rnd, seq)

IdOf(prefix) == [prefix : {prefix}, minute : Int, rnd : RandomHalf, seq : 1 .. MaxIDSeq]
E2EId == IdOf("E")
RtrId == IdOf("D")
=============================================================================
