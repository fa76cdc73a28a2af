------------------------------- MODULE PixStore -------------------------------
(***************************************************************************)
(* The tables of internal/store and its mutating methods.                  *)
(*                                                                         *)
(* A table is a function from its primary key to the rest of the row; the  *)
(* event log is one sequence, whose positions are the AUTOINCREMENT ids.   *)
(* The pool holds one connection, so every transaction runs alone and each *)
(* method is one atomic action (StoreTx shows the statements underneath).  *)
(* A method that returns an error, or the row it found, changes nothing    *)
(* and has no action.                                                      *)
(*                                                                         *)
(* The caller's clock reading arrives as a parameter and is arbitrary:     *)
(* handlers sample it before their transaction gets the connection, so     *)
(* instants need not grow from one transaction to the next.                *)
(***************************************************************************)
EXTENDS PixDomain, Sequences, FiniteSetsExt

CONSTANTS
    TxId, Chave, Url, RefundId,
    Amount,             \* cents a request may carry
    Window,             \* calendario.expiracao
    Time,               \* readings of a clock
    MaxRegistrations,   \* bound: registrations logged
    MaxNotes            \* bound: events written outside a transaction

ASSUME AmountAssumption == Amount \subseteq Nat \ {0}   \* buildCharge refuses zero
ASSUME WindowAssumption == Window \subseteq Nat \ {0}   \* 1 .. MaxExpiracao
ASSUME TimeAssumption == Time \subseteq Nat
ASSUME BoundsAssumption == MaxRegistrations \in Nat /\ MaxNotes \in Nat

VARIABLES charges, payments, refunds, webhooks, events

tables == <<charges, payments, refunds, webhooks>>
storeVars == <<charges, payments, refunds, webhooks, events>>

-----------------------------------------------------------------------------
(***************************************************************************)
(* Rows, aggregates and events.                                            *)
(***************************************************************************)
ChargeRow ==
    [status : ChargeStatus, cents : Amount, chave : Chave, locId : Nat \ {0},
     revisao : Nat, createdAt : Time, expiresAt : Nat]

PaymentRow ==
    [seq : 1 .. MaxIDSeq, txid : TxId, chave : Chave, status : PaymentStatus,
     cents : Amount, refunded : Nat, at : Time]

RefundRow ==
    [rtrId : RtrId, seq : 1 .. MaxIDSeq, cents : Amount, status : RefundStatus,
     requestedAt : Time, settledAt : Time]

WebhookRow == [url : Url, createdAt : Time, updatedAt : Time]

ChargeAggregate(txid) == <<"cob", txid>>
PaymentAggregate(e2e) == <<"pix", e2e>>
WebhookAggregate(chave) == <<"webhook", chave>>
OAuthAggregate == <<"oauth", "oauth">>

NoteType == {"webhook.delivered", "webhook.failed", "oauth.token.issued"}
EventType ==
    {"cob.created", "cob.expired", "cob.settled", "pix.received",
     "pix.devolucao.requested", "pix.devolucao.settled", "webhook.registered"}
    \cup NoteType

EventAt(agg, type, at, body) == [agg |-> agg, type |-> type, at |-> at, body |-> body]

(***************************************************************************)
(* Rows keyed by primary key: INSERT, and SELECT COALESCE(MAX(n), 0) + 1.  *)
(***************************************************************************)
Insert(table, key, row) ==
    [k \in DOMAIN table \cup {key} |-> IF k = key THEN row ELSE table[k]]

\* mutant: COALESCE(MAX(n), 1)
NextNumberStuck(numbers) == Max(numbers \cup {1})

NextNumber(numbers) == Max(numbers \cup {0}) + 1

LocIds == {charges[t].locId : t \in DOMAIN charges}
PaymentSeqs == {payments[e].seq : e \in DOMAIN payments}
RefundSeqs == {refunds[k].seq : k \in DOMAIN refunds}

(***************************************************************************)
(* The payloads of the log: chargeEventPayload, paymentEventPayload,       *)
(* refundEventPayload.                                                     *)
(***************************************************************************)
\* mutant: the payload is built before loc_id is assigned
ChargePayloadBeforeLoc(c) ==
    [status |-> c.status, cents |-> c.cents, chave |-> c.chave, locId |-> 0,
     createdAt |-> c.createdAt, expiresAt |-> c.expiresAt]

ChargePayload(c) ==
    [status |-> c.status, cents |-> c.cents, chave |-> c.chave, locId |-> c.locId,
     createdAt |-> c.createdAt, expiresAt |-> c.expiresAt]

PaymentPayload(p) ==
    [txid |-> p.txid, chave |-> p.chave, status |-> p.status, cents |-> p.cents,
     horario |-> p.at]

RefundPayload(id, r) ==
    [id |-> id, rtrId |-> r.rtrId, status |-> r.status, cents |-> r.cents,
     solicitacao |-> r.requestedAt]

\* mutant: a replacement is logged as a creation
WebhookPayloadCreated(url, created) == [url |-> url, created |-> TRUE]

WebhookPayload(url, created) == [url |-> url, created |-> created]

Body ==
    [status : ChargeStatus, cents : Amount, chave : Chave, locId : Nat, createdAt : Time,
     expiresAt : Nat]
    \cup [expiresAt : Nat, observedAt : Time]
    \cup [txid : TxId, chave : Chave, status : PaymentStatus, cents : Amount, horario : Time]
    \cup [status : ChargeStatus, e2e : E2EId, cents : Amount]
    \cup [id : RefundId, rtrId : RtrId, status : RefundStatus, cents : Amount, solicitacao : Time]
    \cup [url : Url, created : BOOLEAN]
    \cup {<<>>}

Aggregate ==
    ({"cob"} \X TxId) \cup ({"pix"} \X E2EId) \cup ({"webhook"} \X Chave) \cup {OAuthAggregate}

Event == [agg : Aggregate, type : EventType, at : Time, body : Body]

Typed(table, K, R) == DOMAIN table \subseteq K /\ table \in [DOMAIN table -> R]

TypeOK ==
    /\ Typed(charges, TxId, ChargeRow)
    /\ Typed(payments, E2EId, PaymentRow)
    /\ Typed(refunds, E2EId \X RefundId, RefundRow)
    /\ Typed(webhooks, Chave, WebhookRow)
    /\ events \in Seq(Event)

Empty == [k \in {} |-> k]

\* An empty database, as migrate leaves a new one.
Init ==
    /\ charges = Empty
    /\ payments = Empty
    /\ refunds = Empty
    /\ webhooks = Empty
    /\ events = <<>>

-----------------------------------------------------------------------------
(***************************************************************************)
(* CreateCharge, for a txid not yet stored.  buildCharge stamps the charge *)
(* before the call, and derives expires_at from that stamp.                *)
(***************************************************************************)
NewCharge(cents, chave, window, now) ==
    [status |-> "ATIVA", cents |-> cents, chave |-> chave, locId |-> NextNumber(LocIds),
     revisao |-> 0, createdAt |-> now, expiresAt |-> now + window]

\* mutant: an INSERT OR REPLACE with no look at what is stored
ChargeIsNewAlways(txid) == TRUE

\* The SELECT before the INSERT, and the PRIMARY KEY behind it.
ChargeIsNew(txid) == txid \notin DOMAIN charges

CreateCharge(txid, cents, chave, window, now) ==
    LET charge == NewCharge(cents, chave, window, now)
    IN  /\ ChargeIsNew(txid)
        /\ charges' = Insert(charges, txid, charge)
        /\ events' = Append(events,
               EventAt(ChargeAggregate(txid), "cob.created", now, ChargePayload(charge)))
        /\ UNCHANGED <<payments, refunds, webhooks>>

\* mutant: the row is updated and the event forgotten
ExpireChargeSilently(txid, now) ==
    /\ txid \in DOMAIN charges
    /\ IsExpired(charges[txid], now)
    /\ charges' = [charges EXCEPT ![txid].status = "EXPIRADA"]
    /\ UNCHANGED <<payments, refunds, webhooks, events>>

ExpireCharge(txid, now) ==
    /\ txid \in DOMAIN charges
    /\ IsExpired(charges[txid], now)
    /\ charges' = [charges EXCEPT ![txid].status = "EXPIRADA"]
    /\ events' = Append(events,
           EventAt(ChargeAggregate(txid), "cob.expired", now,
                   [expiresAt |-> charges[txid].expiresAt, observedAt |-> now]))
    /\ UNCHANGED <<payments, refunds, webhooks>>

-----------------------------------------------------------------------------
(***************************************************************************)
(* SettleCharge, for a payable charge.                                     *)
(***************************************************************************)
\* mutant: the window is left to the expiry the handler ran a moment earlier
PayableWhileActive(charge, now) == charge.status = "ATIVA"

\* mutant: only a settled charge is refused
PayableUnlessSettled(charge, now) == charge.status # "CONCLUIDA"

Payable(charge, now) == charge.status = "ATIVA" /\ ~IsExpired(charge, now)

\* PRIMARY KEY, UNIQUE (txid), UNIQUE (seq) of payments.
PaymentAccepted(e2e, row) ==
    /\ e2e \notin DOMAIN payments
    /\ \A e \in DOMAIN payments : payments[e].txid # row.txid /\ payments[e].seq # row.seq

NewPayment(txid, seq, now) ==
    [seq |-> seq, txid |-> txid, chave |-> charges[txid].chave, status |-> "SETTLED",
     cents |-> charges[txid].cents, refunded |-> 0, at |-> now]

SettleCharge(txid, now, rnd) ==
    LET seq == NextNumber(PaymentSeqs)
        e2e == NewE2EID(now, rnd, seq)
        payment == NewPayment(txid, seq, now)
    IN  /\ txid \in DOMAIN charges
        /\ Payable(charges[txid], now)
        /\ SeqFits(seq)
        /\ PaymentAccepted(e2e, payment)
        /\ payments' = Insert(payments, e2e, payment)
        /\ charges' = [charges EXCEPT ![txid].status = "CONCLUIDA", ![txid].revisao = @ + 1]
        /\ events' = events \o <<
               EventAt(PaymentAggregate(e2e), "pix.received", now, PaymentPayload(payment)),
               EventAt(ChargeAggregate(txid), "cob.settled", now,
                       [status |-> "CONCLUIDA", e2e |-> e2e, cents |-> payment.cents])>>
        /\ UNCHANGED <<refunds, webhooks>>

-----------------------------------------------------------------------------
(***************************************************************************)
(* CreateRefund, for a refund id the payment does not have yet.  The row   *)
(* goes in as EM_PROCESSAMENTO, without settled_at, and is settled before  *)
(* the commit, at the same instant: no committed row lacks one.            *)
(***************************************************************************)
\* PRIMARY KEY, UNIQUE (rtr_id), UNIQUE (seq) and CHECK of refunds; CHECK of payments.
RefundAccepted(key, row, refunded) ==
    /\ key \notin DOMAIN refunds
    /\ \A k \in DOMAIN refunds : refunds[k].rtrId # row.rtrId /\ refunds[k].seq # row.seq
    /\ row.cents > 0
    /\ refunded \in 0 .. payments[key[1]].cents

\* mutant: the status is taken from the payment as it was read
StatusBeforeRefund(payment, cents) ==
    IF payment.refunded = payment.cents THEN "REFUNDED" ELSE "SETTLED"

StatusAfterRefund(payment, cents) ==
    IF payment.refunded + cents = payment.cents THEN "REFUNDED" ELSE "SETTLED"

RefundAs(status, cents, seq, now, rnd) ==
    [rtrId |-> NewRtrID(now, rnd, seq), seq |-> seq, cents |-> cents, status |-> status,
     requestedAt |-> now, settledAt |-> now]

\* mutant: the counter written back is the one read
RefundedForgotten(payment, cents) == payment.refunded

RefundedAfter(payment, cents) == payment.refunded + cents

\* mutant: the request is not logged, only what it came to
RefundTrailSettled(e2e, id, requested, settled, now) ==
    <<EventAt(PaymentAggregate(e2e), "pix.devolucao.settled", now, RefundPayload(id, settled))>>

\* The events of a refund: the row as it went in, then as it is settled.
RefundTrail(e2e, id, requested, settled, now) ==
    << EventAt(PaymentAggregate(e2e), "pix.devolucao.requested", now,
               RefundPayload(id, requested)),
       EventAt(PaymentAggregate(e2e), "pix.devolucao.settled", now,
               RefundPayload(id, settled)) >>

CreateRefund(e2e, id, cents, now, rnd) ==
    LET payment == payments[e2e]
        seq == NextNumber(RefundSeqs)
        requested == RefundAs("EM_PROCESSAMENTO", cents, seq, now, rnd)
        settled == RefundAs("DEVOLVIDO", cents, seq, now, rnd)
    IN  /\ e2e \in DOMAIN payments
        /\ cents <= RefundableCents(payment)
        /\ SeqFits(seq)
        /\ RefundAccepted(<<e2e, id>>, requested, RefundedAfter(payment, cents))
        /\ refunds' = Insert(refunds, <<e2e, id>>, settled)
        /\ payments' = [payments EXCEPT ![e2e].refunded = RefundedAfter(payment, cents),
                                        ![e2e].status = StatusAfterRefund(payment, cents)]
        /\ events' = events \o RefundTrail(e2e, id, requested, settled, now)
        /\ UNCHANGED <<charges, webhooks>>

-----------------------------------------------------------------------------
(***************************************************************************)
(* PutWebhook registers or replaces; replacing keeps created_at.           *)
(***************************************************************************)
PutWebhook(chave, url, now) ==
    LET created == chave \notin DOMAIN webhooks
        hook == [url |-> url,
                 createdAt |-> IF created THEN now ELSE webhooks[chave].createdAt,
                 updatedAt |-> now]
    IN  /\ webhooks' = Insert(webhooks, chave, hook)
        /\ events' = Append(events,
               EventAt(WebhookAggregate(chave), "webhook.registered", now,
                       WebhookPayload(url, created)))
        /\ UNCHANGED <<charges, payments, refunds>>

(***************************************************************************)
(* AppendEvent, outside any transaction: the dispatcher's verdicts on a    *)
(* payment and the tokens of oauth.  It stamps the wall clock.             *)
(***************************************************************************)
AppendEvent(agg, type, now) ==
    /\ events' = Append(events, EventAt(agg, type, now, <<>>))
    /\ UNCHANGED tables

AppendNote(now) ==
    \/ AppendEvent(OAuthAggregate, "oauth.token.issued", now)
    \/ \E e2e \in DOMAIN payments, type \in {"webhook.delivered", "webhook.failed"} :
          AppendEvent(PaymentAggregate(e2e), type, now)

-----------------------------------------------------------------------------
Logged(types) == Cardinality({i \in DOMAIN events : events[i].type \in types})

\* Any one of the methods, for a caller whose reading of the clock is now.
Transaction(now) ==
    \/ \E txid \in TxId :
          \/ \E cents \in Amount, chave \in Chave, window \in Window :
                CreateCharge(txid, cents, chave, window, now)
          \/ ExpireCharge(txid, now)
          \/ \E rnd \in RandomHalf : SettleCharge(txid, now, rnd)
    \/ \E e2e \in DOMAIN payments, id \in RefundId, cents \in Amount, rnd \in RandomHalf :
          CreateRefund(e2e, id, cents, now, rnd)
    \/ \E chave \in Chave, url \in Url :
          Logged({"webhook.registered"}) < MaxRegistrations /\ PutWebhook(chave, url, now)
    \/ Logged(NoteType) < MaxNotes /\ AppendNote(now)

Next == \E now \in Time : Transaction(now)

Spec == Init /\ [][Next]_storeVars

-----------------------------------------------------------------------------
(***************************************************************************)
(* Safety.                                                                 *)
(***************************************************************************)
\* A charge is CONCLUIDA exactly when one payment names it, for its amount and
\* its key: SettleCharge's status check is what prevents a double settlement,
\* and UNIQUE (txid) never has to refuse a charge that looks payable.
SettledOnce ==
    /\ \A e, f \in DOMAIN payments : payments[e].txid = payments[f].txid => e = f
    /\ \A t \in DOMAIN charges :
          charges[t].status = "CONCLUIDA" <=> \E e \in DOMAIN payments : payments[e].txid = t
    /\ \A e \in DOMAIN payments :
          /\ payments[e].txid \in DOMAIN charges
          /\ payments[e].cents = charges[payments[e].txid].cents
          /\ payments[e].chave = charges[payments[e].txid].chave

\* INV-4: the counter on a payment never passes what settled, and REFUNDED says
\* exactly that nothing is left to return.
RefundCap ==
    \A e \in DOMAIN payments :
        /\ payments[e].refunded <= payments[e].cents
        /\ payments[e].status = "REFUNDED" <=> payments[e].refunded = payments[e].cents

RefundsOf(e2e) == {k \in DOMAIN refunds : k[1] = e2e}

\* The counter CreateRefund adds to is the sum of the refund rows of that payment.
RefundedIsSum ==
    \A e \in DOMAIN payments :
        payments[e].refunded = MapThenSumSet(LAMBDA k : refunds[k].cents, RefundsOf(e))

\* The numbers a transaction draws are 1, 2, 3, ... without a gap: no loc.id is
\* shared (no constraint protects that column) and no identifier is minted twice.
Dense(numbers) ==
    LET last == Max(numbers \cup {0}) IN last \in Nat /\ numbers = 1 .. last

LocIdsDense ==
    /\ Dense(LocIds)
    /\ \A t, u \in DOMAIN charges : charges[t].locId = charges[u].locId => t = u
PaymentSeqsDense ==
    /\ Dense(PaymentSeqs)
    /\ \A e, f \in DOMAIN payments : payments[e].seq = payments[f].seq => e = f
RefundSeqsDense ==
    /\ Dense(RefundSeqs)
    /\ \A k, l \in DOMAIN refunds : refunds[k].seq = refunds[l].seq => k = l

NumbersDense == LocIdsDense /\ PaymentSeqsDense /\ RefundSeqsDense

\* A payment lies before the end of its charge's window, by the reading of the
\* clock that settled it, and an expiry is only recorded at or past that end.  (Not
\* after the charge was created: readings may go back.)
WindowRespected ==
    /\ \A e \in DOMAIN payments : payments[e].at < charges[payments[e].txid].expiresAt
    /\ \A i \in DOMAIN events : events[i].type = "cob.expired" =>
          \E t \in DOMAIN charges :
             events[i].agg = ChargeAggregate(t) /\ events[i].at >= charges[t].expiresAt

Occurs(agg, type) == \E i \in DOMAIN events : events[i].agg = agg /\ events[i].type = type

ChargesAreLogged ==
    \A t \in TxId :
        /\ t \in DOMAIN charges <=> Occurs(ChargeAggregate(t), "cob.created")
        /\ (t \in DOMAIN charges /\ charges[t].status = "EXPIRADA")
              <=> Occurs(ChargeAggregate(t), "cob.expired")
        /\ (t \in DOMAIN charges /\ charges[t].status = "CONCLUIDA")
              <=> Occurs(ChargeAggregate(t), "cob.settled")

SettledReturns(log) == {i \in DOMAIN log : log[i].type = "pix.devolucao.settled"}

ReturnsOf(log, e2e) == {i \in SettledReturns(log) : log[i].agg = PaymentAggregate(e2e)}

Bodies(log) == [i \in DOMAIN log |-> log[i].body]

ReturnedOnLog(e2e) ==
    LET body == Bodies(events)
    IN  MapThenSumSet(LAMBDA i : body[i].cents, ReturnsOf(events, e2e))

PaymentsAreLogged ==
    /\ \A e \in DOMAIN payments :
          /\ Occurs(PaymentAggregate(e), "pix.received")
          /\ payments[e].status = "REFUNDED" <=> ReturnedOnLog(e) = payments[e].cents
    /\ \A i \in DOMAIN events : events[i].type = "pix.received" =>
          \E e \in DOMAIN payments : events[i].agg = PaymentAggregate(e)

RefundEvents(key, type) ==
    {i \in DOMAIN events :
        /\ events[i].type = type /\ events[i].agg = PaymentAggregate(key[1])
        /\ events[i].body.id = key[2]}

RefundsAreLogged ==
    /\ \A key \in DOMAIN refunds :
          LET asked == RefundEvents(key, "pix.devolucao.requested")
              settled == RefundEvents(key, "pix.devolucao.settled")
              body == RefundPayload(key[2], refunds[key])
          IN  \E i \in asked, j \in settled :
                 /\ asked = {i} /\ settled = {j} /\ i < j
                 /\ events[i].body = [body EXCEPT !.status = "EM_PROCESSAMENTO"]
                 /\ events[j].body = body
    /\ \A i \in DOMAIN events :
          events[i].type \in {"pix.devolucao.requested", "pix.devolucao.settled"} =>
             \E key \in DOMAIN refunds : i \in RefundEvents(key, events[i].type)

\* INV-3: every state a charge, payment or refund has reached is in the log, and
\* the log holds no transition the tables have not made: a refund's request and its
\* settlement are there once each and in that order, about the row as it is stored,
\* and a payment is REFUNDED exactly when the log has all of it going back.
StateIsLogged == ChargesAreLogged /\ PaymentsAreLogged /\ RefundsAreLogged

\* INV-3, the order: the log of a charge is cob.created and then at most one
\* terminal transition; the log of a payment opens with its only pix.received.
LogFollowsMachine ==
    \A i, j \in DOMAIN events : i < j /\ events[i].agg = events[j].agg =>
        /\ events[i].agg[1] = "cob" =>
              events[i].type = "cob.created" /\ events[j].type \in {"cob.expired", "cob.settled"}
        /\ events[i].agg[1] = "pix" => events[j].type # "pix.received"

-----------------------------------------------------------------------------
(***************************************************************************)
(* The store implements PixLifecycle, charge by charge.                    *)
(***************************************************************************)
Settled(t) == \E e \in DOMAIN payments : payments[e].txid = t
PaymentOf(t) == CHOOSE e \in DOMAIN payments : payments[e].txid = t

StateSeen == [t \in TxId |-> IF t \in DOMAIN charges THEN charges[t].status ELSE "none"]
AskedSeen == [t \in TxId |-> IF t \in DOMAIN charges THEN charges[t].cents ELSE 0]
PaidSeen == [t \in TxId |-> IF Settled(t) THEN payments[PaymentOf(t)].cents ELSE 0]
ReturnedSeen == [t \in TxId |-> IF Settled(t) THEN payments[PaymentOf(t)].refunded ELSE 0]

Lifecycle == INSTANCE PixLifecycle WITH
    state <- StateSeen, asked <- AskedSeen, paid <- PaidSeen, returned <- ReturnedSeen

\* Seen through the tables, every transaction is a step of the lifecycle of one
\* charge or leaves all of them alone: terminal states are final, what is paid is
\* what was asked, and refunds never exceed it.
LifecycleRefined == Lifecycle!Spec
=============================================================================
