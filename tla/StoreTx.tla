-------------------------------- MODULE StoreTx --------------------------------
(***************************************************************************)
(* The methods of internal/store statement by statement: several callers,  *)
(* the pool's one connection, transactions whose writes stay private until *)
(* the commit, statements that fail (a cancelled context, an error of      *)
(* SQLite) and a process that may end anywhere.  PixStore, where a method  *)
(* is one step, is what this promises.                                     *)
(*                                                                         *)
(* The SELECTs that open a transaction are one step: nothing is written    *)
(* yet and the connection is held.  Each write after them is a step.       *)
(***************************************************************************)
EXTENDS PixStore

CONSTANTS
    Caller,     \* goroutines that use the store
    NoOne,
    MaxCalls    \* bound: calls made

ASSUME StoreTxAssumption == NoOne \notin Caller /\ MaxCalls \in Nat

VARIABLES
    conn,     \* who holds the connection
    call,     \* per caller: where its call is, and what it holds
    called    \* calls made so far

txVars == <<conn, call, called>>
all == <<storeVars, txVars>>

Request ==
    [op : {"CreateCharge"}, txid : TxId, cents : Amount, chave : Chave, window : Window,
     now : Time]
    \cup [op : {"ExpireCharge"}, txid : TxId, now : Time]
    \cup [op : {"SettleCharge"}, txid : TxId, now : Time, rnd : RandomHalf]
    \cup [op : {"CreateRefund"}, e2e : DOMAIN payments, id : RefundId, cents : Amount,
          now : Time, rnd : RandomHalf]
    \cup [op : {"PutWebhook"}, chave : Chave, url : Url, now : Time]
    \cup [op : {"AppendEvent"}, agg : {PaymentAggregate(e) : e \in DOMAIN payments},
          type : {"webhook.delivered", "webhook.failed"}, now : Time]
    \cup [op : {"AppendEvent"}, agg : {OAuthAggregate}, type : {"oauth.token.issued"},
          now : Time]
    \cup [op : {"PaymentWithRefunds"}, e2e : DOMAIN payments]

Committed ==
    [charges |-> charges, payments |-> payments, refunds |-> refunds,
     webhooks |-> webhooks, events |-> events]

Idle == [pc |-> "idle"]

TxInit ==
    /\ Init
    /\ conn = NoOne
    /\ call = [c \in Caller |-> Idle]
    /\ called = 0

-----------------------------------------------------------------------------
(***************************************************************************)
(* What a method does once its SELECTs have passed: its writes, in order.  *)
(***************************************************************************)
Row(table, key, row) == [table |-> table, key |-> key, row |-> row]
Log(agg, type, at, body) ==
    [table |-> "events", key |-> agg, row |-> EventAt(agg, type, at, body)]

ChargeWrites(r) ==
    LET charge == NewCharge(r.cents, r.chave, r.window, r.now)
    IN  << Row("charges", r.txid, charge),
           Log(ChargeAggregate(r.txid), "cob.created", r.now, ChargePayload(charge)) >>

ExpireWrites(r) ==
    << Row("charges", r.txid, [charges[r.txid] EXCEPT !.status = "EXPIRADA"]),
       Log(ChargeAggregate(r.txid), "cob.expired", r.now,
           [expiresAt |-> charges[r.txid].expiresAt, observedAt |-> r.now]) >>

SettleWrites(r) ==
    LET seq == NextNumber(PaymentSeqs)
        e2e == NewE2EID(r.now, r.rnd, seq)
        payment == NewPayment(r.txid, seq, r.now)
    IN  << Row("payments", e2e, payment),
           Row("charges", r.txid,
               [charges[r.txid] EXCEPT !.status = "CONCLUIDA", !.revisao = @ + 1]),
           Log(PaymentAggregate(e2e), "pix.received", r.now, PaymentPayload(payment)),
           Log(ChargeAggregate(r.txid), "cob.settled", r.now,
               [status |-> "CONCLUIDA", e2e |-> e2e, cents |-> payment.cents]) >>

RefundWrites(r) ==
    LET payment == payments[r.e2e]
        key == <<r.e2e, r.id>>
        seq == NextNumber(RefundSeqs)
        requested == RefundAs("EM_PROCESSAMENTO", r.cents, seq, r.now, r.rnd)
        settled == RefundAs("DEVOLVIDO", r.cents, seq, r.now, r.rnd)
    IN  << Row("refunds", key, requested),
           Log(PaymentAggregate(r.e2e), "pix.devolucao.requested", r.now,
               RefundPayload(r.id, requested)),
           Row("refunds", key, settled),
           Row("payments", r.e2e,
               [payment EXCEPT !.refunded = RefundedAfter(payment, r.cents),
                               !.status = StatusAfterRefund(payment, r.cents)]),
           Log(PaymentAggregate(r.e2e), "pix.devolucao.settled", r.now,
               RefundPayload(r.id, settled)) >>

WebhookWrites(r) ==
    LET created == r.chave \notin DOMAIN webhooks
    IN  << Row("webhooks", r.chave,
               [url |-> r.url, updatedAt |-> r.now,
                createdAt |-> IF created THEN r.now ELSE webhooks[r.chave].createdAt]),
           Log(WebhookAggregate(r.chave), "webhook.registered", r.now,
               WebhookPayload(r.url, created)) >>

\* The early returns of a method, and the constraints its INSERT would meet.
Proceeds(r) ==
    CASE r.op = "CreateCharge" -> ChargeIsNew(r.txid)
      [] r.op = "ExpireCharge" ->
            r.txid \in DOMAIN charges /\ IsExpired(charges[r.txid], r.now)
      [] r.op = "SettleCharge" ->
            LET seq == NextNumber(PaymentSeqs) IN
            /\ r.txid \in DOMAIN charges
            /\ Payable(charges[r.txid], r.now)
            /\ SeqFits(seq)
            /\ PaymentAccepted(NewE2EID(r.now, r.rnd, seq), NewPayment(r.txid, seq, r.now))
      [] r.op = "CreateRefund" ->
            LET seq == NextNumber(RefundSeqs) IN
            /\ <<r.e2e, r.id>> \notin DOMAIN refunds
            /\ r.cents <= RefundableCents(payments[r.e2e])
            /\ SeqFits(seq)
            /\ RefundAccepted(<<r.e2e, r.id>>,
                              RefundAs("EM_PROCESSAMENTO", r.cents, seq, r.now, r.rnd),
                              RefundedAfter(payments[r.e2e], r.cents))
      [] r.op = "PutWebhook" -> Logged({"webhook.registered"}) < MaxRegistrations   \* bound
      [] r.op = "AppendEvent" -> Logged(NoteType) < MaxNotes                        \* bound

Writes(r) ==
    CASE r.op = "CreateCharge" -> ChargeWrites(r)
      [] r.op = "ExpireCharge" -> ExpireWrites(r)
      [] r.op = "SettleCharge" -> SettleWrites(r)
      [] r.op = "CreateRefund" -> RefundWrites(r)
      [] r.op = "PutWebhook" -> WebhookWrites(r)

Written(db, w) ==
    [db EXCEPT ![w.table] = IF w.table = "events" THEN Append(@, w.row)
                            ELSE Insert(@, w.key, w.row)]

-----------------------------------------------------------------------------
\* mutant: an early return that skips the deferred Rollback
KeepsConnection(c) == IF call[c].pc = "tx" THEN conn ELSE NoOne

\* The end of a transaction, or of a statement over the pool.
Released(c) == NoOne

Publish(db) ==
    /\ charges' = db.charges
    /\ payments' = db.payments
    /\ refunds' = db.refunds
    /\ webhooks' = db.webhooks
    /\ events' = db.events

Becomes(c, state) == call' = [call EXCEPT ![c] = state]

Transactional == {"CreateCharge", "ExpireCharge", "SettleCharge", "CreateRefund", "PutWebhook"}

Call(c) ==
    /\ call[c].pc = "idle"
    /\ called < MaxCalls
    /\ \E r \in Request : Becomes(c, [pc |-> "waits", req |-> r])
    /\ called' = called + 1
    /\ UNCHANGED <<storeVars, conn>>

\* BeginTx, or a statement over the pool, once the connection is free.
TakeConnection(c) ==
    /\ call[c].pc = "waits"
    /\ conn = NoOne
    /\ conn' = c
    /\ Becomes(c, [pc |-> CASE call[c].req.op \in Transactional -> "tx"
                             [] call[c].req.op = "AppendEvent" -> "exec"
                             [] call[c].req.op = "PaymentWithRefunds" -> "query",
                   req |-> call[c].req])
    /\ UNCHANGED <<storeVars, called>>

Select(c) ==
    /\ call[c].pc = "tx"
    /\ Proceeds(call[c].req)
    /\ Becomes(c, [pc |-> "writes", req |-> call[c].req, left |-> Writes(call[c].req),
                   work |-> Committed])
    /\ UNCHANGED <<storeVars, conn, called>>

ReturnEarly(c) ==
    /\ call[c].pc \in {"tx", "exec"}
    /\ ~Proceeds(call[c].req)
    /\ conn' = Released(c)
    /\ Becomes(c, Idle)
    /\ UNCHANGED <<storeVars, called>>

Write(c) ==
    /\ call[c].pc = "writes"
    /\ call[c].left # <<>>
    /\ Becomes(c, [call[c] EXCEPT !.left = Tail(@), !.work = Written(@, Head(call[c].left))])
    /\ UNCHANGED <<storeVars, conn, called>>

Commit(c) ==
    /\ call[c].pc = "writes"
    /\ call[c].left = <<>>
    /\ Publish(call[c].work)
    /\ conn' = Released(c)
    /\ Becomes(c, Idle)
    /\ UNCHANGED called

\* mutant: the deferred call commits
CommittedAnyway(c) == call[c].work

\* What is left of the transaction after its deferred Rollback.
RolledBack(c) == Committed

\* The context is cancelled while the call waits for the connection.
WaitFails(c) ==
    /\ call[c].pc = "waits"
    /\ Becomes(c, Idle)
    /\ UNCHANGED <<storeVars, conn, called>>

\* A statement or the COMMIT fails, or its context is cancelled before it.
WriteFails(c) ==
    /\ call[c].pc = "writes"
    /\ Publish(RolledBack(c))
    /\ conn' = Released(c)
    /\ Becomes(c, Idle)
    /\ UNCHANGED called

\* A SELECT, an INSERT over the pool or a query fails: nothing was written.
ReadFails(c) ==
    /\ call[c].pc \in {"tx", "exec", "query"}
    /\ conn' = Released(c)
    /\ Becomes(c, Idle)
    /\ UNCHANGED <<storeVars, called>>

\* AppendEvent: one INSERT, a transaction of its own.
Exec(c) ==
    LET r == call[c].req IN
    /\ call[c].pc = "exec"
    /\ Proceeds(r)
    /\ AppendEvent(r.agg, r.type, r.now)
    /\ conn' = Released(c)
    /\ Becomes(c, Idle)
    /\ UNCHANGED called

-----------------------------------------------------------------------------
(***************************************************************************)
(* PaymentWithRefunds: two queries, the connection free between them.      *)
(***************************************************************************)
Unread == [payment |-> <<>>, refunds |-> <<>>]

ReadPayment(e2e, seen) == [seen EXCEPT !.payment = payments[e2e]]
ReadRefunds(e2e, seen) ==
    [seen EXCEPT !.refunds = [k \in RefundsOf(e2e) |-> refunds[k]]]

\* mutant: the refunds are read before the payment
SwappedQuery(e2e, seen, n) == IF n = 2 THEN ReadPayment(e2e, seen) ELSE ReadRefunds(e2e, seen)

Query(e2e, seen, n) == IF n = 1 THEN ReadPayment(e2e, seen) ELSE ReadRefunds(e2e, seen)

FirstQuery(c) ==
    /\ call[c].pc = "query"
    /\ conn' = Released(c)
    /\ Becomes(c, [pc |-> "between", req |-> call[c].req,
                   seen |-> Query(call[c].req.e2e, Unread, 1)])
    /\ UNCHANGED <<storeVars, called>>

SecondQuery(c) ==
    /\ call[c].pc = "between"
    /\ conn = NoOne
    /\ Becomes(c, [call[c] EXCEPT !.pc = "answers", !.seen = Query(call[c].req.e2e, @, 2)])
    /\ UNCHANGED <<storeVars, conn, called>>

Answer(c) ==
    /\ call[c].pc = "answers"
    /\ Becomes(c, Idle)
    /\ UNCHANGED <<storeVars, conn, called>>

-----------------------------------------------------------------------------
\* The process ends and another opens the file: what was not committed is gone.
Crash ==
    /\ conn' = NoOne
    /\ call' = [c \in Caller |-> Idle]
    /\ UNCHANGED <<storeVars, called>>

Proceed(c) ==
    \/ TakeConnection(c) \/ Select(c) \/ ReturnEarly(c) \/ Write(c) \/ Commit(c)
    \/ Exec(c) \/ FirstQuery(c) \/ SecondQuery(c) \/ Answer(c)

TxNext ==
    \/ \E c \in Caller :
          Call(c) \/ Proceed(c) \/ WaitFails(c) \/ WriteFails(c) \/ ReadFails(c)
    \/ Crash

\* A goroutine that can go on does; no call need be made and nothing need fail.
TxSpec == TxInit /\ [][TxNext]_all /\ \A c \in Caller : WF_all(Proceed(c))

-----------------------------------------------------------------------------
\* The methods as they run, cut short anywhere, do to the tables what PixStore says
\* a method does in one step, or nothing.
StoreRefined == Spec

\* A PaymentWithRefunds that a refund overtakes never answers a payment that counts
\* more than the refunds listed with it.
RefundsCoverCount ==
    \A c \in Caller : call[c].pc = "answers" =>
        LET seen == call[c].seen IN
        seen.payment.refunded
            <= MapThenSumSet(LAMBDA k : seen.refunds[k].cents, DOMAIN seen.refunds)

\* Every call ends: none keeps the connection, and none waits for one it holds.
CallsEnd == \A c \in Caller : call[c].pc # "idle" ~> call[c].pc = "idle"
=============================================================================
