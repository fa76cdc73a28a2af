---------------------------- MODULE StoreTxProofs -----------------------------
(***************************************************************************)
(* Theorems about StoreTx: the methods of the store as they run, statement *)
(* by statement, cut short by errors and crashes, are the one-step methods *)
(* of PixStore, for every set of callers and requests; and a read made of  *)
(* two queries never shows a payment that counts more than its refunds.    *)
(***************************************************************************)
EXTENDS StoreTx, PixStoreProofs

-----------------------------------------------------------------------------
(***************************************************************************)
(* What a transaction has still to write.  No method writes more than five *)
(* rows and events, so no recursion is needed to say what it comes to.     *)
(***************************************************************************)
After(db, left) ==
    LET Done(d, n) == IF n <= Len(left) THEN Written(d, left[n]) ELSE d
    IN  Done(Done(Done(Done(Done(db, 1), 2), 3), 4), 5)

\* The statement written moves from what is left to what is done.
LEMMA WriteOne ==
    ASSUME NEW S, NEW left \in Seq(S), Len(left) \in 1 .. 5, NEW db
    PROVE  After(Written(db, Head(left)), Tail(left)) = After(db, left)
    <1> DEFINE n == Len(left)
               At(d, k) == IF k <= n THEN Written(d, left[k]) ELSE d
    <1>1. /\ Len(Tail(left)) = n - 1 /\ Head(left) = left[1]
          /\ \A k \in 1 .. n - 1 : Tail(left)[k] = left[k + 1]
        <2>1. left # <<>> /\ n \in Nat
            OBVIOUS
        <2>2. Head(left) = left[1]
            BY <2>1
        <2>3. Len(Tail(left)) = n - 1
            BY <2>1
        <2>4. \A k \in 1 .. n - 1 : Tail(left)[k] = left[k + 1]
            BY <2>1
        <2> QED
            BY <2>2, <2>3, <2>4
    <1>2. ASSUME NEW d, NEW k \in 1 .. 5
          PROVE  (IF k <= Len(Tail(left)) THEN Written(d, Tail(left)[k]) ELSE d) = At(d, k + 1)
        BY <1>1
    <1>3. After(Written(db, Head(left)), Tail(left))
              = At(At(At(At(At(Written(db, left[1]), 2), 3), 4), 5), 6)
        BY <1>1, <1>2 DEF After
    <1>4. After(db, left) = At(At(At(At(Written(db, left[1]), 2), 3), 4), 5)
        BY DEF After
    <1> QED
        BY <1>3, <1>4

LEMMA NothingLeft ==
    ASSUME NEW db, NEW left, Len(left) = 0
    PROVE  After(db, left) = db
    BY DEF After

\* The tables as a transaction sees them.
Tables(c, p, r, w, e) == [charges |-> c, payments |-> p, refunds |-> r, webhooks |-> w, events |-> e]

LEMMA WrittenIs ==
    ASSUME NEW c, NEW p, NEW r, NEW w, NEW e, NEW key, NEW row
    PROVE  /\ Written(Tables(c, p, r, w, e), Row("charges", key, row))
                  = Tables(Insert(c, key, row), p, r, w, e)
           /\ Written(Tables(c, p, r, w, e), Row("payments", key, row))
                  = Tables(c, Insert(p, key, row), r, w, e)
           /\ Written(Tables(c, p, r, w, e), Row("refunds", key, row))
                  = Tables(c, p, Insert(r, key, row), w, e)
           /\ Written(Tables(c, p, r, w, e), Row("webhooks", key, row))
                  = Tables(c, p, r, Insert(w, key, row), e)
    <1> DEFINE db == Tables(c, p, r, w, e)
    <1>1. /\ db.charges = c /\ db.payments = p /\ db.refunds = r /\ db.webhooks = w
        BY DEF Tables
    <1>2. \A table : table # "events" =>
              Written(db, Row(table, key, row)) = [db EXCEPT ![table] = Insert(@, key, row)]
        BY DEF Written, Row
    <1>3. Written(db, Row("charges", key, row)) = [db EXCEPT !["charges"] = Insert(c, key, row)]
        BY <1>1, <1>2
    <1>4. Written(db, Row("payments", key, row)) = [db EXCEPT !["payments"] = Insert(p, key, row)]
        BY <1>1, <1>2
    <1>5. Written(db, Row("refunds", key, row)) = [db EXCEPT !["refunds"] = Insert(r, key, row)]
        BY <1>1, <1>2
    <1>6. Written(db, Row("webhooks", key, row)) = [db EXCEPT !["webhooks"] = Insert(w, key, row)]
        BY <1>1, <1>2
    <1> QED
        BY <1>3, <1>4, <1>5, <1>6 DEF Tables

LEMMA LoggedIs ==
    ASSUME NEW c, NEW p, NEW r, NEW w, NEW e, NEW agg, NEW type, NEW at, NEW body
    PROVE  Written(Tables(c, p, r, w, e), Log(agg, type, at, body))
               = Tables(c, p, r, w, Append(e, EventAt(agg, type, at, body)))
    BY DEF Written, Log, Tables

\* An UPDATE leaves the table its keys.
LEMMA InsertUpdates ==
    ASSUME NEW table, NEW R, table \in [DOMAIN table -> R], NEW key \in DOMAIN table, NEW row
    PROVE  Insert(table, key, row) = [table EXCEPT ![key] = row]
    BY DEF Insert

LEMMA AppendTwice ==
    ASSUME NEW S, NEW log \in Seq(S), NEW first, NEW second
    PROVE  Append(Append(log, first), second) = log \o <<first, second>>
    OBVIOUS

LEMMA AfterTwo ==
    ASSUME NEW db, NEW v1, NEW v2
    PROVE  After(db, <<v1, v2>>) = Written(Written(db, v1), v2)
    BY DEF After

LEMMA AfterFour ==
    ASSUME NEW db, NEW v1, NEW v2, NEW v3, NEW v4
    PROVE  After(db, <<v1, v2, v3, v4>>)
               = Written(Written(Written(Written(db, v1), v2), v3), v4)
    BY DEF After

LEMMA AfterFive ==
    ASSUME NEW db, NEW v1, NEW v2, NEW v3, NEW v4, NEW v5
    PROVE  After(db, <<v1, v2, v3, v4, v5>>)
               = Written(Written(Written(Written(Written(db, v1), v2), v3), v4), v5)
    BY DEF After

-----------------------------------------------------------------------------
(***************************************************************************)
(* What the methods write, all of it, is what PixStore says they do.       *)
(***************************************************************************)
LEMMA RequestParts ==
    ASSUME NEW r \in Request
    PROVE  /\ r.op = "CreateCharge" => /\ r.txid \in TxId /\ r.cents \in Amount /\ r.chave \in Chave
                                       /\ r.window \in Window /\ r.now \in Time
           /\ r.op = "ExpireCharge" => r.txid \in TxId /\ r.now \in Time
           /\ r.op = "SettleCharge" => r.txid \in TxId /\ r.now \in Time /\ r.rnd \in RandomHalf
           /\ r.op = "CreateRefund" => /\ r.e2e \in DOMAIN payments /\ r.id \in RefundId
                                       /\ r.cents \in Amount /\ r.now \in Time
                                       /\ r.rnd \in RandomHalf
           /\ r.op = "PutWebhook" => r.chave \in Chave /\ r.url \in Url /\ r.now \in Time
           /\ r.op = "AppendEvent" =>
                 /\ r.now \in Time
                 /\ \/ r.agg = OAuthAggregate /\ r.type = "oauth.token.issued"
                    \/ /\ \E e \in DOMAIN payments : r.agg = PaymentAggregate(e)
                       /\ r.type \in {"webhook.delivered", "webhook.failed"}
    BY DEF Request

\* A method's writes are at most five, and land together as its one step.
Lands(r) ==
    /\ Len(Writes(r)) \in 0 .. 5
    /\ \E S : Writes(r) \in Seq(S)
    /\ Publish(After(Committed, Writes(r))) => Next

LEMMA CommittedIs == Committed = Tables(charges, payments, refunds, webhooks, events)
    BY DEF Committed, Tables

LEMMA PublishIs ==
    ASSUME NEW c, NEW p, NEW r, NEW w, NEW e, Publish(Tables(c, p, r, w, e))
    PROVE  charges' = c /\ payments' = p /\ refunds' = r /\ webhooks' = w /\ events' = e
    BY DEF Publish, Tables

\* A charge and its event.
LEMMA ChargeAndEvent ==
    ASSUME NEW key, NEW row, NEW agg, NEW type, NEW at, NEW body
    PROVE  After(Committed, <<Row("charges", key, row), Log(agg, type, at, body)>>)
               = Tables(Insert(charges, key, row), payments, refunds, webhooks,
                        Append(events, EventAt(agg, type, at, body)))
    <1> DEFINE v1 == Row("charges", key, row)
               v2 == Log(agg, type, at, body)
    <1>1. Written(Committed, v1)
              = Tables(Insert(charges, key, row), payments, refunds, webhooks, events)
        BY CommittedIs, WrittenIs
    <1>2. Written(Written(Committed, v1), v2)
              = Tables(Insert(charges, key, row), payments, refunds, webhooks,
                       Append(events, EventAt(agg, type, at, body)))
        BY <1>1, LoggedIs
    <1> HIDE DEF v1, v2
    <1>3. After(Committed, <<v1, v2>>) = Written(Written(Committed, v1), v2)
        BY AfterTwo
    <1> QED
        BY <1>2, <1>3 DEF v1, v2

\* A webhook and its event.
LEMMA WebhookAndEvent ==
    ASSUME NEW key, NEW row, NEW agg, NEW type, NEW at, NEW body
    PROVE  After(Committed, <<Row("webhooks", key, row), Log(agg, type, at, body)>>)
               = Tables(charges, payments, refunds, Insert(webhooks, key, row),
                        Append(events, EventAt(agg, type, at, body)))
    <1> DEFINE v1 == Row("webhooks", key, row)
               v2 == Log(agg, type, at, body)
    <1>1. Written(Committed, v1)
              = Tables(charges, payments, refunds, Insert(webhooks, key, row), events)
        BY CommittedIs, WrittenIs
    <1>2. Written(Written(Committed, v1), v2)
              = Tables(charges, payments, refunds, Insert(webhooks, key, row),
                       Append(events, EventAt(agg, type, at, body)))
        BY <1>1, LoggedIs
    <1> HIDE DEF v1, v2
    <1>3. After(Committed, <<v1, v2>>) = Written(Written(Committed, v1), v2)
        BY AfterTwo
    <1> QED
        BY <1>2, <1>3 DEF v1, v2

\* A payment, its charge, and the events of both.
LEMMA PaymentAndCharge ==
    ASSUME NEW e2e, NEW payment, NEW txid, NEW charge,
           NEW agg1, NEW type1, NEW at1, NEW body1, NEW agg2, NEW type2, NEW at2, NEW body2
    PROVE  After(Committed, <<Row("payments", e2e, payment), Row("charges", txid, charge),
                              Log(agg1, type1, at1, body1), Log(agg2, type2, at2, body2)>>)
               = Tables(Insert(charges, txid, charge), Insert(payments, e2e, payment), refunds,
                        webhooks, Append(Append(events, EventAt(agg1, type1, at1, body1)),
                                         EventAt(agg2, type2, at2, body2)))
    <1> DEFINE v1 == Row("payments", e2e, payment)
               v2 == Row("charges", txid, charge)
               v3 == Log(agg1, type1, at1, body1)
               v4 == Log(agg2, type2, at2, body2)
    <1>1. Written(Committed, v1)
              = Tables(charges, Insert(payments, e2e, payment), refunds, webhooks, events)
        BY CommittedIs, WrittenIs
    <1>2. Written(Written(Committed, v1), v2)
              = Tables(Insert(charges, txid, charge), Insert(payments, e2e, payment), refunds,
                       webhooks, events)
        BY <1>1, WrittenIs
    <1>3. Written(Written(Written(Committed, v1), v2), v3)
              = Tables(Insert(charges, txid, charge), Insert(payments, e2e, payment), refunds,
                       webhooks, Append(events, EventAt(agg1, type1, at1, body1)))
        BY <1>2, LoggedIs
    <1>4. Written(Written(Written(Written(Committed, v1), v2), v3), v4)
              = Tables(Insert(charges, txid, charge), Insert(payments, e2e, payment), refunds,
                       webhooks, Append(Append(events, EventAt(agg1, type1, at1, body1)),
                                        EventAt(agg2, type2, at2, body2)))
        BY <1>3, LoggedIs
    <1> HIDE DEF v1, v2, v3, v4
    <1>5. After(Committed, <<v1, v2, v3, v4>>)
              = Written(Written(Written(Written(Committed, v1), v2), v3), v4)
        BY AfterFour
    <1> QED
        BY <1>4, <1>5 DEF v1, v2, v3, v4

\* A refund twice, its payment, and both events of the refund.
LEMMA RefundAndPayment ==
    ASSUME NEW key, NEW first, NEW second, NEW e2e, NEW payment,
           NEW agg1, NEW type1, NEW at1, NEW body1, NEW agg2, NEW type2, NEW at2, NEW body2
    PROVE  After(Committed, <<Row("refunds", key, first), Log(agg1, type1, at1, body1),
                              Row("refunds", key, second), Row("payments", e2e, payment),
                              Log(agg2, type2, at2, body2)>>)
               = Tables(charges, Insert(payments, e2e, payment), Insert(refunds, key, second),
                        webhooks, Append(Append(events, EventAt(agg1, type1, at1, body1)),
                                         EventAt(agg2, type2, at2, body2)))
    <1> DEFINE v1 == Row("refunds", key, first)
               v2 == Log(agg1, type1, at1, body1)
               v3 == Row("refunds", key, second)
               v4 == Row("payments", e2e, payment)
               v5 == Log(agg2, type2, at2, body2)
               logged == Append(events, EventAt(agg1, type1, at1, body1))
    <1>1. Written(Committed, v1)
              = Tables(charges, payments, Insert(refunds, key, first), webhooks, events)
        BY CommittedIs, WrittenIs
    <1>2. Written(Written(Committed, v1), v2)
              = Tables(charges, payments, Insert(refunds, key, first), webhooks, logged)
        BY <1>1, LoggedIs
    <1>3. Written(Written(Written(Committed, v1), v2), v3)
              = Tables(charges, payments, Insert(refunds, key, second), webhooks, logged)
        <2> HIDE DEF logged
        <2>1. Written(Written(Written(Committed, v1), v2), v3)
                  = Tables(charges, payments, Insert(Insert(refunds, key, first), key, second),
                           webhooks, logged)
            BY <1>2, WrittenIs
        <2> QED
            BY <2>1, InsertTwice
    <1>4. Written(Written(Written(Written(Committed, v1), v2), v3), v4)
              = Tables(charges, Insert(payments, e2e, payment), Insert(refunds, key, second),
                       webhooks, logged)
        BY <1>3, WrittenIs
    <1>5. Written(Written(Written(Written(Written(Committed, v1), v2), v3), v4), v5)
              = Tables(charges, Insert(payments, e2e, payment), Insert(refunds, key, second),
                       webhooks, Append(logged, EventAt(agg2, type2, at2, body2)))
        BY <1>4, LoggedIs
    <1> HIDE DEF v1, v2, v3, v4, v5
    <1>6. After(Committed, <<v1, v2, v3, v4, v5>>)
              = Written(Written(Written(Written(Written(Committed, v1), v2), v3), v4), v5)
        BY AfterFive
    <1> QED
        BY <1>5, <1>6 DEF v1, v2, v3, v4, v5

LEMMA ChargeLands ==
    ASSUME NEW r \in Request, r.op = "CreateCharge", Proceeds(r)
    PROVE  Lands(r)
    <1> DEFINE charge == NewCharge(r.cents, r.chave, r.window, r.now)
               row == Row("charges", r.txid, charge)
               log == Log(ChargeAggregate(r.txid), "cob.created", r.now, ChargePayload(charge))
               event == EventAt(ChargeAggregate(r.txid), "cob.created", r.now, ChargePayload(charge))
    <1>1. Writes(r) = <<row, log>>
        BY DEF Writes, ChargeWrites
    <1>2. After(Committed, <<row, log>>)
              = Tables(Insert(charges, r.txid, charge), payments, refunds, webhooks,
                       Append(events, event))
        <2> HIDE DEF charge
        <2> QED
            BY ChargeAndEvent
    <1>3. <<row, log>> \in Seq({row, log}) /\ Len(<<row, log>>) = 2
        OBVIOUS
    <1>4. ASSUME Publish(After(Committed, Writes(r)))
          PROVE  Next
        <2>1. /\ charges' = Insert(charges, r.txid, charge) /\ events' = Append(events, event)
              /\ UNCHANGED <<payments, refunds, webhooks>>
            BY <1>1, <1>2, <1>4, PublishIs
        <2>2. ChargeIsNew(r.txid)
            BY DEF Proceeds
        <2>3. CreateCharge(r.txid, r.cents, r.chave, r.window, r.now)
            BY <2>1, <2>2 DEF CreateCharge
        <2> QED
            BY <2>3, RequestParts DEF Next, Transaction
    <1> HIDE DEF row, log
    <1>5. Writes(r) \in Seq({row, log}) /\ Len(Writes(r)) \in 0 .. 5
        BY <1>1, <1>3
    <1>6. \E S : Writes(r) \in Seq(S)
        BY <1>5
    <1> QED
        BY <1>4, <1>5, <1>6 DEF Lands

LEMMA ExpireLands ==
    ASSUME TypeOK, NEW r \in Request, r.op = "ExpireCharge", Proceeds(r)
    PROVE  Lands(r)
    <1> DEFINE charge == [charges[r.txid] EXCEPT !.status = "EXPIRADA"]
               body == [expiresAt |-> charges[r.txid].expiresAt, observedAt |-> r.now]
               row == Row("charges", r.txid, charge)
               log == Log(ChargeAggregate(r.txid), "cob.expired", r.now, body)
               event == EventAt(ChargeAggregate(r.txid), "cob.expired", r.now, body)
    <1>1. Writes(r) = <<row, log>>
        BY DEF Writes, ExpireWrites
    <1>2. After(Committed, <<row, log>>)
              = Tables(Insert(charges, r.txid, charge), payments, refunds, webhooks,
                       Append(events, event))
        <2> HIDE DEF charge, body
        <2> QED
            BY ChargeAndEvent
    <1>3. <<row, log>> \in Seq({row, log}) /\ Len(<<row, log>>) = 2
        OBVIOUS
    <1>4. ASSUME Publish(After(Committed, Writes(r)))
          PROVE  Next
        <2>1. /\ charges' = Insert(charges, r.txid, charge) /\ events' = Append(events, event)
              /\ UNCHANGED <<payments, refunds, webhooks>>
            BY <1>1, <1>2, <1>4, PublishIs
        <2>2. r.txid \in DOMAIN charges /\ IsExpired(charges[r.txid], r.now)
            BY DEF Proceeds
        <2>3. charges' = [charges EXCEPT ![r.txid].status = "EXPIRADA"]
            <3>1. charges \in [DOMAIN charges -> ChargeRow]
                BY DEF TypeOK, Typed
            <3>2. charges' = [charges EXCEPT ![r.txid] = charge]
                <4> HIDE DEF charge
                <4> QED
                    BY <2>1, <2>2, <3>1, InsertUpdates
            <3> QED
                BY <2>2, <3>1, <3>2
        <2>4. ExpireCharge(r.txid, r.now)
            BY <2>1, <2>2, <2>3 DEF ExpireCharge
        <2> QED
            BY <2>4, RequestParts DEF Next, Transaction
    <1> HIDE DEF row, log
    <1>5. Writes(r) \in Seq({row, log}) /\ Len(Writes(r)) \in 0 .. 5
        BY <1>1, <1>3
    <1>6. \E S : Writes(r) \in Seq(S)
        BY <1>5
    <1> QED
        BY <1>4, <1>5, <1>6 DEF Lands

LEMMA SettleLands ==
    ASSUME TypeOK, NEW r \in Request, r.op = "SettleCharge", Proceeds(r)
    PROVE  Lands(r)
    <1> DEFINE seq == NextNumber(PaymentSeqs)
               e2e == NewE2EID(r.now, r.rnd, seq)
               payment == NewPayment(r.txid, seq, r.now)
               charge == [charges[r.txid] EXCEPT !.status = "CONCLUIDA", !.revisao = @ + 1]
               body == [status |-> "CONCLUIDA", e2e |-> e2e, cents |-> payment.cents]
               v1 == Row("payments", e2e, payment)
               v2 == Row("charges", r.txid, charge)
               v3 == Log(PaymentAggregate(e2e), "pix.received", r.now, PaymentPayload(payment))
               v4 == Log(ChargeAggregate(r.txid), "cob.settled", r.now, body)
               received == EventAt(PaymentAggregate(e2e), "pix.received", r.now,
                                   PaymentPayload(payment))
               settled == EventAt(ChargeAggregate(r.txid), "cob.settled", r.now, body)
    <1>1. Writes(r) = <<v1, v2, v3, v4>>
        BY DEF Writes, SettleWrites
    <1>2. After(Committed, <<v1, v2, v3, v4>>)
              = Tables(Insert(charges, r.txid, charge), Insert(payments, e2e, payment), refunds,
                       webhooks, Append(Append(events, received), settled))
        <2> HIDE DEF e2e, payment, charge, body
        <2> QED
            BY PaymentAndCharge
    <1>3. <<v1, v2, v3, v4>> \in Seq({v1, v2, v3, v4}) /\ Len(<<v1, v2, v3, v4>>) = 4
        OBVIOUS
    <1>4. ASSUME Publish(After(Committed, Writes(r)))
          PROVE  Next
        <2>1. /\ charges' = Insert(charges, r.txid, charge)
              /\ payments' = Insert(payments, e2e, payment)
              /\ events' = Append(Append(events, received), settled)
              /\ UNCHANGED <<refunds, webhooks>>
            BY <1>1, <1>2, <1>4, PublishIs
        <2>2. /\ r.txid \in DOMAIN charges /\ Payable(charges[r.txid], r.now) /\ SeqFits(seq)
              /\ PaymentAccepted(e2e, payment)
            BY DEF Proceeds
        <2>3. charges' = [charges EXCEPT ![r.txid].status = "CONCLUIDA", ![r.txid].revisao = @ + 1]
            <3>1. charges \in [DOMAIN charges -> ChargeRow]
                BY DEF TypeOK, Typed
            <3>2. charges' = [charges EXCEPT ![r.txid] = charge]
                <4> HIDE DEF charge
                <4> QED
                    BY <2>1, <2>2, <3>1, InsertUpdates
            <3> QED
                BY <2>2, <3>1, <3>2
        <2>4. events' = events \o <<received, settled>>
            BY <2>1, AppendTwice DEF TypeOK
        <2>5. SettleCharge(r.txid, r.now, r.rnd)
            BY <2>1, <2>2, <2>3, <2>4 DEF SettleCharge
        <2> QED
            BY <2>5, RequestParts DEF Next, Transaction
    <1> HIDE DEF v1, v2, v3, v4
    <1>5. Writes(r) \in Seq({v1, v2, v3, v4}) /\ Len(Writes(r)) \in 0 .. 5
        BY <1>1, <1>3
    <1>6. \E S : Writes(r) \in Seq(S)
        BY <1>5
    <1> QED
        BY <1>4, <1>5, <1>6 DEF Lands

LEMMA RefundLands ==
    ASSUME TypeOK, NEW r \in Request, r.op = "CreateRefund", Proceeds(r)
    PROVE  Lands(r)
    <1> DEFINE seq == NextNumber(RefundSeqs)
               key == <<r.e2e, r.id>>
               requested == RefundAs("EM_PROCESSAMENTO", r.cents, seq, r.now, r.rnd)
               settled == RefundAs("DEVOLVIDO", r.cents, seq, r.now, r.rnd)
               payment == [payments[r.e2e] EXCEPT
                              !.refunded = RefundedAfter(payments[r.e2e], r.cents),
                              !.status = StatusAfterRefund(payments[r.e2e], r.cents)]
               v1 == Row("refunds", key, requested)
               v2 == Log(PaymentAggregate(r.e2e), "pix.devolucao.requested", r.now,
                         RefundPayload(r.id, requested))
               v3 == Row("refunds", key, settled)
               v4 == Row("payments", r.e2e, payment)
               v5 == Log(PaymentAggregate(r.e2e), "pix.devolucao.settled", r.now,
                         RefundPayload(r.id, settled))
               asking == EventAt(PaymentAggregate(r.e2e), "pix.devolucao.requested", r.now,
                                 RefundPayload(r.id, requested))
               giving == EventAt(PaymentAggregate(r.e2e), "pix.devolucao.settled", r.now,
                                 RefundPayload(r.id, settled))
    <1>1. Writes(r) = <<v1, v2, v3, v4, v5>>
        BY DEF Writes, RefundWrites
    <1>2. After(Committed, <<v1, v2, v3, v4, v5>>)
              = Tables(charges, Insert(payments, r.e2e, payment), Insert(refunds, key, settled),
                       webhooks, Append(Append(events, asking), giving))
        <2> HIDE DEF key, requested, settled, payment
        <2> QED
            BY RefundAndPayment
    <1>3. <<v1, v2, v3, v4, v5>> \in Seq({v1, v2, v3, v4, v5}) /\ Len(<<v1, v2, v3, v4, v5>>) = 5
        OBVIOUS
    <1>4. ASSUME Publish(After(Committed, Writes(r)))
          PROVE  Next
        <2>1. /\ payments' = Insert(payments, r.e2e, payment)
              /\ refunds' = Insert(refunds, key, settled)
              /\ events' = Append(Append(events, asking), giving)
              /\ UNCHANGED <<charges, webhooks>>
            BY <1>1, <1>2, <1>4, PublishIs
        <2>2. /\ r.cents <= RefundableCents(payments[r.e2e]) /\ SeqFits(seq)
              /\ RefundAccepted(key, requested, RefundedAfter(payments[r.e2e], r.cents))
            BY DEF Proceeds
        <2>3. r.e2e \in DOMAIN payments
            BY RequestParts
        <2>4. payments' = [payments EXCEPT
                              ![r.e2e].refunded = RefundedAfter(payments[r.e2e], r.cents),
                              ![r.e2e].status = StatusAfterRefund(payments[r.e2e], r.cents)]
            <3>1. payments \in [DOMAIN payments -> PaymentRow]
                BY DEF TypeOK, Typed
            <3>2. payments' = [payments EXCEPT ![r.e2e] = payment]
                <4> HIDE DEF payment
                <4> QED
                    BY <2>1, <2>3, <3>1, InsertUpdates
            <3> QED
                BY <2>3, <3>1, <3>2
        <2>5. events' = events \o <<asking, giving>>
            BY <2>1, AppendTwice DEF TypeOK
        <2>6. CreateRefund(r.e2e, r.id, r.cents, r.now, r.rnd)
            BY <2>1, <2>2, <2>3, <2>4, <2>5 DEF CreateRefund, RefundTrail
        <2> QED
            BY <2>6, RequestParts DEF Next, Transaction
    <1> HIDE DEF v1, v2, v3, v4, v5
    <1>5. Writes(r) \in Seq({v1, v2, v3, v4, v5}) /\ Len(Writes(r)) \in 0 .. 5
        BY <1>1, <1>3
    <1>6. \E S : Writes(r) \in Seq(S)
        BY <1>5
    <1> QED
        BY <1>4, <1>5, <1>6 DEF Lands

LEMMA WebhookLands ==
    ASSUME NEW r \in Request, r.op = "PutWebhook", Proceeds(r)
    PROVE  Lands(r)
    <1> DEFINE created == r.chave \notin DOMAIN webhooks
               hook == [url |-> r.url, updatedAt |-> r.now,
                        createdAt |-> IF created THEN r.now ELSE webhooks[r.chave].createdAt]
               row == Row("webhooks", r.chave, hook)
               log == Log(WebhookAggregate(r.chave), "webhook.registered", r.now,
                          WebhookPayload(r.url, created))
               event == EventAt(WebhookAggregate(r.chave), "webhook.registered", r.now,
                                WebhookPayload(r.url, created))
    <1>1. Writes(r) = <<row, log>>
        BY DEF Writes, WebhookWrites
    <1>2. After(Committed, <<row, log>>)
              = Tables(charges, payments, refunds, Insert(webhooks, r.chave, hook),
                       Append(events, event))
        <2> HIDE DEF hook
        <2> QED
            BY WebhookAndEvent
    <1>3. <<row, log>> \in Seq({row, log}) /\ Len(<<row, log>>) = 2
        OBVIOUS
    <1>4. ASSUME Publish(After(Committed, Writes(r)))
          PROVE  Next
        <2>1. /\ webhooks' = Insert(webhooks, r.chave, hook) /\ events' = Append(events, event)
              /\ UNCHANGED <<charges, payments, refunds>>
            BY <1>1, <1>2, <1>4, PublishIs
        <2>2. PutWebhook(r.chave, r.url, r.now)
            BY <2>1 DEF PutWebhook
        <2>3. Logged({"webhook.registered"}) < MaxRegistrations
            BY DEF Proceeds
        <2> QED
            BY <2>2, <2>3, RequestParts DEF Next, Transaction
    <1> HIDE DEF row, log
    <1>5. Writes(r) \in Seq({row, log}) /\ Len(Writes(r)) \in 0 .. 5
        BY <1>1, <1>3
    <1>6. \E S : Writes(r) \in Seq(S)
        BY <1>5
    <1> QED
        BY <1>4, <1>5, <1>6 DEF Lands

\* Any method that passes its SELECTs.
LEMMA MethodLands ==
    ASSUME TypeOK, NEW r \in Request, r.op \in Transactional, Proceeds(r)
    PROVE  Lands(r)
    BY ChargeLands, ExpireLands, SettleLands, RefundLands, WebhookLands DEF Transactional

-----------------------------------------------------------------------------
(***************************************************************************)
(* What every call holds.  One that has passed its SELECTs holds, in what  *)
(* it has done and what it has left, the tables some method would leave:   *)
(* the connection it holds is why these are still the tables it read.      *)
(***************************************************************************)
Landings ==
    {After(Committed, Writes(r)) :
        r \in {q \in Request : q.op \in Transactional /\ Proceeds(q)}}

Holding == {"tx", "exec", "query", "writes"}

Sound(k, c, holder, requests, landings) ==
    /\ k.pc # "idle" => k.req \in requests
    /\ k.pc \in Holding => holder = c
    /\ k.pc = "tx" => k.req.op \in Transactional
    /\ k.pc = "exec" => k.req.op = "AppendEvent"
    /\ k.pc = "query" => k.req.op = "PaymentWithRefunds"
    /\ k.pc = "writes" =>
          /\ k = [pc |-> "writes", req |-> k.req, left |-> k.left, work |-> k.work]
          /\ \E S : k.left \in Seq(S)
          /\ Len(k.left) \in 0 .. 5
          /\ After(k.work, k.left) \in landings
    /\ k.pc = "between" => k = [pc |-> "between", req |-> k.req, seen |-> k.seen]

CallsSound ==
    /\ call = [c \in Caller |-> call[c]]
    /\ \A c \in Caller : Sound(call[c], c, conn, Request, Landings)

TxInv == TableInv /\ CallsSound

LEMMA RequestGrows ==
    ASSUME DOMAIN payments \subseteq (DOMAIN payments)'
    PROVE  Request \subseteq Request'
    BY DEF Request

LEMMA SameNumbers ==
    ASSUME UNCHANGED storeVars
    PROVE  LocIds' = LocIds /\ PaymentSeqs' = PaymentSeqs /\ RefundSeqs' = RefundSeqs
    BY DEF storeVars, LocIds, PaymentSeqs, RefundSeqs

LEMMA SameRequest ==
    ASSUME UNCHANGED storeVars
    PROVE  Request' = Request
    BY DEF storeVars, Request

LEMMA SameWrites ==
    ASSUME UNCHANGED storeVars, NEW r
    PROVE  r.op \in Transactional => Writes(r)' = Writes(r)
    <1> USE SameNumbers DEF storeVars
    <1>1. ASSUME r.op = "CreateCharge"
          PROVE  Writes(r)' = Writes(r)
        BY <1>1 DEF Writes, ChargeWrites, NewCharge
    <1>2. ASSUME r.op = "ExpireCharge"
          PROVE  Writes(r)' = Writes(r)
        BY <1>2 DEF Writes, ExpireWrites
    <1>3. ASSUME r.op = "SettleCharge"
          PROVE  Writes(r)' = Writes(r)
        BY <1>3 DEF Writes, SettleWrites, NewPayment
    <1>4. ASSUME r.op = "CreateRefund"
          PROVE  Writes(r)' = Writes(r)
        BY <1>4 DEF Writes, RefundWrites
    <1>5. ASSUME r.op = "PutWebhook"
          PROVE  Writes(r)' = Writes(r)
        BY <1>5 DEF Writes, WebhookWrites
    <1> QED
        BY <1>1, <1>2, <1>3, <1>4, <1>5 DEF Transactional

LEMMA SameProceeds ==
    ASSUME UNCHANGED storeVars, NEW r
    PROVE  r.op \in Transactional => (Proceeds(r)' <=> Proceeds(r))
    <1> USE SameNumbers DEF storeVars
    <1>1. ASSUME r.op = "CreateCharge"
          PROVE  Proceeds(r)' <=> Proceeds(r)
        BY <1>1 DEF Proceeds, ChargeIsNew
    <1>2. ASSUME r.op = "ExpireCharge"
          PROVE  Proceeds(r)' <=> Proceeds(r)
        BY <1>2 DEF Proceeds
    <1>3. ASSUME r.op = "SettleCharge"
          PROVE  Proceeds(r)' <=> Proceeds(r)
        BY <1>3 DEF Proceeds, PaymentAccepted, NewPayment
    <1>4. ASSUME r.op = "CreateRefund"
          PROVE  Proceeds(r)' <=> Proceeds(r)
        BY <1>4 DEF Proceeds, RefundAccepted
    <1>5. ASSUME r.op = "PutWebhook"
          PROVE  Proceeds(r)' <=> Proceeds(r)
        BY <1>5 DEF Proceeds, Logged
    <1> QED
        BY <1>1, <1>2, <1>3, <1>4, <1>5 DEF Transactional

LEMMA SameLandings ==
    ASSUME UNCHANGED storeVars
    PROVE  Landings' = Landings
    <1>1. Committed' = Committed
        BY DEF Committed, storeVars
    <1>2. \A r : r.op \in Transactional =>
              (Proceeds(r)' <=> Proceeds(r)) /\ Writes(r)' = Writes(r)
        BY SameProceeds, SameWrites
    <1> QED
        BY <1>1, <1>2, SameRequest DEF Landings

\* A call keeps what it holds when another holds the connection, or nothing changes.
LEMMA KeepsSound ==
    ASSUME NEW k, NEW c, NEW holder, NEW requests, NEW landings,
           NEW holder2, NEW requests2, NEW landings2,
           Sound(k, c, holder, requests, landings),
           requests \subseteq requests2,
           (holder2 = holder /\ landings2 = landings) \/ holder # c
    PROVE  Sound(k, c, holder2, requests2, landings2)
    BY DEF Sound, Holding

\* A step of one call leaves the others what they hold.
LEMMA OneMoves ==
    ASSUME CallsSound, NEW c \in Caller, NEW state, call' = [call EXCEPT ![c] = state],
           Request \subseteq Request', Sound(state, c, conn', Request', Landings'),
           (conn' = conn /\ Landings' = Landings) \/ conn \in {c, NoOne}
    PROVE  CallsSound'
    <1>1. call' = [d \in Caller |-> IF d = c THEN state ELSE call[d]]
        BY DEF CallsSound
    <1>2. ASSUME NEW d \in Caller, d # c
          PROVE  Sound(call'[d], d, conn', Request', Landings')
        <2>1. call'[d] = call[d] /\ Sound(call[d], d, conn, Request, Landings)
            BY <1>1, <1>2 DEF CallsSound
        <2>2. (conn' = conn /\ Landings' = Landings) \/ conn # d
            BY <1>2, StoreTxAssumption
        <2> QED
            BY <2>1, <2>2, KeepsSound
    <1>3. call'[c] = state
        BY <1>1
    <1>4. \A d \in Caller : Sound(call'[d], d, conn', Request', Landings')
        BY <1>2, <1>3
    <1>5. call' = [d \in Caller |-> call'[d]]
        BY <1>1
    <1> QED
        BY <1>4, <1>5 DEF CallsSound

LEMMA IdleSound ==
    ASSUME NEW c, NEW holder, NEW requests, NEW landings
    PROVE  Sound(Idle, c, holder, requests, landings)
    BY DEF Sound, Idle, Holding

\* The tables stay as they are.
LEMMA QuietMove ==
    ASSUME CallsSound, NEW c \in Caller, NEW state, call' = [call EXCEPT ![c] = state],
           UNCHANGED storeVars, Sound(state, c, conn', Request, Landings),
           conn' = conn \/ conn \in {c, NoOne}
    PROVE  CallsSound'
    <1>1. Request' = Request /\ Landings' = Landings
        BY SameRequest, SameLandings
    <1> QED
        BY <1>1, OneMoves

\* The tables change under the call that holds the connection.
LEMMA LoudMove ==
    ASSUME TypeOK, CallsSound, NEW c \in Caller, Becomes(c, Idle), conn = c, Next
    PROVE  CallsSound'
    <1>1. DOMAIN payments \subseteq (DOMAIN payments)'
        BY PaymentsKept DEF TypeOK
    <1>2. Request \subseteq Request'
        BY <1>1, RequestGrows
    <1>3. call' = [call EXCEPT ![c] = Idle]
        BY DEF Becomes
    <1> QED
        BY <1>2, <1>3, IdleSound, OneMoves

\* Every request names one of the methods.
LEMMA RequestOps ==
    ASSUME NEW r \in Request
    PROVE  r.op \in Transactional \cup {"AppendEvent", "PaymentWithRefunds"}
    BY DEF Request, Transactional

-----------------------------------------------------------------------------
(***************************************************************************)
(* Every step of a call is a stutter of the store, but two: the COMMIT and *)
(* the INSERT of AppendEvent are the step of their method.                 *)
(***************************************************************************)
LEMMA BeginStep ==
    ASSUME CallsSound, NEW c \in Caller, Call(c) \/ TakeConnection(c)
    PROVE  UNCHANGED storeVars /\ CallsSound'
    <1>1. CASE Call(c)
        <2>1. PICK r \in Request : Becomes(c, [pc |-> "waits", req |-> r])
            BY <1>1 DEF Call
        <2> DEFINE state == [pc |-> "waits", req |-> r]
        <2>2. UNCHANGED storeVars /\ conn' = conn /\ call' = [call EXCEPT ![c] = state]
            BY <1>1, <2>1 DEF Call, Becomes
        <2>3. Sound(state, c, conn', Request, Landings)
            BY DEF Sound, Holding
        <2> HIDE DEF state
        <2> QED
            BY <2>2, <2>3, QuietMove
    <1>2. CASE TakeConnection(c)
        <2> DEFINE req == call[c].req
                   pc == CASE req.op \in Transactional -> "tx"
                           [] req.op = "AppendEvent" -> "exec"
                           [] req.op = "PaymentWithRefunds" -> "query"
                   state == [pc |-> pc, req |-> req]
        <2>1. /\ UNCHANGED storeVars /\ conn' = c /\ conn = NoOne
              /\ call' = [call EXCEPT ![c] = state]
            BY <1>2 DEF TakeConnection, Becomes
        <2>2. req \in Request
            BY <1>2 DEF TakeConnection, CallsSound, Sound
        <2>3. /\ pc \in {"tx", "exec", "query"}
              /\ pc = "tx" => req.op \in Transactional
              /\ pc = "exec" => req.op = "AppendEvent"
              /\ pc = "query" => req.op = "PaymentWithRefunds"
            <3>1. req.op \in Transactional \cup {"AppendEvent", "PaymentWithRefunds"}
                BY <2>2, RequestOps
            <3> QED
                BY <3>1 DEF Transactional
        <2> HIDE DEF pc
        <2>4. Sound(state, c, conn', Request, Landings)
            BY <2>1, <2>2, <2>3 DEF Sound, Holding
        <2> HIDE DEF state
        <2> QED
            BY <2>1, <2>4, QuietMove
    <1> QED
        BY <1>1, <1>2

LEMMA SelectStep ==
    ASSUME TypeOK, CallsSound, NEW c \in Caller, Select(c)
    PROVE  UNCHANGED storeVars /\ CallsSound'
    <1> DEFINE req == call[c].req
               left == Writes(req)
               work == Committed
               state == [pc |-> "writes", req |-> req, left |-> left, work |-> work]
    <1>1. /\ UNCHANGED storeVars /\ conn' = conn /\ Proceeds(req)
          /\ call' = [call EXCEPT ![c] = state]
        BY DEF Select, Becomes
    <1>2. req \in Request /\ req.op \in Transactional /\ conn = c
        BY DEF Select, CallsSound, Sound, Holding
    <1>3. (\E S : left \in Seq(S)) /\ Len(left) \in 0 .. 5
        BY <1>1, <1>2, MethodLands DEF Lands
    <1>4. After(work, left) \in Landings
        BY <1>1, <1>2 DEF Landings
    <1> HIDE DEF left, work, req
    <1>5. Sound(state, c, conn', Request, Landings)
        BY <1>1, <1>2, <1>3, <1>4 DEF Sound, Holding
    <1> HIDE DEF state
    <1> QED
        BY <1>1, <1>5, QuietMove

LEMMA WriteStep ==
    ASSUME CallsSound, NEW c \in Caller, Write(c)
    PROVE  UNCHANGED storeVars /\ CallsSound'
    <1> DEFINE req == call[c].req
               left == call[c].left
               work == call[c].work
               state == [pc |-> "writes", req |-> req, left |-> Tail(left),
                         work |-> Written(work, Head(left))]
    <1>1. /\ call[c] = [pc |-> "writes", req |-> req, left |-> left, work |-> work]
          /\ req \in Request /\ conn = c
          /\ Len(left) \in 0 .. 5
          /\ After(work, left) \in Landings
        BY DEF Write, CallsSound, Sound, Holding
    <1>2. PICK S : left \in Seq(S)
        BY DEF Write, CallsSound, Sound
    <1>3. /\ UNCHANGED storeVars /\ conn' = conn
          /\ call' = [call EXCEPT ![c] =
                         [call[c] EXCEPT !.left = Tail(left), !.work = Written(work, Head(left))]]
        BY DEF Write, Becomes
    <1>4. left # <<>>
        BY DEF Write
    <1> HIDE DEF req, left, work
    <1>5. [call[c] EXCEPT !.left = Tail(left), !.work = Written(work, Head(left))] = state
        <2> DEFINE left2 == Tail(left)
                   work2 == Written(work, Head(left))
                   k == call[c]
        <2> HIDE DEF left2, work2, k
        <2>1. [k EXCEPT !.left = left2, !.work = work2]
                  = [i \in DOMAIN k |->
                        IF i = "left" THEN left2 ELSE IF i = "work" THEN work2 ELSE k[i]]
            OBVIOUS
        <2>2. k = [pc |-> "writes", req |-> req, left |-> left, work |-> work]
            BY <1>1 DEF k
        <2>3. [k EXCEPT !.left = left2, !.work = work2]
                  = [pc |-> "writes", req |-> req, left |-> left2, work |-> work2]
            BY <2>1, <2>2
        <2> QED
            BY <2>3 DEF left2, work2, k
    <1>6. Len(left) \in 1 .. 5 /\ Tail(left) \in Seq(S) /\ Len(Tail(left)) \in 0 .. 5
        BY <1>1, <1>2, <1>4
    <1>7. After(Written(work, Head(left)), Tail(left)) \in Landings
        BY <1>1, <1>2, <1>6, WriteOne
    <1>8. \E T : Tail(left) \in Seq(T)
        BY <1>6
    <1>9. Sound(state, c, conn', Request, Landings)
        BY <1>1, <1>3, <1>6, <1>7, <1>8 DEF Sound, Holding
    <1> HIDE DEF state
    <1> QED
        BY <1>3, <1>5, <1>9, QuietMove

LEMMA CommitStep ==
    ASSUME TypeOK, CallsSound, NEW c \in Caller, Commit(c)
    PROVE  Next /\ CallsSound'
    <1>1. /\ conn = c /\ After(call[c].work, call[c].left) \in Landings
          /\ call[c].left = <<>>
        BY DEF Commit, CallsSound, Sound, Holding
    <1>2. call[c].work \in Landings
        BY <1>1, NothingLeft
    <1>3. PICK r \in Request : /\ r.op \in Transactional /\ Proceeds(r)
                               /\ call[c].work = After(Committed, Writes(r))
        BY <1>2 DEF Landings
    <1>4. Publish(After(Committed, Writes(r)))
        BY <1>3 DEF Commit, Publish
    <1>5. Next
        BY <1>3, <1>4, MethodLands DEF Lands
    <1> QED
        BY <1>1, <1>5, LoudMove DEF Commit

LEMMA ExecStep ==
    ASSUME TypeOK, CallsSound, NEW c \in Caller, Exec(c)
    PROVE  Next /\ CallsSound'
    <1> DEFINE r == call[c].req
    <1>1. r \in Request /\ r.op = "AppendEvent" /\ conn = c
        BY DEF Exec, CallsSound, Sound, Holding
    <1>2. Proceeds(r) /\ AppendEvent(r.agg, r.type, r.now)
        BY DEF Exec
    <1> HIDE DEF r
    <1>3. Logged(NoteType) < MaxNotes
        BY <1>1, <1>2 DEF Proceeds
    <1>4. /\ r.now \in Time
          /\ \/ r.agg = OAuthAggregate /\ r.type = "oauth.token.issued"
             \/ /\ \E e \in DOMAIN payments : r.agg = PaymentAggregate(e)
                /\ r.type \in {"webhook.delivered", "webhook.failed"}
        BY <1>1, RequestParts
    <1>5. AppendNote(r.now)
        BY <1>2, <1>4 DEF AppendNote
    <1>6. Next
        BY <1>3, <1>4, <1>5 DEF Next, Transaction
    <1> QED
        BY <1>1, <1>6, LoudMove DEF Exec

LEMMA ReadStep ==
    ASSUME CallsSound, NEW c \in Caller, FirstQuery(c) \/ SecondQuery(c)
    PROVE  UNCHANGED storeVars /\ CallsSound'
    <1>1. CASE FirstQuery(c)
        <2> DEFINE seen == Query(call[c].req.e2e, Unread, 1)
                   state == [pc |-> "between", req |-> call[c].req, seen |-> seen]
        <2>1. /\ UNCHANGED storeVars /\ conn = c /\ call[c].req \in Request
              /\ call' = [call EXCEPT ![c] = state]
            BY <1>1 DEF FirstQuery, Becomes, CallsSound, Sound, Holding
        <2> HIDE DEF seen
        <2>2. Sound(state, c, conn', Request, Landings)
            BY <2>1 DEF Sound, Holding
        <2> HIDE DEF state
        <2> QED
            BY <2>1, <2>2, QuietMove
    <1>2. CASE SecondQuery(c)
        <2> DEFINE first == call[c].seen
                   seen == Query(call[c].req.e2e, first, 2)
                   state == [pc |-> "answers", req |-> call[c].req, seen |-> seen]
        <2>1. /\ UNCHANGED storeVars /\ conn' = conn /\ call[c].req \in Request
              /\ call[c] = [pc |-> "between", req |-> call[c].req, seen |-> first]
              /\ call' = [call EXCEPT ![c] = [call[c] EXCEPT !.pc = "answers", !.seen = seen]]
            BY <1>2 DEF SecondQuery, Becomes, CallsSound, Sound
        <2> HIDE DEF seen, first
        <2>2. [call[c] EXCEPT !.pc = "answers", !.seen = seen] = state
            <3> DEFINE k == call[c]
                       req == call[c].req
            <3> HIDE DEF k, req
            <3>1. [k EXCEPT !.pc = "answers", !.seen = seen]
                      = [i \in DOMAIN k |->
                            IF i = "pc" THEN "answers" ELSE IF i = "seen" THEN seen ELSE k[i]]
                OBVIOUS
            <3>2. k = [pc |-> "between", req |-> req, seen |-> first]
                BY <2>1 DEF k, req
            <3>3. [k EXCEPT !.pc = "answers", !.seen = seen]
                      = [pc |-> "answers", req |-> req, seen |-> seen]
                BY <3>1, <3>2
            <3> QED
                BY <3>3 DEF k, req
        <2>3. Sound(state, c, conn', Request, Landings)
            BY <2>1 DEF Sound, Holding
        <2> HIDE DEF state
        <2> QED
            BY <2>1, <2>2, <2>3, QuietMove
    <1> QED
        BY <1>1, <1>2

\* A call that ends without its COMMIT: an early return, an error, its answer.
LEMMA EndStep ==
    ASSUME CallsSound, NEW c \in Caller,
           ReturnEarly(c) \/ WaitFails(c) \/ WriteFails(c) \/ ReadFails(c) \/ Answer(c)
    PROVE  UNCHANGED storeVars /\ CallsSound'
    <1>1. UNCHANGED storeVars
        BY DEF ReturnEarly, WaitFails, WriteFails, ReadFails, Answer, Publish, RolledBack,
               Committed, storeVars
    <1>2. call' = [call EXCEPT ![c] = Idle]
        BY DEF ReturnEarly, WaitFails, WriteFails, ReadFails, Answer, Becomes
    <1>3. conn' = conn \/ conn \in {c, NoOne}
        BY DEF ReturnEarly, WaitFails, WriteFails, ReadFails, Answer, CallsSound, Sound, Holding
    <1> QED
        BY <1>1, <1>2, <1>3, IdleSound, QuietMove

LEMMA CrashStep ==
    ASSUME Crash
    PROVE  UNCHANGED storeVars /\ CallsSound'
    BY IdleSound DEF Crash, CallsSound

LEMMA TxStep ==
    ASSUME TxInv, [TxNext]_all
    PROVE  [Next]_storeVars /\ TxInv'
    <1> USE DEF TxInv
    <1>1. TypeOK
        BY DEF TableInv
    <1>2. [Next]_storeVars /\ CallsSound'
        <2>1. ASSUME NEW c \in Caller, Call(c) \/ Proceed(c)
              PROVE  [Next]_storeVars /\ CallsSound'
            BY <1>1, <2>1, BeginStep, SelectStep, WriteStep, CommitStep, ExecStep, ReadStep, EndStep
               DEF Proceed
        <2>2. ASSUME NEW c \in Caller, WaitFails(c) \/ WriteFails(c) \/ ReadFails(c)
              PROVE  [Next]_storeVars /\ CallsSound'
            BY <2>2, EndStep
        <2>3. CASE UNCHANGED all
            <3>1. UNCHANGED storeVars /\ call' = call /\ conn' = conn
                BY <2>3 DEF all, txVars
            <3>2. Request' = Request /\ Landings' = Landings
                BY <3>1, SameRequest, SameLandings
            <3> QED
                BY <3>1, <3>2 DEF CallsSound
        <2> QED
            BY <2>1, <2>2, <2>3, CrashStep DEF TxNext
    <1>3. TableInv'
        BY <1>2, TablesStep
    <1> QED
        BY <1>2, <1>3

\* The empty database and no call.
LEMMA TxStarts ==
    ASSUME TxInit
    PROVE  TxInv
    <1>1. TableInv
        BY InitTables DEF TxInit
    <1>2. CallsSound
        BY IdleSound DEF TxInit, CallsSound
    <1> QED
        BY <1>1, <1>2 DEF TxInv

\* Whatever the callers ask, in whatever order their statements run and wherever an
\* error or a crash cuts them short, the tables behave as if every method were one
\* step: BeginTx, the deferred Rollback and the pool's one connection are enough.
THEOREM TxImplementsStore == TxSpec => StoreRefined
    <1>1. TxInit => Init /\ TxInv
        BY TxStarts DEF TxInit
    <1>2. TxInv /\ [TxNext]_all => [Next]_storeVars /\ TxInv'
        BY TxStep
    <1> QED
        BY <1>1, <1>2, PTL DEF TxSpec, StoreRefined, Spec

-----------------------------------------------------------------------------
(***************************************************************************)
(* PaymentWithRefunds.  Between its queries the counter it read is behind  *)
(* the stored one, which is what the refunds the second finds come to.     *)
(***************************************************************************)
Reads(k, pa) ==
    /\ k.pc = "between" =>
          /\ k.seen = [payment |-> k.seen.payment, refunds |-> <<>>]
          /\ k.req.e2e \in DOMAIN pa
          /\ k.seen.payment.refunded \in Nat
          /\ k.seen.payment.refunded <= pa[k.req.e2e].refunded
    /\ k.pc = "answers" =>
          k.seen.payment.refunded <= Cents(k.seen.refunds, DOMAIN k.seen.refunds)

CoverInv ==
    TxInv /\ Balanced(payments, refunds) /\ \A c \in Caller : Reads(call[c], payments)

\* The first query reads the counter as it is.
LEMMA FirstReads ==
    ASSUME TxInv, NEW c \in Caller, FirstQuery(c)
    PROVE  Reads(call'[c], payments)
    <1> DEFINE req == call[c].req
               p == payments[req.e2e]
               k == [pc |-> "between", req |-> req, seen |-> [payment |-> p, refunds |-> <<>>]]
    <1>1. req \in Request /\ req.op = "PaymentWithRefunds" /\ call = [d \in Caller |-> call[d]]
        BY DEF TxInv, CallsSound, Sound, FirstQuery
    <1>2. req.e2e \in DOMAIN payments
        BY <1>1 DEF Request
    <1>3. p.refunded \in Nat
        BY <1>2 DEF TxInv, TableInv, TypeOK, Typed, PaymentRow
    <1>4. call'[c] = k
        BY <1>1 DEF FirstQuery, Becomes, Query, ReadPayment, Unread
    <1> HIDE DEF req, p
    <1>5. /\ k.pc = "between" /\ k.req = req
          /\ k.seen = [payment |-> p, refunds |-> <<>>] /\ k.seen.payment = p
        OBVIOUS
    <1> HIDE DEF k
    <1>6. p.refunded <= payments[req.e2e].refunded
        BY <1>3 DEF p
    <1> QED
        BY <1>2, <1>3, <1>4, <1>5, <1>6 DEF Reads

\* The second finds every refund counted by then.
LEMMA SecondReads ==
    ASSUME TxInv, Balanced(payments, refunds), NEW c \in Caller, SecondQuery(c),
           Reads(call[c], payments)
    PROVE  Reads(call'[c], payments)
    <1> DEFINE e2e == call[c].req.e2e
               first == call[c].seen
               listed == [k \in RefundsOf(e2e) |-> refunds[k]]
    <1>1. /\ first = [payment |-> first.payment, refunds |-> <<>>]
          /\ e2e \in DOMAIN payments /\ first.payment.refunded <= payments[e2e].refunded
        BY DEF Reads, SecondQuery
    <1>2. call'[c].pc = "answers" /\ call'[c].seen = [payment |-> first.payment, refunds |-> listed]
        <2>1. /\ call = [d \in Caller |-> call[d]]
              /\ call[c] = [pc |-> "between", req |-> call[c].req, seen |-> first]
            BY DEF TxInv, CallsSound, Sound, SecondQuery
        <2>2. call'[c] = [call[c] EXCEPT !.pc = "answers", !.seen = [first EXCEPT !.refunds = listed]]
            BY <2>1 DEF SecondQuery, Becomes, Query, ReadRefunds
        <2> HIDE DEF listed
        <2>3. [first EXCEPT !.refunds = listed] = [payment |-> first.payment, refunds |-> listed]
            BY <1>1
        <2> QED
            BY <2>1, <2>2, <2>3
    <1>3. DOMAIN listed = KeysOf(refunds, e2e) /\ \A k \in DOMAIN listed : listed[k] = refunds[k]
        BY DEF KeysOf, RefundsOf
    <1> HIDE DEF listed, e2e, first
    <1>4. Cents(listed, DOMAIN listed) = payments[e2e].refunded
        <2>1. \A k \in DOMAIN refunds : refunds[k].cents \in Nat
            BY AmountAssumption DEF TxInv, TableInv, TypeOK, Typed, RefundRow
        <2>2. KeysOf(refunds, e2e) \subseteq DOMAIN refunds
            BY DEF KeysOf
        <2>3. IsFiniteSet(KeysOf(refunds, e2e))
            BY <2>2, FS_Subset DEF Balanced
        <2>4. Cents(listed, DOMAIN listed) = Cents(refunds, KeysOf(refunds, e2e))
            BY <1>3, <2>1, <2>2, <2>3, CentsSame
        <2> QED
            BY <1>1, <2>4 DEF Balanced
    <1> QED
        BY <1>1, <1>2, <1>4 DEF Reads

\* Any other step leaves a call what it read, or ends it.
LEMMA ReadsStep ==
    ASSUME CoverInv, [TxNext]_all, NEW c \in Caller
    PROVE  Reads(call'[c], payments')
    <1> USE DEF CoverInv
    <1>1. /\ TypeOK /\ [Next]_storeVars /\ call = [d \in Caller |-> call[d]]
        BY TxStep DEF TxInv, TableInv, CallsSound
    <1>2. \A e \in DOMAIN payments :
              e \in DOMAIN payments' /\ payments[e].refunded <= payments'[e].refunded
        BY <1>1, PaymentsKept
    <1>3. ASSUME NEW k, Reads(k, payments)
          PROVE  Reads(k, payments')
        <2>1. CASE k.pc = "between"
            <3> DEFINE e == k.req.e2e
            <3>1. e \in DOMAIN payments' /\ payments[e].refunded <= payments'[e].refunded
                BY <1>2, <1>3, <2>1 DEF Reads
            <3>2. payments[e].refunded \in Nat /\ payments'[e].refunded \in Nat
                BY <1>3, <2>1, <3>1, TxStep DEF Reads, TxInv, TableInv, TypeOK, Typed, PaymentRow
            <3> HIDE DEF e
            <3> QED
                BY <1>3, <2>1, <3>1, <3>2 DEF Reads, e
        <2>2. CASE k.pc # "between"
            BY <1>3, <2>2 DEF Reads
        <2> QED
            BY <2>1, <2>2
    <1>4. CASE FirstQuery(c) \/ SecondQuery(c)
        BY <1>3, <1>4, FirstReads, SecondReads
    <1>5. CASE call'[c].pc \notin {"between", "answers"}
        BY <1>5 DEF Reads
    <1>6. CASE call'[c] = call[c]
        BY <1>3, <1>6
    <1>7. \/ call'[c] = call[c] \/ call'[c].pc \notin {"between", "answers"}
          \/ FirstQuery(c) \/ SecondQuery(c)
        <2>1. ASSUME NEW d \in Caller, NEW state, Becomes(d, state),
                     state.pc \notin {"between", "answers"}
              PROVE  call'[c] = call[c] \/ call'[c].pc \notin {"between", "answers"}
            BY <1>1, <2>1 DEF Becomes
        <2>2. Idle.pc \notin {"between", "answers"}
            BY DEF Idle
        <2>3. ASSUME NEW d \in Caller, Call(d)
              PROVE  \E state : Becomes(d, state) /\ state.pc \notin {"between", "answers"}
            BY <2>3 DEF Call
        <2>4. ASSUME NEW d \in Caller, TakeConnection(d)
              PROVE  \E state : Becomes(d, state) /\ state.pc \notin {"between", "answers"}
            <3>1. call'[d].pc \notin {"between", "answers"}
                <4> DEFINE req == call[d].req
                           pc == CASE req.op \in Transactional -> "tx"
                                   [] req.op = "AppendEvent" -> "exec"
                                   [] req.op = "PaymentWithRefunds" -> "query"
                <4>1. req.op \in Transactional \cup {"AppendEvent", "PaymentWithRefunds"}
                    BY <2>4, RequestOps DEF TakeConnection, TxInv, CallsSound, Sound
                <4>2. pc \in {"tx", "exec", "query"}
                    BY <4>1 DEF Transactional
                <4> HIDE DEF pc
                <4> QED
                    BY <1>1, <2>4, <4>2 DEF TakeConnection, Becomes, pc
            <3> QED
                BY <1>1, <2>4, <3>1 DEF TakeConnection, Becomes
        <2>5. ASSUME NEW d \in Caller, Select(d)
              PROVE  \E state : Becomes(d, state) /\ state.pc \notin {"between", "answers"}
            BY <2>5 DEF Select
        <2>6. ASSUME NEW d \in Caller, Write(d)
              PROVE  \E state : Becomes(d, state) /\ state.pc \notin {"between", "answers"}
            <3> DEFINE work == Written(call[d].work, Head(call[d].left))
                       left == Tail(call[d].left)
            <3>1. Becomes(d, [call[d] EXCEPT !.left = left, !.work = work])
                BY <2>6 DEF Write
            <3> HIDE DEF work, left
            <3>2. call[d] = [pc |-> "writes", req |-> call[d].req, left |-> call[d].left,
                             work |-> call[d].work]
                BY <2>6 DEF Write, TxInv, CallsSound, Sound
            <3>3. [call[d] EXCEPT !.left = left, !.work = work].pc = "writes"
                BY <3>2
            <3> QED
                BY <3>1, <3>3
        <2>7. ASSUME NEW d \in Caller,
                     Commit(d) \/ ReturnEarly(d) \/ Exec(d) \/ Answer(d) \/ WaitFails(d)
                         \/ WriteFails(d) \/ ReadFails(d)
              PROVE  Becomes(d, Idle)
            BY <2>7 DEF Commit, ReturnEarly, Exec, Answer, WaitFails, WriteFails, ReadFails
        <2>8. ASSUME NEW d \in Caller, d # c, FirstQuery(d) \/ SecondQuery(d)
              PROVE  call'[c] = call[c]
            BY <1>1, <2>8 DEF FirstQuery, SecondQuery, Becomes
        <2>9. CASE Crash
            BY <2>2, <2>9 DEF Crash
        <2>10. CASE UNCHANGED all
            BY <2>10 DEF all, txVars
        <2> QED
            BY <2>1, <2>2, <2>3, <2>4, <2>5, <2>6, <2>7, <2>8, <2>9, <2>10 DEF TxNext, Proceed
    <1> QED
        BY <1>4, <1>5, <1>6, <1>7

\* A PaymentWithRefunds that refunds overtake between its queries never answers a
\* payment that counts more than the refunds listed with it.
THEOREM AnswersCover == TxSpec => []RefundsCoverCount
    <1>1. TxInit => CoverInv
        <2> SUFFICES ASSUME TxInit
                     PROVE  CoverInv
            OBVIOUS
        <2>1. TxInv /\ Balanced(payments, refunds)
            BY TxStarts, BalanceStarts DEF TxInit
        <2>2. \A c \in Caller : Reads(call[c], payments)
            BY DEF TxInit, Idle, Reads
        <2> QED
            BY <2>1, <2>2 DEF CoverInv
    <1>2. CoverInv /\ [TxNext]_all => CoverInv'
        <2> SUFFICES ASSUME CoverInv, [TxNext]_all
                     PROVE  CoverInv'
            OBVIOUS
        <2>1. TxInv' /\ [Next]_storeVars
            BY TxStep DEF CoverInv
        <2>2. Balanced(payments', refunds')
            BY <2>1, BalanceStep DEF CoverInv, TxInv
        <2> QED
            BY <2>1, <2>2, ReadsStep DEF CoverInv
    <1>3. CoverInv => RefundsCoverCount
        BY DEF CoverInv, Reads, RefundsCoverCount, Cents
    <1> QED
        BY <1>1, <1>2, <1>3, PTL DEF TxSpec
=============================================================================
