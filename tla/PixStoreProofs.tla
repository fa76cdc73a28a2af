---------------------------- MODULE PixStoreProofs ----------------------------
(***************************************************************************)
(* Theorems about PixStore, for every set of txids, amounts, windows and   *)
(* clock readings: its inductive invariant, and that it implements         *)
(* PixLifecycle; and, over sums of any size, that the counter of a payment *)
(* is what its refunds come to.                                            *)
(***************************************************************************)
EXTENDS PixStore, FiniteSetTheorems, WellFoundedInduction, TLAPS

-----------------------------------------------------------------------------
(***************************************************************************)
(* The helpers.                                                            *)
(***************************************************************************)
\* Inserting a row of the right type keeps a table typed.
LEMMA InsertTyped ==
    ASSUME NEW K, NEW R, NEW table, Typed(table, K, R), NEW key \in K, NEW row \in R
    PROVE  Typed(Insert(table, key, row), K, R)
    BY DEF Insert, Typed

\* Two INSERTs of one key leave the second row.
LEMMA InsertTwice ==
    ASSUME NEW table, NEW key, NEW first, NEW second
    PROVE  Insert(Insert(table, key, first), key, second) = Insert(table, key, second)
    BY DEF Insert

\* Numbers that are dense and one more: still dense.
LEMMA DenseAfterNext ==
    ASSUME NEW numbers, Dense(numbers)
    PROVE  /\ NextNumber(numbers) \in Nat \ {0}
           /\ NextNumber(numbers) \notin numbers
           /\ Dense(numbers \cup {NextNumber(numbers)})
    <1> DEFINE n == Max(numbers \cup {0})
               more == numbers \cup {n + 1}
    <1>1. n \in Nat /\ numbers = 1 .. n
        BY DEF Dense
    <1>2. NextNumber(numbers) = n + 1
        BY DEF NextNumber
    <1>3. more = 1 .. n + 1
        BY <1>1
    <1> HIDE DEF n, more
    <1>4. Max(more \cup {0}) = n + 1
        <2>1. more \cup {0} = 0 .. n + 1
            BY <1>1, <1>3
        <2>2. n + 1 \in 0 .. n + 1 /\ \A y \in 0 .. n + 1 : n + 1 >= y
            BY <1>1
        <2>3. \A m \in 0 .. n + 1 : (\A y \in 0 .. n + 1 : m >= y) => m = n + 1
            BY <1>1, <2>2
        <2> QED
            BY <2>1, <2>2, <2>3 DEF Max
    <1>5. numbers \cup {NextNumber(numbers)} = more
        BY <1>2 DEF more
    <1>6. Dense(more)
        BY <1>1, <1>3, <1>4 DEF Dense
    <1>7. n + 1 \in Nat \ {0} /\ n + 1 \notin numbers
        BY <1>1
    <1> QED
        BY <1>2, <1>5, <1>6, <1>7

-----------------------------------------------------------------------------
(***************************************************************************)
(* Types.                                                                  *)
(***************************************************************************)
\* An event built from typed parts is an event.
LEMMA EventTyped ==
    ASSUME NEW agg \in Aggregate, NEW type \in EventType, NEW at \in Time, NEW body \in Body
    PROVE  EventAt(agg, type, at, body) \in Event
    BY DEF EventAt, Event

\* CreateCharge: the row it builds is a row, and so is the event's payload.
LEMMA CreateType ==
    ASSUME TypeOK, NumbersDense, NEW txid \in TxId, NEW cents \in Amount, NEW chave \in Chave,
           NEW window \in Window, NEW now \in Time,
           CreateCharge(txid, cents, chave, window, now)
    PROVE  TypeOK'
    <1> DEFINE charge == NewCharge(cents, chave, window, now)
               event == EventAt(ChargeAggregate(txid), "cob.created", now, ChargePayload(charge))
    <1>1. NextNumber(LocIds) \in Nat \ {0}
        BY DenseAfterNext DEF NumbersDense, LocIdsDense
    <1>2. charge \in ChargeRow
        BY <1>1, TimeAssumption, WindowAssumption DEF NewCharge, ChargeRow, ChargeStatus
    <1>3. event \in Event
        <2>1. ChargeAggregate(txid) \in Aggregate
            BY DEF ChargeAggregate, Aggregate
        <2>2. ChargePayload(charge) \in Body
            BY <1>2 DEF ChargePayload, Body, ChargeRow
        <2> QED
            BY <2>1, <2>2, EventTyped DEF EventType
    <1> HIDE DEF charge, event
    <1>4. charges' = Insert(charges, txid, charge) /\ events' = Append(events, event)
        BY DEF CreateCharge, charge, event
    <1>5. Typed(charges, TxId, ChargeRow)'
        BY <1>2, <1>4, InsertTyped DEF TypeOK
    <1>6. events' \in Seq(Event)
        BY <1>3, <1>4 DEF TypeOK
    <1> QED
        BY <1>5, <1>6 DEF TypeOK, CreateCharge, Typed

\* ExpireCharge changes one status and logs the two instants it compared.
LEMMA ExpireType ==
    ASSUME TypeOK, NEW txid \in TxId, NEW now \in Time, ExpireCharge(txid, now)
    PROVE  TypeOK'
    <1> DEFINE row == [charges[txid] EXCEPT !.status = "EXPIRADA"]
               body == [expiresAt |-> charges[txid].expiresAt, observedAt |-> now]
               event == EventAt(ChargeAggregate(txid), "cob.expired", now, body)
    <1>1. txid \in DOMAIN charges /\ charges[txid] \in ChargeRow
        BY DEF TypeOK, Typed, ExpireCharge
    <1>2. row \in ChargeRow
        BY <1>1 DEF ChargeRow, ChargeStatus
    <1>3. event \in Event
        <2>1. ChargeAggregate(txid) \in Aggregate
            BY DEF ChargeAggregate, Aggregate
        <2>2. body \in Body
            BY <1>1 DEF Body, ChargeRow
        <2> QED
            BY <2>1, <2>2, EventTyped DEF EventType
    <1>4. charges' = [charges EXCEPT ![txid] = row] /\ events' = Append(events, event)
        BY <1>1 DEF ExpireCharge, Typed, TypeOK
    <1> HIDE DEF row, event
    <1>5. Typed(charges, TxId, ChargeRow)'
        BY <1>2, <1>4 DEF TypeOK, Typed
    <1>6. events' \in Seq(Event)
        BY <1>3, <1>4 DEF TypeOK
    <1> QED
        BY <1>5, <1>6 DEF TypeOK, ExpireCharge, Typed

\* A minted identifier has the shape of its kind.
LEMMA MintedTyped ==
    ASSUME NEW now \in Time, NEW rnd \in RandomHalf, NEW seq, SeqFits(seq)
    PROVE  NewE2EID(now, rnd, seq) \in E2EId /\ NewRtrID(now, rnd, seq) \in RtrId
    <1>1. now \div MinuteLen \in Int
        BY TimeAssumption, MinuteLenAssumption
    <1> QED
        BY <1>1 DEF NewE2EID, NewRtrID, TransactionId, E2EId, RtrId, IdOf, SeqFits

\* SettleCharge: a payment row under a fresh identifier, and two events.
LEMMA SettleType ==
    ASSUME TypeOK, NEW txid \in TxId, NEW now \in Time, NEW rnd \in RandomHalf,
           SettleCharge(txid, now, rnd)
    PROVE  TypeOK'
    <1> DEFINE seq == NextNumber(PaymentSeqs)
               e2e == NewE2EID(now, rnd, seq)
               payment == NewPayment(txid, seq, now)
               row == [charges[txid] EXCEPT !.status = "CONCLUIDA", !.revisao = @ + 1]
               body == [status |-> "CONCLUIDA", e2e |-> e2e, cents |-> payment.cents]
               received == EventAt(PaymentAggregate(e2e), "pix.received", now,
                                   PaymentPayload(payment))
               settled == EventAt(ChargeAggregate(txid), "cob.settled", now, body)
    <1>1. txid \in DOMAIN charges /\ charges[txid] \in ChargeRow /\ SeqFits(seq)
        BY DEF TypeOK, Typed, SettleCharge
    <1>2. e2e \in E2EId
        BY <1>1, MintedTyped
    <1>3. payment \in PaymentRow
        BY <1>1 DEF NewPayment, PaymentRow, ChargeRow, PaymentStatus, SeqFits
    <1>4. row \in ChargeRow
        <2>1. charges[txid].revisao + 1 \in Nat
            BY <1>1 DEF ChargeRow
        <2> QED
            BY <1>1, <2>1 DEF ChargeRow, ChargeStatus
    <1>5. received \in Event
        <2>1. PaymentAggregate(e2e) \in Aggregate
            BY <1>2 DEF PaymentAggregate, Aggregate
        <2>2. PaymentPayload(payment) \in Body
            BY <1>3 DEF PaymentPayload, Body, PaymentRow
        <2> QED
            BY <2>1, <2>2, EventTyped DEF EventType
    <1>6. settled \in Event
        <2>1. ChargeAggregate(txid) \in Aggregate
            BY DEF ChargeAggregate, Aggregate
        <2>2. body \in Body
            BY <1>2, <1>3 DEF Body, PaymentRow, ChargeStatus
        <2> QED
            BY <2>1, <2>2, EventTyped DEF EventType
    <1>7. /\ charges' = [charges EXCEPT ![txid] = row]
          /\ payments' = Insert(payments, e2e, payment)
          /\ events' = events \o <<received, settled>>
        BY <1>1 DEF SettleCharge, Typed, TypeOK
    <1> HIDE DEF e2e, payment, row, received, settled
    <1>8. Typed(charges, TxId, ChargeRow)'
        BY <1>4, <1>7 DEF TypeOK, Typed
    <1>9. Typed(payments, E2EId, PaymentRow)'
        BY <1>2, <1>3, <1>7, InsertTyped DEF TypeOK
    <1>10. events' \in Seq(Event)
        BY <1>5, <1>6, <1>7 DEF TypeOK
    <1> QED
        BY <1>8, <1>9, <1>10 DEF TypeOK, SettleCharge, Typed

\* CreateRefund: a refund row, two counters on the payment, and two events.
LEMMA RefundType ==
    ASSUME TypeOK, NEW e2e \in DOMAIN payments, NEW id \in RefundId, NEW cents \in Amount,
           NEW now \in Time, NEW rnd \in RandomHalf, CreateRefund(e2e, id, cents, now, rnd)
    PROVE  TypeOK'
    <1> DEFINE seq == NextNumber(RefundSeqs)
               requested == RefundAs("EM_PROCESSAMENTO", cents, seq, now, rnd)
               settled == RefundAs("DEVOLVIDO", cents, seq, now, rnd)
               row == [payments[e2e] EXCEPT !.refunded = payments[e2e].refunded + cents,
                                            !.status = StatusAfterRefund(payments[e2e], cents)]
               asking == EventAt(PaymentAggregate(e2e), "pix.devolucao.requested", now,
                                 RefundPayload(id, requested))
               giving == EventAt(PaymentAggregate(e2e), "pix.devolucao.settled", now,
                                 RefundPayload(id, settled))
    <1>1. e2e \in E2EId /\ payments[e2e] \in PaymentRow /\ SeqFits(seq)
        BY DEF TypeOK, Typed, CreateRefund
    <1>2. requested \in RefundRow /\ settled \in RefundRow
        BY <1>1, MintedTyped DEF RefundAs, RefundRow, RefundStatus, SeqFits
    <1>3. row \in PaymentRow
        <2>1. payments[e2e].refunded + cents \in Nat
            BY <1>1, AmountAssumption DEF PaymentRow
        <2>2. StatusAfterRefund(payments[e2e], cents) \in PaymentStatus
            BY DEF StatusAfterRefund, PaymentStatus
        <2> QED
            BY <1>1, <2>1, <2>2 DEF PaymentRow
    <1>4. asking \in Event /\ giving \in Event
        <2>1. PaymentAggregate(e2e) \in Aggregate
            BY <1>1 DEF PaymentAggregate, Aggregate
        <2>2. RefundPayload(id, requested) \in Body /\ RefundPayload(id, settled) \in Body
            BY <1>2 DEF RefundPayload, Body, RefundRow
        <2> QED
            BY <2>1, <2>2, EventTyped DEF EventType
    <1>5. /\ payments' = [payments EXCEPT ![e2e] = row]
          /\ refunds' = Insert(refunds, <<e2e, id>>, settled)
          /\ events' = events \o <<asking, giving>>
        BY <1>1 DEF CreateRefund, RefundTrail, RefundedAfter, Typed, TypeOK
    <1> HIDE DEF settled, row, asking, giving
    <1>6. Typed(payments, E2EId, PaymentRow)'
        BY <1>3, <1>5 DEF TypeOK, Typed
    <1>7. Typed(refunds, E2EId \X RefundId, RefundRow)'
        BY <1>1, <1>2, <1>5, InsertTyped DEF TypeOK
    <1>8. events' \in Seq(Event)
        BY <1>4, <1>5 DEF TypeOK
    <1> QED
        BY <1>6, <1>7, <1>8 DEF TypeOK, CreateRefund, Typed

\* PutWebhook keeps a typed creation instant whether or not the key was there.
LEMMA WebhookType ==
    ASSUME TypeOK, NEW chave \in Chave, NEW url \in Url, NEW now \in Time,
           PutWebhook(chave, url, now)
    PROVE  TypeOK'
    <1> DEFINE created == chave \notin DOMAIN webhooks
               hook == [url |-> url,
                        createdAt |-> IF created THEN now ELSE webhooks[chave].createdAt,
                        updatedAt |-> now]
               event == EventAt(WebhookAggregate(chave), "webhook.registered", now,
                                WebhookPayload(url, created))
    <1>1. hook \in WebhookRow
        BY DEF TypeOK, Typed, WebhookRow
    <1>2. event \in Event
        <2>1. WebhookAggregate(chave) \in Aggregate
            BY DEF WebhookAggregate, Aggregate
        <2>2. created \in BOOLEAN
            OBVIOUS
        <2>3. WebhookPayload(url, created) \in Body
            BY <2>2 DEF WebhookPayload, Body
        <2> QED
            BY <2>1, <2>3, EventTyped DEF EventType
    <1>3. webhooks' = Insert(webhooks, chave, hook) /\ events' = Append(events, event)
        BY DEF PutWebhook
    <1> HIDE DEF hook, event
    <1>4. Typed(webhooks, Chave, WebhookRow)'
        BY <1>1, <1>3, InsertTyped DEF TypeOK
    <1>5. events' \in Seq(Event)
        BY <1>2, <1>3 DEF TypeOK
    <1> QED
        BY <1>4, <1>5 DEF TypeOK, PutWebhook, Typed

\* A note leaves the tables alone and appends a typed event.
LEMMA NoteTyped ==
    ASSUME TypeOK, NEW now \in Time, AppendNote(now)
    PROVE  TypeOK' /\ UNCHANGED tables
    <1>1. PICK agg \in Aggregate, type \in NoteType : AppendEvent(agg, type, now)
        <2>1. \A e2e \in DOMAIN payments : PaymentAggregate(e2e) \in Aggregate
            BY DEF TypeOK, Typed, PaymentAggregate, Aggregate
        <2>2. OAuthAggregate \in Aggregate
            BY DEF Aggregate
        <2> QED
            BY <2>1, <2>2 DEF AppendNote, NoteType
    <1>2. EventAt(agg, type, now, <<>>) \in Event
        <2>1. <<>> \in Body
            BY DEF Body
        <2>2. type \in EventType
            BY DEF EventType
        <2> QED
            BY <2>1, <2>2, EventTyped
    <1>3. events' \in Seq(Event)
        BY <1>1, <1>2 DEF AppendEvent, TypeOK
    <1> QED
        BY <1>1, <1>3 DEF AppendEvent, TypeOK, Typed, tables

-----------------------------------------------------------------------------
(***************************************************************************)
(* The tables.  TypeOK and NumbersDense strengthen each other: a number is *)
(* typed because the ones before it are 1 .. n, and they stay dense        *)
(* because the next one is n + 1.                                          *)
(***************************************************************************)
TableInv == TypeOK /\ NumbersDense /\ SettledOnce /\ RefundCap

\* Creating a charge: a new loc.id, and no payment names a txid not yet stored.
LEMMA CreateTables ==
    ASSUME TableInv, NEW txid \in TxId, NEW cents \in Amount, NEW chave \in Chave,
           NEW window \in Window, NEW now \in Time,
           CreateCharge(txid, cents, chave, window, now)
    PROVE  TableInv'
    <1> USE DEF TableInv
    <1> DEFINE charge == NewCharge(cents, chave, window, now)
    <1>1. TypeOK'
        BY CreateType
    <1>2. /\ charge.locId = NextNumber(LocIds) /\ charge.status = "ATIVA"
          /\ charge.locId \notin LocIds /\ Dense(LocIds \cup {charge.locId})
        BY DenseAfterNext DEF NewCharge, NumbersDense, LocIdsDense
    <1>3. charges' = Insert(charges, txid, charge) /\ txid \notin DOMAIN charges
        BY DEF CreateCharge, ChargeIsNew
    <1> HIDE DEF charge
    <1>4. /\ DOMAIN charges' = DOMAIN charges \cup {txid}
          /\ charges'[txid] = charge
          /\ \A t \in DOMAIN charges : charges'[t] = charges[t]
        BY <1>3 DEF Insert
    <1>5. payments' = payments /\ refunds' = refunds
        BY DEF CreateCharge
    <1>6. LocIdsDense'
        <2>1. LocIds' = LocIds \cup {charge.locId}
            BY <1>3, <1>4 DEF LocIds
        <2>2. \A t \in DOMAIN charges : charges[t].locId # charge.locId
            BY <1>2 DEF LocIds
        <2>3. \A t, u \in DOMAIN charges : charges[t].locId = charges[u].locId => t = u
            BY DEF NumbersDense, LocIdsDense
        <2>4. \A t, u \in DOMAIN charges' : charges'[t].locId = charges'[u].locId => t = u
            BY <2>2, <2>3, <1>4
        <2> QED
            BY <1>2, <2>1, <2>4 DEF LocIdsDense, Dense
    <1>7. SettledOnce'
        BY <1>2, <1>3, <1>4, <1>5 DEF SettledOnce
    <1> QED
        BY <1>1, <1>5, <1>6, <1>7
           DEF RefundCap, NumbersDense, PaymentSeqsDense, PaymentSeqs, RefundSeqsDense, RefundSeqs

\* Expiring touches only the status of a charge that is ATIVA, hence unpaid.
LEMMA ExpireTables ==
    ASSUME TableInv, NEW txid \in TxId, NEW now \in Time, ExpireCharge(txid, now)
    PROVE  TableInv'
    <1> USE DEF TableInv
    <1>1. TypeOK'
        BY ExpireType
    <1>2. /\ txid \in DOMAIN charges /\ charges[txid] \in ChargeRow
          /\ charges[txid].status = "ATIVA"
        BY DEF ExpireCharge, IsExpired, TypeOK, Typed
    <1>3. /\ DOMAIN charges' = DOMAIN charges
          /\ \A t \in DOMAIN charges : /\ charges'[t].locId = charges[t].locId
                                       /\ charges'[t].cents = charges[t].cents
                                       /\ charges'[t].chave = charges[t].chave
                                       /\ t # txid => charges'[t].status = charges[t].status
          /\ charges'[txid].status = "EXPIRADA"
        BY <1>2 DEF ExpireCharge, TypeOK, Typed, ChargeRow
    <1>4. payments' = payments /\ refunds' = refunds
        BY DEF ExpireCharge
    <1>5. LocIdsDense'
        <2>1. LocIds' = LocIds
            BY <1>3 DEF LocIds
        <2> QED
            BY <2>1, <1>3 DEF NumbersDense, LocIdsDense
    <1>6. SettledOnce'
        BY <1>2, <1>3, <1>4 DEF SettledOnce
    <1> QED
        BY <1>1, <1>4, <1>5, <1>6
           DEF RefundCap, NumbersDense, PaymentSeqsDense, PaymentSeqs, RefundSeqsDense, RefundSeqs

\* Settling: the charge was ATIVA, so no payment named it; now exactly one does.
LEMMA SettleTables ==
    ASSUME TableInv, NEW txid \in TxId, NEW now \in Time, NEW rnd \in RandomHalf,
           SettleCharge(txid, now, rnd)
    PROVE  TableInv'
    <1> USE DEF TableInv
    <1> DEFINE seq == NextNumber(PaymentSeqs)
               e2e == NewE2EID(now, rnd, seq)
               payment == NewPayment(txid, seq, now)
    <1>1. TypeOK'
        BY SettleType
    <1>2. /\ txid \in DOMAIN charges /\ charges[txid] \in ChargeRow
          /\ charges[txid].status = "ATIVA"
        BY DEF SettleCharge, Payable, TypeOK, Typed
    <1>3. /\ payment.seq = seq /\ payment.txid = txid /\ payment.refunded = 0
          /\ payment.cents = charges[txid].cents /\ payment.chave = charges[txid].chave
          /\ payment.status = "SETTLED"
        BY DEF NewPayment
    <1>4. e2e \notin DOMAIN payments /\ payments' = Insert(payments, e2e, payment)
        BY DEF SettleCharge, PaymentAccepted
    <1>5. seq \notin PaymentSeqs /\ Dense(PaymentSeqs \cup {seq})
        BY DenseAfterNext DEF NumbersDense, PaymentSeqsDense
    <1>6. /\ DOMAIN charges' = DOMAIN charges
          /\ \A t \in DOMAIN charges : /\ charges'[t].locId = charges[t].locId
                                       /\ charges'[t].cents = charges[t].cents
                                       /\ charges'[t].chave = charges[t].chave
                                       /\ t # txid => charges'[t].status = charges[t].status
          /\ charges'[txid].status = "CONCLUIDA"
        BY <1>2 DEF SettleCharge, TypeOK, Typed, ChargeRow
    <1>7. refunds' = refunds
        BY DEF SettleCharge
    <1> HIDE DEF seq, e2e, payment
    <1>8. /\ DOMAIN payments' = DOMAIN payments \cup {e2e}
          /\ payments'[e2e] = payment
          /\ \A e \in DOMAIN payments : payments'[e] = payments[e]
        BY <1>4 DEF Insert
    <1>9. LocIdsDense'
        <2>1. LocIds' = LocIds
            BY <1>6 DEF LocIds
        <2> QED
            BY <2>1, <1>6 DEF NumbersDense, LocIdsDense
    <1>10. PaymentSeqsDense'
        <2>1. PaymentSeqs' = PaymentSeqs \cup {seq}
            BY <1>3, <1>8 DEF PaymentSeqs
        <2>2. \A e \in DOMAIN payments : payments[e].seq # payment.seq
            BY <1>3, <1>5 DEF PaymentSeqs
        <2>3. \A e, f \in DOMAIN payments : payments[e].seq = payments[f].seq => e = f
            BY DEF NumbersDense, PaymentSeqsDense
        <2>4. \A e, f \in DOMAIN payments' : payments'[e].seq = payments'[f].seq => e = f
            BY <2>2, <2>3, <1>8
        <2> QED
            BY <1>5, <2>1, <2>4 DEF PaymentSeqsDense, Dense
    <1>11. SettledOnce'
        <2>1. \A e \in DOMAIN payments : payments[e].txid # txid
            BY <1>2 DEF SettledOnce
        <2>2. \A e, f \in DOMAIN payments' : payments'[e].txid = payments'[f].txid => e = f
            BY <1>3, <1>8, <2>1 DEF SettledOnce
        <2>3. \A t \in DOMAIN charges' : charges'[t].status = "CONCLUIDA"
                  <=> \E e \in DOMAIN payments' : payments'[e].txid = t
            BY <1>3, <1>6, <1>8 DEF SettledOnce
        <2>4. \A e \in DOMAIN payments' : /\ payments'[e].txid \in DOMAIN charges'
                                          /\ payments'[e].cents = charges'[payments'[e].txid].cents
                                          /\ payments'[e].chave = charges'[payments'[e].txid].chave
            BY <1>2, <1>3, <1>6, <1>8 DEF SettledOnce
        <2> QED
            BY <2>2, <2>3, <2>4 DEF SettledOnce
    <1>12. RefundCap'
        <2>1. payment.refunded <= payment.cents /\ payment.refunded # payment.cents
            <3>1. charges[txid].cents \in Nat \ {0}
                BY <1>2, AmountAssumption DEF ChargeRow
            <3> QED
                BY <1>3, <3>1
        <2> QED
            BY <2>1, <1>3, <1>8 DEF RefundCap
    <1> QED
        BY <1>1, <1>7, <1>9, <1>10, <1>11, <1>12 DEF NumbersDense, RefundSeqsDense, RefundSeqs

\* Refunding: the check against RefundableCents is what keeps the counter under
\* the amount, and the new status compares the new counter.
LEMMA RefundTables ==
    ASSUME TableInv, NEW e2e \in DOMAIN payments, NEW id \in RefundId, NEW cents \in Amount,
           NEW now \in Time, NEW rnd \in RandomHalf, CreateRefund(e2e, id, cents, now, rnd)
    PROVE  TableInv'
    <1> USE DEF TableInv
    <1> DEFINE seq == NextNumber(RefundSeqs)
               key == <<e2e, id>>
               settled == RefundAs("DEVOLVIDO", cents, seq, now, rnd)
               payment == payments[e2e]
    <1>1. TypeOK'
        BY RefundType
    <1>2. payment \in PaymentRow /\ cents \in Nat /\ cents <= payment.cents - payment.refunded
        BY AmountAssumption DEF CreateRefund, RefundableCents, TypeOK, Typed
    <1>3. /\ DOMAIN payments' = DOMAIN payments
          /\ \A e \in DOMAIN payments :
                /\ payments'[e].seq = payments[e].seq /\ payments'[e].txid = payments[e].txid
                /\ payments'[e].cents = payments[e].cents /\ payments'[e].chave = payments[e].chave
                /\ e # e2e => payments'[e] = payments[e]
          /\ payments'[e2e].refunded = payment.refunded + cents
          /\ payments'[e2e].status = StatusAfterRefund(payment, cents)
        BY DEF CreateRefund, RefundedAfter, TypeOK, Typed, PaymentRow
    <1>4. key \notin DOMAIN refunds /\ refunds' = Insert(refunds, key, settled)
        BY DEF CreateRefund, RefundAccepted
    <1>5. settled.seq = seq /\ seq \notin RefundSeqs /\ Dense(RefundSeqs \cup {seq})
        BY DenseAfterNext DEF NumbersDense, RefundSeqsDense, RefundAs
    <1>6. charges' = charges
        BY DEF CreateRefund
    <1> HIDE DEF seq, settled, key
    <1>7. /\ DOMAIN refunds' = DOMAIN refunds \cup {key}
          /\ refunds'[key] = settled
          /\ \A k \in DOMAIN refunds : refunds'[k] = refunds[k]
        BY <1>4 DEF Insert
    <1>8. PaymentSeqsDense'
        <2>1. PaymentSeqs' = PaymentSeqs
            BY <1>3 DEF PaymentSeqs
        <2> QED
            BY <2>1, <1>3 DEF NumbersDense, PaymentSeqsDense
    <1>9. RefundSeqsDense'
        <2>1. RefundSeqs' = RefundSeqs \cup {seq}
            BY <1>5, <1>7 DEF RefundSeqs
        <2>2. \A k \in DOMAIN refunds : refunds[k].seq # settled.seq
            BY <1>5 DEF RefundSeqs
        <2>3. \A k, l \in DOMAIN refunds : refunds[k].seq = refunds[l].seq => k = l
            BY DEF NumbersDense, RefundSeqsDense
        <2>4. \A k, l \in DOMAIN refunds' : refunds'[k].seq = refunds'[l].seq => k = l
            BY <2>2, <2>3, <1>7
        <2> QED
            BY <1>5, <2>1, <2>4 DEF RefundSeqsDense, Dense
    <1>10. SettledOnce'
        BY <1>3, <1>6 DEF SettledOnce
    <1>11. RefundCap'
        <2>1. payment.refunded + cents <= payment.cents
            <3>1. payment.cents \in Nat /\ payment.refunded \in Nat
                BY <1>2, AmountAssumption DEF PaymentRow
            <3> QED
                BY <1>2, <3>1
        <2>2. StatusAfterRefund(payment, cents) = "REFUNDED"
                  <=> payment.refunded + cents = payment.cents
            BY DEF StatusAfterRefund
        <2>3. ASSUME NEW e \in DOMAIN payments
              PROVE  /\ payments'[e].refunded <= payments'[e].cents
                     /\ payments'[e].status = "REFUNDED"
                           <=> payments'[e].refunded = payments'[e].cents
            <3>1. CASE e = e2e
                BY <3>1, <1>3, <2>1, <2>2
            <3>2. CASE e # e2e
                BY <3>2, <1>3 DEF RefundCap
            <3> QED
                BY <3>1, <3>2
        <2> QED
            BY <2>3, <1>3 DEF RefundCap
    <1> QED
        BY <1>1, <1>6, <1>8, <1>9, <1>10, <1>11 DEF NumbersDense, LocIdsDense, LocIds

\* Registrations and notes are about neither charges, payments nor refunds.
LEMMA OtherTables ==
    ASSUME TableInv, NEW now \in Time,
           \/ \E chave \in Chave, url \in Url : PutWebhook(chave, url, now)
           \/ AppendNote(now)
    PROVE  TableInv'
    <1> USE DEF TableInv
    <1>1. TypeOK'
        BY WebhookType, NoteTyped
    <1>2. UNCHANGED <<charges, payments, refunds>>
        BY NoteTyped DEF PutWebhook, tables
    <1> QED
        BY <1>1, <1>2 DEF NumbersDense, LocIdsDense, LocIds, PaymentSeqsDense, PaymentSeqs,
           RefundSeqsDense, RefundSeqs, SettledOnce, RefundCap

LEMMA InitTables == Init => TableInv
    <1> SUFFICES ASSUME Init PROVE TableInv
        OBVIOUS
    <1>1. /\ DOMAIN charges = {} /\ DOMAIN payments = {}
          /\ DOMAIN refunds = {} /\ DOMAIN webhooks = {}
        BY DEF Init, Empty
    <1>2. TypeOK
        <2>1. \A K, R : Typed(Empty, K, R)
            BY DEF Typed, Empty
        <2>2. events \in Seq(Event)
            BY DEF Init
        <2> QED
            BY <2>1, <2>2 DEF Init, TypeOK
    <1>3. Dense({})
        <2>1. 0 \in {} \cup {0} /\ \A y \in {} \cup {0} : 0 >= y
            OBVIOUS
        <2>2. Max({} \cup {0}) = 0
            BY <2>1 DEF Max
        <2>3. {} = 1 .. 0
            OBVIOUS
        <2> QED
            BY <2>2, <2>3 DEF Dense
    <1>4. LocIds = {} /\ PaymentSeqs = {} /\ RefundSeqs = {}
        BY <1>1 DEF LocIds, PaymentSeqs, RefundSeqs
    <1> QED
        BY <1>1, <1>2, <1>3, <1>4 DEF TableInv, NumbersDense, LocIdsDense, PaymentSeqsDense,
           RefundSeqsDense, SettledOnce, RefundCap

LEMMA TablesStep ==
    ASSUME TableInv, [Next]_storeVars
    PROVE  TableInv'
    <1>1. CASE UNCHANGED storeVars
        BY <1>1 DEF TableInv, TypeOK, Typed, NumbersDense, LocIdsDense, LocIds,
           PaymentSeqsDense, PaymentSeqs, RefundSeqsDense, RefundSeqs, SettledOnce,
           RefundCap, storeVars
    <1>2. CASE Next
        BY <1>2, CreateTables, ExpireTables, SettleTables, RefundTables, OtherTables
           DEF Next, Transaction
    <1> QED
        BY <1>1, <1>2

\* Whatever sequence of transactions runs, with whatever clock readings: the
\* tables are well typed, the numbers drawn are 1, 2, 3, ..., a charge settles at
\* most once and for its amount (SettleCharge), and refunds stay within it
\* (CreateRefund, INV-4).
THEOREM TablesCorrect == Spec => []TableInv
    <1>1. Init => TableInv
        BY InitTables
    <1>2. TableInv /\ [Next]_storeVars => TableInv'
        BY TablesStep
    <1> QED
        BY <1>1, <1>2, PTL DEF Spec

\* Every row and every event keeps its type, whatever the handlers ask for.
THEOREM TypeCorrect == Spec => []TypeOK
    BY TablesCorrect, PTL DEF TableInv

\* A charge never has two payments, and one that has a payment is CONCLUIDA: the
\* status check of SettleCharge suffices, with UNIQUE (txid) as a second lock.
THEOREM SettlesOnce == Spec => []SettledOnce
    BY TablesCorrect, PTL DEF TableInv

\* INV-4: CreateRefund never lets the refunds of a payment exceed it.
THEOREM RefundsCapped == Spec => []RefundCap
    BY TablesCorrect, PTL DEF TableInv

\* loc.id, which no constraint protects, and both sequences are 1, 2, 3, ... with
\* no number drawn twice: SELECT MAX + 1 inside the transaction is enough.
THEOREM NumbersStayDense == Spec => []NumbersDense
    BY TablesCorrect, PTL DEF TableInv

-----------------------------------------------------------------------------
(***************************************************************************)
(* PixStore implements PixLifecycle. The mapping shows as the payment of a *)
(* charge the one that names it, so that comes first.                      *)
(***************************************************************************)
\* When no two payments name a charge, PaymentOf is the one that names it.
LEMMA PaymentOfIs ==
    ASSUME SettledOnce, NEW t, NEW e \in DOMAIN payments, payments[e].txid = t
    PROVE  Settled(t) /\ PaymentOf(t) = e
    BY DEF SettledOnce, Settled, PaymentOf

LEMMA PaymentOfIsAfter ==
    ASSUME SettledOnce', NEW t, NEW e \in DOMAIN payments', payments'[e].txid = t
    PROVE  Settled(t)' /\ PaymentOf(t)' = e
    BY DEF SettledOnce, Settled, PaymentOf

\* What a table of payments shows of one charge, before and after a step that
\* leaves that charge's payment, or its lack of one, as it was.
LEMMA SameSeen ==
    ASSUME SettledOnce, SettledOnce', NEW t \in TxId,
           Settled(t)' <=> Settled(t),
           \A e \in DOMAIN payments : payments[e].txid = t =>
               /\ e \in DOMAIN payments' /\ payments'[e].txid = t
               /\ payments'[e].cents = payments[e].cents
               /\ payments'[e].refunded = payments[e].refunded
    PROVE  PaidSeen'[t] = PaidSeen[t] /\ ReturnedSeen'[t] = ReturnedSeen[t]
    <1>1. CASE ~Settled(t)
        BY <1>1 DEF PaidSeen, ReturnedSeen
    <1>2. CASE Settled(t)
        <2>1. PICK e \in DOMAIN payments : payments[e].txid = t
            BY <1>2 DEF Settled
        <2>2. PaymentOf(t) = e
            BY <2>1, PaymentOfIs
        <2>3. PaymentOf(t)' = e
            BY <2>1, PaymentOfIsAfter
        <2> QED
            BY <1>2, <2>1, <2>2, <2>3 DEF PaidSeen, ReturnedSeen
    <1> QED
        BY <1>1, <1>2

\* A step that leaves the payments alone leaves what they show alone.
LEMMA UntouchedPayments ==
    ASSUME UNCHANGED payments
    PROVE  PaidSeen' = PaidSeen /\ ReturnedSeen' = ReturnedSeen
    BY DEF PaidSeen, ReturnedSeen, Settled, PaymentOf

LEMMA UntouchedCharges ==
    ASSUME UNCHANGED charges
    PROVE  StateSeen' = StateSeen /\ AskedSeen' = AskedSeen
    BY DEF StateSeen, AskedSeen

-----------------------------------------------------------------------------
(***************************************************************************)
(* The transactions, seen through the mapping.                             *)
(***************************************************************************)
LEMMA CreateMaps ==
    ASSUME NEW txid \in TxId, NEW cents \in Amount, NEW chave \in Chave,
           NEW window \in Window, NEW now \in Time,
           CreateCharge(txid, cents, chave, window, now)
    PROVE  Lifecycle!Create(txid, cents)
    <1> DEFINE charge == NewCharge(cents, chave, window, now)
    <1>1. txid \notin DOMAIN charges /\ charges' = Insert(charges, txid, charge)
        BY DEF CreateCharge, ChargeIsNew
    <1>2. charge.status = "ATIVA" /\ charge.cents = cents
        BY DEF NewCharge
    <1> HIDE DEF charge
    <1>3. StateSeen[txid] = "none"
        BY <1>1 DEF StateSeen
    <1>4. StateSeen' = [StateSeen EXCEPT ![txid] = "ATIVA"]
        BY <1>1, <1>2 DEF StateSeen, Insert
    <1>5. AskedSeen' = [AskedSeen EXCEPT ![txid] = cents]
        BY <1>1, <1>2 DEF AskedSeen, Insert
    <1>6. PaidSeen' = PaidSeen /\ ReturnedSeen' = ReturnedSeen
        BY UntouchedPayments DEF CreateCharge
    <1> QED
        BY <1>3, <1>4, <1>5, <1>6 DEF Lifecycle!Create

LEMMA ExpireMaps ==
    ASSUME TypeOK, NEW txid \in TxId, NEW now \in Time, ExpireCharge(txid, now)
    PROVE  Lifecycle!Expire(txid)
    <1>1. txid \in DOMAIN charges /\ charges[txid].status = "ATIVA"
        BY DEF ExpireCharge, IsExpired
    <1>2. charges' = [charges EXCEPT ![txid].status = "EXPIRADA"]
        BY DEF ExpireCharge
    <1>3. charges[txid] \in ChargeRow
        BY <1>1 DEF TypeOK, Typed
    <1>4. StateSeen[txid] = "ATIVA"
        BY <1>1 DEF StateSeen
    <1>5. StateSeen' = [StateSeen EXCEPT ![txid] = "EXPIRADA"]
        BY <1>1, <1>2, <1>3 DEF StateSeen, ChargeRow
    <1>6. AskedSeen' = AskedSeen
        BY <1>1, <1>2, <1>3 DEF AskedSeen, ChargeRow
    <1>7. PaidSeen' = PaidSeen /\ ReturnedSeen' = ReturnedSeen
        BY UntouchedPayments DEF ExpireCharge
    <1> QED
        BY <1>4, <1>5, <1>6, <1>7 DEF Lifecycle!Expire

LEMMA SettleMaps ==
    ASSUME TableInv, TableInv', NEW txid \in TxId, NEW now \in Time, NEW rnd \in RandomHalf,
           SettleCharge(txid, now, rnd)
    PROVE  Lifecycle!Settle(txid)
    <1> DEFINE seq == NextNumber(PaymentSeqs)
               e2e == NewE2EID(now, rnd, seq)
               payment == NewPayment(txid, seq, now)
    <1>1. /\ txid \in DOMAIN charges /\ charges[txid].status = "ATIVA"
          /\ e2e \notin DOMAIN payments
          /\ payments' = Insert(payments, e2e, payment)
          /\ charges' = [charges EXCEPT ![txid].status = "CONCLUIDA", ![txid].revisao = @ + 1]
        BY DEF SettleCharge, Payable, PaymentAccepted
    <1>2. payment.txid = txid /\ payment.cents = charges[txid].cents /\ payment.refunded = 0
        BY DEF NewPayment
    <1> HIDE DEF seq, e2e, payment
    <1>3. SettledOnce /\ SettledOnce' /\ charges[txid] \in ChargeRow
        BY <1>1 DEF TableInv, TypeOK, Typed
    <1>4. ~Settled(txid)
        BY <1>1, <1>3 DEF SettledOnce, Settled
    <1>5. StateSeen[txid] = "ATIVA" /\ AskedSeen[txid] = charges[txid].cents
        BY <1>1 DEF StateSeen, AskedSeen
    <1>6. StateSeen' = [StateSeen EXCEPT ![txid] = "CONCLUIDA"] /\ AskedSeen' = AskedSeen
        BY <1>1, <1>3 DEF StateSeen, AskedSeen, ChargeRow
    <1>7. e2e \in DOMAIN payments' /\ payments'[e2e] = payment
        BY <1>1 DEF Insert
    <1>8. PaidSeen'[txid] = AskedSeen[txid] /\ ReturnedSeen'[txid] = ReturnedSeen[txid]
        <2>1. Settled(txid)' /\ PaymentOf(txid)' = e2e
            BY <1>2, <1>3, <1>7, PaymentOfIsAfter
        <2> QED
            BY <1>2, <1>4, <1>5, <1>7, <2>1 DEF PaidSeen, ReturnedSeen
    <1>9. ASSUME NEW t \in TxId, t # txid
          PROVE  PaidSeen'[t] = PaidSeen[t] /\ ReturnedSeen'[t] = ReturnedSeen[t]
        <2>1. \A e \in DOMAIN payments : e \in DOMAIN payments' /\ payments'[e] = payments[e]
            BY <1>1 DEF Insert
        <2>2. \A e \in DOMAIN payments' : e \in DOMAIN payments \/ e = e2e
            BY <1>1 DEF Insert
        <2>3. Settled(t)' <=> Settled(t)
            BY <1>2, <1>7, <1>9, <2>1, <2>2 DEF Settled
        <2> QED
            BY <1>3, <2>1, <2>3, SameSeen
    <1>10. PaidSeen' = [PaidSeen EXCEPT ![txid] = AskedSeen[txid]] /\ ReturnedSeen' = ReturnedSeen
        <2>1. /\ PaidSeen' = [t \in TxId |-> PaidSeen'[t]] /\ PaidSeen = [t \in TxId |-> PaidSeen[t]]
              /\ ReturnedSeen' = [t \in TxId |-> ReturnedSeen'[t]]
              /\ ReturnedSeen = [t \in TxId |-> ReturnedSeen[t]]
            BY DEF PaidSeen, ReturnedSeen
        <2> QED
            BY <1>8, <1>9, <2>1
    <1> QED
        BY <1>5, <1>6, <1>10 DEF Lifecycle!Settle

LEMMA RefundMaps ==
    ASSUME TableInv, TableInv', NEW e2e \in DOMAIN payments, NEW id \in RefundId,
           NEW cents \in Amount, NEW now \in Time, NEW rnd \in RandomHalf,
           CreateRefund(e2e, id, cents, now, rnd), NEW txid, payments[e2e].txid = txid
    PROVE  Lifecycle!Refund(txid, cents) /\ txid \in TxId
    <1> DEFINE after == RefundedAfter(payments[e2e], cents)
               status == StatusAfterRefund(payments[e2e], cents)
    <1>1. /\ payments' = [payments EXCEPT ![e2e].refunded = after, ![e2e].status = status]
          /\ cents <= RefundableCents(payments[e2e])
          /\ UNCHANGED charges
        BY DEF CreateRefund
    <1>2. payments[e2e] \in PaymentRow /\ SettledOnce /\ SettledOnce'
        BY DEF TableInv, TypeOK, Typed
    <1>3. after = payments[e2e].refunded + cents
        BY DEF RefundedAfter
    <1>4. /\ payments[e2e].refunded \in Nat /\ payments[e2e].cents \in Nat /\ cents \in Nat
          /\ txid \in TxId
        BY <1>2, AmountAssumption DEF PaymentRow
    <1> HIDE DEF after, status
    <1>5. /\ DOMAIN payments' = DOMAIN payments
          /\ payments'[e2e].txid = txid /\ payments'[e2e].cents = payments[e2e].cents
          /\ payments'[e2e].refunded = after
          /\ \A e \in DOMAIN payments : e # e2e => payments'[e] = payments[e]
        BY <1>1, <1>2 DEF PaymentRow
    <1>6. Settled(txid) /\ PaymentOf(txid) = e2e
        BY <1>2, PaymentOfIs
    <1>7. Settled(txid)' /\ PaymentOf(txid)' = e2e
        BY <1>2, <1>5, PaymentOfIsAfter
    <1>8. StateSeen[txid] = "CONCLUIDA"
        BY <1>2, <1>4 DEF SettledOnce, StateSeen
    <1>9. ReturnedSeen[txid] + cents <= PaidSeen[txid]
        BY <1>1, <1>4, <1>6 DEF ReturnedSeen, PaidSeen, RefundableCents
    <1>10. PaidSeen'[txid] = PaidSeen[txid] /\ ReturnedSeen'[txid] = ReturnedSeen[txid] + cents
        BY <1>3, <1>4, <1>5, <1>6, <1>7 DEF ReturnedSeen, PaidSeen
    <1>11. ASSUME NEW t \in TxId, t # txid
           PROVE  PaidSeen'[t] = PaidSeen[t] /\ ReturnedSeen'[t] = ReturnedSeen[t]
        <2>1. Settled(t)' <=> Settled(t)
            BY <1>5, <1>11 DEF Settled
        <2> QED
            BY <1>2, <1>5, <1>11, <2>1, SameSeen
    <1>12. /\ PaidSeen' = PaidSeen
           /\ ReturnedSeen' = [ReturnedSeen EXCEPT ![txid] = ReturnedSeen[txid] + cents]
        <2>1. /\ PaidSeen' = [t \in TxId |-> PaidSeen'[t]] /\ PaidSeen = [t \in TxId |-> PaidSeen[t]]
              /\ ReturnedSeen' = [t \in TxId |-> ReturnedSeen'[t]]
              /\ ReturnedSeen = [t \in TxId |-> ReturnedSeen[t]]
            BY DEF PaidSeen, ReturnedSeen
        <2> QED
            BY <1>4, <1>10, <1>11, <2>1
    <1>13. StateSeen' = StateSeen /\ AskedSeen' = AskedSeen
        BY <1>1, UntouchedCharges
    <1> QED
        BY <1>4, <1>8, <1>9, <1>12, <1>13 DEF Lifecycle!Refund

-----------------------------------------------------------------------------
LEMMA InitMaps == Init => Lifecycle!Init
    BY DEF Init, Empty, Lifecycle!Init, StateSeen, AskedSeen, PaidSeen, ReturnedSeen, Settled

LEMMA NextMaps ==
    ASSUME TableInv, TableInv', [Next]_storeVars
    PROVE  [Lifecycle!Next]_Lifecycle!vars
    <1>1. CASE UNCHANGED <<charges, payments>>
        BY <1>1, UntouchedCharges, UntouchedPayments DEF Lifecycle!vars
    <1>2. ASSUME NEW now \in Time, NEW txid \in TxId, NEW cents \in Amount, NEW chave \in Chave,
                 NEW window \in Window, CreateCharge(txid, cents, chave, window, now)
          PROVE  Lifecycle!Next
        BY <1>2, CreateMaps DEF Lifecycle!Next
    <1>3. ASSUME NEW now \in Time, NEW txid \in TxId, ExpireCharge(txid, now)
          PROVE  Lifecycle!Next
        BY <1>3, ExpireMaps DEF TableInv, Lifecycle!Next
    <1>4. ASSUME NEW now \in Time, NEW txid \in TxId, NEW rnd \in RandomHalf,
                 SettleCharge(txid, now, rnd)
          PROVE  Lifecycle!Next
        BY <1>4, SettleMaps DEF Lifecycle!Next
    <1>5. ASSUME NEW now \in Time, NEW e2e \in DOMAIN payments, NEW id \in RefundId,
                 NEW cents \in Amount, NEW rnd \in RandomHalf,
                 CreateRefund(e2e, id, cents, now, rnd)
          PROVE  Lifecycle!Next
        BY <1>5, RefundMaps DEF Lifecycle!Next
    <1>6. ASSUME NEW now \in Time, NEW chave \in Chave, NEW url \in Url, PutWebhook(chave, url, now)
          PROVE  UNCHANGED <<charges, payments>>
        BY <1>6 DEF PutWebhook
    <1>7. ASSUME NEW now \in Time, AppendNote(now)
          PROVE  UNCHANGED <<charges, payments>>
        BY <1>7 DEF AppendNote, AppendEvent, tables
    <1> QED
        BY <1>1, <1>2, <1>3, <1>4, <1>5, <1>6, <1>7 DEF Next, Transaction, storeVars

\* The store implements the lifecycle of a charge: whatever the tables go
\* through, each charge is created once, ends expired or settled and stays so,
\* pays what was asked and returns no more.
THEOREM StoreImplementsLifecycle == Spec => LifecycleRefined
    <1>1. Init => Lifecycle!Init
        BY InitMaps
    <1>2. TableInv /\ TableInv' /\ [Next]_storeVars => [Lifecycle!Next]_Lifecycle!vars
        BY NextMaps
    <1> QED
        BY <1>1, <1>2, TablesCorrect, PTL DEF Spec, LifecycleRefined, Lifecycle!Spec

\* No method takes a payment away, gives it to another charge, or takes back from its
\* counter.
LEMMA PaymentsKept ==
    ASSUME TypeOK, [Next]_storeVars
    PROVE  \A e \in DOMAIN payments :
              /\ e \in DOMAIN payments' /\ payments'[e].txid = payments[e].txid
              /\ payments[e].refunded <= payments'[e].refunded
    <1>1. \A e \in DOMAIN payments : payments[e] \in PaymentRow /\ payments[e].refunded \in Nat
        BY DEF TypeOK, Typed, PaymentRow
    <1>2. CASE UNCHANGED payments
        BY <1>1, <1>2
    <1>3. ASSUME NEW txid, NEW now, NEW rnd, SettleCharge(txid, now, rnd)
          PROVE  \A e \in DOMAIN payments : e \in DOMAIN payments' /\ payments'[e] = payments[e]
        BY <1>3 DEF SettleCharge, PaymentAccepted, Insert
    <1>4. ASSUME NEW e2e \in DOMAIN payments, NEW id, NEW cents \in Amount, NEW now, NEW rnd,
                 CreateRefund(e2e, id, cents, now, rnd)
          PROVE  /\ DOMAIN payments' = DOMAIN payments /\ cents \in Nat
                 /\ payments'[e2e].refunded = payments[e2e].refunded + cents
                 /\ payments'[e2e].txid = payments[e2e].txid
                 /\ \A e \in DOMAIN payments : e # e2e => payments'[e] = payments[e]
        BY <1>4, AmountAssumption DEF CreateRefund, RefundedAfter, TypeOK, Typed, PaymentRow
    <1>5. CASE Next
        <2>1. PICK now \in Time : Transaction(now)
            BY <1>5 DEF Next
        <2>2. ASSUME NEW e2e \in DOMAIN payments, NEW id, NEW cents \in Amount, NEW rnd,
                     CreateRefund(e2e, id, cents, now, rnd), NEW e \in DOMAIN payments
              PROVE  /\ e \in DOMAIN payments' /\ payments'[e].txid = payments[e].txid
                     /\ payments[e].refunded <= payments'[e].refunded
            <3>1. CASE e = e2e
                BY <1>1, <1>4, <2>2, <3>1
            <3>2. CASE e # e2e
                BY <1>1, <1>4, <2>2, <3>2
            <3> QED
                BY <3>1, <3>2
        <2>3. ASSUME NEW txid, NEW rnd, SettleCharge(txid, now, rnd)
              PROVE  \A e \in DOMAIN payments :
                        /\ e \in DOMAIN payments' /\ payments'[e].txid = payments[e].txid
                        /\ payments[e].refunded <= payments'[e].refunded
            BY <1>1, <1>3, <2>3
        <2> QED
            BY <1>2, <2>1, <2>2, <2>3
               DEF Transaction, CreateCharge, ExpireCharge, PutWebhook, AppendNote, AppendEvent, tables
    <1> QED
        BY <1>2, <1>5 DEF storeVars

-----------------------------------------------------------------------------
(***************************************************************************)
(* Numbers and their MAX.                                                  *)
(***************************************************************************)
\* A set of numbers has a least, and one that is bounded has the Max of FiniteSetsExt.
LEMMA HasLeast ==
    ASSUME NEW T \in SUBSET Nat, T # {}
    PROVE  \E m \in T : \A y \in T : m <= y
    <1>1. \E x \in T : \A y \in T : ~(<<y, x>> \in OpToRel(<, Nat))
        BY NatLessThanWellFounded, WFMin
    <1>2. PICK x \in T : \A y \in T : ~(<<y, x>> \in OpToRel(<, Nat))
        BY <1>1
    <1>3. \A y \in T : ~(y < x)
        BY <1>2 DEF OpToRel
    <1>4. x \in Nat /\ \A y \in T : y \in Nat
        OBVIOUS
    <1> QED
        BY <1>3, <1>4

LEMMA MaxIs ==
    ASSUME NEW S, S \subseteq Int, S # {}, NEW top \in Int, \A x \in S : x <= top
    PROVE  Max(S) \in S /\ \A y \in S : Max(S) >= y
    <1>1. \E m \in S : \A y \in S : m >= y
        <2> DEFINE T == {top - x : x \in S}
        <2>1. T \in SUBSET Nat /\ T # {}
            <3>1. \A x \in S : top - x \in Nat
                OBVIOUS
            <3> QED
                BY <3>1
        <2>2. PICK d \in T : \A e \in T : d <= e
            BY <2>1, HasLeast
        <2>3. PICK m \in S : d = top - m
            OBVIOUS
        <2>4. \A y \in S : top - y \in T
            OBVIOUS
        <2> HIDE DEF T
        <2>5. \A y \in S : top - m <= top - y
            BY <2>2, <2>3, <2>4
        <2> QED
            BY <2>5
    <1> QED
        BY <1>1 DEF Max

-----------------------------------------------------------------------------
(***************************************************************************)
(* Sums over a finite set of rows.                                         *)
(***************************************************************************)
\* A nonempty family of subsets of a finite set has one with no other below it:
\* the least counterexample of the arguments below, which TLAPS has no induction for.
LEMMA SmallestSet ==
    ASSUME NEW S, IsFiniteSet(S), NEW B \in SUBSET SUBSET S, B # {}
    PROVE  \E s \in B : \A t \in B : t \subseteq s => t = s
    <1>1. B \subseteq FiniteSubsetsOf(S)
        BY FS_Subset DEF FiniteSubsetsOf
    <1>2. PICK s \in B : \A t \in B : ~(<<t, s>> \in StrictSubsetOrdering(S))
        BY <1>1, FS_StrictSubsetOrderingWellFounded, WFMin
    <1>3. \A t \in B : ~(t \subseteq s /\ s # t)
        BY <1>2 DEF StrictSubsetOrdering
    <1> QED
        BY <1>3

\* A total of n over the rows of S: what is added for a row is what it counts for,
\* whichever row is taken last.
Totals(total, n, S) ==
    /\ \A x \in S : n[x] \in Nat
    /\ total \in [SUBSET S -> Nat]
    /\ total[{}] = 0
    /\ \A s \in SUBSET S : \A x \in s : total[s] = n[x] + total[s \ {x}]

\* One more row: the total of what is there, and what the row counts for.
LEMMA TotalsGrow ==
    ASSUME NEW S, NEW x, x \notin S, NEW n, n[x] \in Nat, NEW total, Totals(total, n, S)
    PROVE  \E more : Totals(more, n, S \cup {x})
    <1> DEFINE more == [s \in SUBSET (S \cup {x}) |->
                           IF x \in s THEN n[x] + total[s \ {x}] ELSE total[s]]
    <1>1. \A s \in SUBSET (S \cup {x}) : s \ {x} \in SUBSET S /\ (x \notin s => s \in SUBSET S)
        OBVIOUS
    <1>2. total \in [SUBSET S -> Nat] /\ total[{}] = 0
        BY DEF Totals
    <1>3. more \in [SUBSET (S \cup {x}) -> Nat]
        BY <1>1, <1>2
    <1>4. more[{}] = 0
        BY <1>2
    <1>5. ASSUME NEW s \in SUBSET (S \cup {x}), NEW y \in s
          PROVE  more[s] = n[y] + more[s \ {y}]
        <2>1. CASE x \notin s
            BY <1>1, <2>1 DEF Totals
        <2>2. CASE y = x
            BY <1>1, <2>2
        <2>3. CASE x \in s /\ y # x
            <3>1. more[s] = n[x] + total[s \ {x}]
                BY <2>3
            <3>2. more[s \ {y}] = n[x] + total[(s \ {y}) \ {x}]
                BY <2>3
            <3>3. total[s \ {x}] = n[y] + total[(s \ {x}) \ {y}]
                BY <1>1, <2>3 DEF Totals
            <3>4. (s \ {x}) \ {y} = (s \ {y}) \ {x}
                OBVIOUS
            <3>5. total[s \ {x}] \in Nat /\ total[(s \ {x}) \ {y}] \in Nat
                BY <1>1, <1>2
            <3>6. n[y] \in Nat
                BY <2>3 DEF Totals
            <3> DEFINE rest == total[(s \ {x}) \ {y}]
                       whole == more[s]
                       part == more[s \ {y}]
            <3>7. whole = n[x] + (n[y] + rest) /\ part = n[x] + rest /\ rest \in Nat
                BY <3>1, <3>2, <3>3, <3>4, <3>5
            <3> HIDE DEF whole, part, rest
            <3>8. whole = n[y] + part
                BY <3>6, <3>7
            <3> QED
                BY <3>8 DEF whole, part
        <2> QED
            BY <2>1, <2>2, <2>3
    <1> QED
        <2>1. \A y \in S \cup {x} : n[y] \in Nat
            BY DEF Totals
        <2> HIDE DEF more
        <2>2. Totals(more, n, S \cup {x})
            BY <1>3, <1>4, <1>5, <2>1 DEF Totals
        <2> QED
            BY <2>2

\* Every finite set of rows has a total: a smallest one without is impossible.
LEMMA TotalsExist ==
    ASSUME NEW S, IsFiniteSet(S), NEW n, \A x \in S : n[x] \in Nat
    PROVE  \E total : Totals(total, n, S)
    <1> DEFINE B == {s \in SUBSET S : ~\E total : Totals(total, n, s)}
    <1>1. SUFFICES ASSUME B # {} PROVE FALSE
        <2>1. S \in SUBSET S
            OBVIOUS
        <2> QED
            BY <1>1, <2>1
    <1>2. PICK s \in B : \A t \in B : t \subseteq s => t = s
        <2>1. B \in SUBSET SUBSET S
            OBVIOUS
        <2> HIDE DEF B
        <2> QED
            BY <1>1, <2>1, SmallestSet
    <1>3. CASE s = {}
        <2> DEFINE total == [t \in SUBSET {} |-> 0]
        <2>1. Totals(total, n, {})
            <3>1. total \in [SUBSET {} -> Nat] /\ total[{}] = 0
                OBVIOUS
            <3> QED
                BY <3>1 DEF Totals
        <2> QED
            BY <1>3, <2>1
    <1>4. CASE s # {}
        <2>1. PICK x \in s : TRUE
            BY <1>4
        <2>2. s \ {x} \in SUBSET S /\ s \ {x} \notin B /\ (s \ {x}) \cup {x} = s
            BY <1>2
        <2>3. PICK total : Totals(total, n, s \ {x})
            BY <2>2
        <2>4. \E more : Totals(more, n, (s \ {x}) \cup {x})
            BY <2>3, TotalsGrow
        <2> QED
            BY <2>2, <2>4
    <1> QED
        BY <1>3, <1>4

\* What the iteration of MapThenSumSet computes is the total.
Sums(h, n, S) ==
    h = [s \in SUBSET S |->
            IF s = {} THEN 0
            ELSE n[CHOOSE x \in s : TRUE] + h[s \ {CHOOSE x \in s : TRUE}]]

\* The order rows are taken in does not matter.
LEMMA SumsAreTotals ==
    ASSUME NEW S, IsFiniteSet(S), NEW n, NEW total, Totals(total, n, S),
           NEW h, Sums(h, n, S)
    PROVE  h = total
    <1> DEFINE B == {s \in SUBSET S : h[s] # total[s]}
    <1>1. ASSUME B # {} PROVE FALSE
        <2>1. PICK s \in B : \A t \in B : t \subseteq s => t = s
            <3>1. B \in SUBSET SUBSET S
                OBVIOUS
            <3> HIDE DEF B
            <3> QED
                BY <1>1, <3>1, SmallestSet
        <2>2. s # {}
            BY DEF Totals, Sums
        <2> DEFINE x == CHOOSE x \in s : TRUE
        <2>3. x \in s
            BY <2>2
        <2>4. h[s] = n[x] + h[s \ {x}]
            BY <2>2 DEF Sums
        <2> HIDE DEF x
        <2>5. s \ {x} \in SUBSET S /\ s \ {x} \notin B
            BY <2>1, <2>3
        <2>6. h[s \ {x}] = total[s \ {x}] /\ total[s] = n[x] + total[s \ {x}]
            BY <2>3, <2>5 DEF Totals
        <2> QED
            BY <2>4, <2>6
    <1>2. DOMAIN h = SUBSET S /\ h = [s \in SUBSET S |-> h[s]]
        BY DEF Sums
    <1>3. \A s \in SUBSET S : h[s] = total[s]
        BY <1>1
    <1>4. total = [s \in SUBSET S |-> total[s]]
        BY DEF Totals
    <1> QED
        BY <1>2, <1>3, <1>4

\* The cents of the rows of a table.
Cents(row, S) == MapThenSumSet(LAMBDA k : row[k].cents, S)

\* The sum the model writes with MapThenSumSet is a total.
LEMMA CentsTotal ==
    ASSUME NEW S, IsFiniteSet(S), NEW row, NEW n, \A k \in S : n[k] = row[k].cents,
           NEW total, Totals(total, n, S)
    PROVE  Cents(row, S) = total[S]
    <1> DEFINE Iterates(h) ==
                  h = [s \in SUBSET S |->
                          IF s = {} THEN 0
                          ELSE row[CHOOSE x \in s : TRUE].cents + h[s \ {CHOOSE x \in s : TRUE}]]
    <1>1. Cents(row, S) = (CHOOSE h : Iterates(h))[S]
        BY DEF Cents, MapThenSumSet, MapThenFoldSet
    <1>2. Iterates(total)
        <2>1. ASSUME NEW s \in SUBSET S, s # {}
              PROVE  total[s] = row[CHOOSE x \in s : TRUE].cents + total[s \ {CHOOSE x \in s : TRUE}]
            <3>1. (CHOOSE x \in s : TRUE) \in s
                BY <2>1
            <3> QED
                BY <3>1 DEF Totals
        <2> QED
            BY <2>1 DEF Totals
    <1>3. ASSUME NEW h, Iterates(h)
          PROVE  h = total
        <2>1. ASSUME NEW s \in SUBSET S, s # {}
              PROVE  row[CHOOSE x \in s : TRUE].cents = n[CHOOSE x \in s : TRUE]
            <3>1. (CHOOSE x \in s : TRUE) \in s
                BY <2>1
            <3> QED
                BY <3>1
        <2>2. Sums(h, n, S)
            BY <1>3, <2>1 DEF Sums
        <2> QED
            BY <2>2, SumsAreTotals
    <1> HIDE DEF Iterates
    <1>4. (CHOOSE h : Iterates(h)) = total
        BY <1>2, <1>3
    <1> QED
        BY <1>1, <1>4

\* No rows, no cents.
LEMMA CentsOfNone ==
    ASSUME NEW row
    PROVE  Cents(row, {}) = 0
    <1> DEFINE n == [k \in {} |-> 0]
    <1>1. IsFiniteSet({})
        BY FS_EmptySet
    <1> HIDE DEF n
    <1>2. PICK total : Totals(total, n, {})
        BY <1>1, TotalsExist
    <1> QED
        BY <1>1, <1>2, CentsTotal DEF Totals

\* Rows that did not change count for the same.
LEMMA CentsSame ==
    ASSUME NEW S, IsFiniteSet(S), NEW row, \A k \in S : row[k].cents \in Nat,
           NEW other, \A k \in S : other[k].cents = row[k].cents
    PROVE  Cents(other, S) = Cents(row, S)
    <1> DEFINE n == [k \in S |-> row[k].cents]
    <1>1. \A k \in S : n[k] \in Nat /\ n[k] = row[k].cents /\ n[k] = other[k].cents
        OBVIOUS
    <1> HIDE DEF n
    <1>2. PICK total : Totals(total, n, S)
        BY <1>1, TotalsExist
    <1>3. Cents(row, S) = total[S]
        BY <1>1, <1>2, CentsTotal
    <1>4. Cents(other, S) = total[S]
        BY <1>1, <1>2, CentsTotal
    <1> QED
        BY <1>3, <1>4

\* A new row counts for its cents.
LEMMA CentsAdd ==
    ASSUME NEW S, IsFiniteSet(S), NEW x, x \notin S,
           NEW row, \A k \in S \cup {x} : row[k].cents \in Nat
    PROVE  Cents(row, S \cup {x}) = Cents(row, S) + row[x].cents
    <1> DEFINE n == [k \in S \cup {x} |-> row[k].cents]
    <1>1. \A k \in S \cup {x} : n[k] \in Nat /\ n[k] = row[k].cents
        OBVIOUS
    <1> HIDE DEF n
    <1>2. IsFiniteSet(S \cup {x})
        BY FS_AddElement
    <1>3. PICK total : Totals(total, n, S \cup {x})
        BY <1>1, <1>2, TotalsExist
    <1> DEFINE part == [s \in SUBSET S |-> total[s]]
    <1>4. Totals(part, n, S)
        <2>1. part \in [SUBSET S -> Nat] /\ part[{}] = 0
            BY <1>3 DEF Totals
        <2>2. ASSUME NEW s \in SUBSET S, NEW y \in s
              PROVE  part[s] = n[y] + part[s \ {y}]
            <3>1. total[s] = n[y] + total[s \ {y}]
                BY <1>3 DEF Totals
            <3> QED
                BY <3>1
        <2> HIDE DEF part
        <2> QED
            BY <1>1, <2>1, <2>2 DEF Totals
    <1>5. part[S] = total[S]
        OBVIOUS
    <1> HIDE DEF part
    <1>6. Cents(row, S) = part[S]
        BY <1>1, <1>4, CentsTotal
    <1>7. Cents(row, S \cup {x}) = total[S \cup {x}]
        BY <1>1, <1>2, <1>3, CentsTotal
    <1>8. total[S \cup {x}] = n[x] + total[S] /\ total[S] \in Nat
        <2>1. (S \cup {x}) \ {x} = S
            OBVIOUS
        <2> QED
            BY <1>3, <2>1 DEF Totals
    <1> QED
        BY <1>1, <1>5, <1>6, <1>7, <1>8

-----------------------------------------------------------------------------
(***************************************************************************)
(* What went back is what the refunds say.                                 *)
(***************************************************************************)
KeysOf(re, e2e) == {k \in DOMAIN re : k[1] = e2e}

\* A refund belongs to a stored payment, so a new payment has none; what went back
\* is what they come to.
Balanced(pa, re) ==
    /\ IsFiniteSet(DOMAIN re)
    /\ \A k \in DOMAIN re : k[1] \in DOMAIN pa
    /\ \A e \in DOMAIN pa : pa[e].refunded = Cents(re, KeysOf(re, e))

\* The balance is the property the run checks.
LEMMA BalanceIsSum == RefundedIsSum <=>
        \A e \in DOMAIN payments : payments[e].refunded = Cents(refunds, KeysOf(refunds, e))
    BY DEF RefundedIsSum, Cents, RefundsOf, KeysOf

\* The refunds stay, and so do the counters of stored payments.
LEMMA BalanceKept ==
    ASSUME NEW pa, NEW re, Balanced(pa, re), NEW pa2,
           \A e \in DOMAIN pa : e \in DOMAIN pa2 /\ pa2[e].refunded = pa[e].refunded,
           \A e \in DOMAIN pa2 \ DOMAIN pa : pa2[e].refunded = 0
    PROVE  Balanced(pa2, re)
    <1>1. ASSUME NEW e \in DOMAIN pa2 \ DOMAIN pa
          PROVE  pa2[e].refunded = Cents(re, KeysOf(re, e))
        <2>1. KeysOf(re, e) = {}
            BY DEF KeysOf, Balanced
        <2> QED
            BY <2>1, CentsOfNone
    <1>2. ASSUME NEW e \in DOMAIN pa
          PROVE  pa2[e].refunded = Cents(re, KeysOf(re, e))
        BY DEF Balanced
    <1> QED
        BY <1>1, <1>2 DEF Balanced

\* One more refund, counted on its payment.
LEMMA BalanceAfterRefund ==
    ASSUME NEW pa, NEW re, Balanced(pa, re), \A k \in DOMAIN re : re[k].cents \in Nat,
           NEW key, key \notin DOMAIN re, key[1] \in DOMAIN pa, NEW row, row.cents \in Nat,
           NEW pa2, DOMAIN pa2 = DOMAIN pa,
           pa2[key[1]].refunded = pa[key[1]].refunded + row.cents,
           \A e \in DOMAIN pa : e # key[1] => pa2[e] = pa[e]
    PROVE  Balanced(pa2, Insert(re, key, row))
    <1> DEFINE re2 == Insert(re, key, row)
    <1>1. /\ DOMAIN re2 = DOMAIN re \cup {key} /\ re2[key] = row
          /\ \A k \in DOMAIN re : re2[k] = re[k]
        BY DEF Insert
    <1> HIDE DEF re2
    <1>2. IsFiniteSet(DOMAIN re2)
        BY <1>1, FS_AddElement DEF Balanced
    <1>3. ASSUME NEW e \in DOMAIN pa
          PROVE  pa2[e].refunded = Cents(re2, KeysOf(re2, e))
        <2> DEFINE S == KeysOf(re, e)
        <2>1. /\ IsFiniteSet(S) /\ key \notin S
              /\ \A k \in S : re2[k].cents = re[k].cents /\ re[k].cents \in Nat
            BY <1>1, FS_Subset DEF KeysOf, Balanced
        <2>2. pa[e].refunded = Cents(re, S)
            BY DEF Balanced
        <2> HIDE DEF S
        <2>3. Cents(re2, S) = Cents(re, S)
            BY <2>1, CentsSame
        <2>4. CASE e = key[1]
            <3>1. KeysOf(re2, e) = S \cup {key}
                BY <1>1, <2>4 DEF KeysOf, S
            <3>2. \A k \in S \cup {key} : re2[k].cents \in Nat
                BY <1>1, <2>1
            <3>3. Cents(re2, S \cup {key}) = Cents(re2, S) + re2[key].cents
                BY ONLY <2>1, <3>2, CentsAdd
            <3> QED
                BY <1>1, <2>2, <2>3, <2>4, <3>1, <3>3
        <2>5. CASE e # key[1]
            <3>1. KeysOf(re2, e) = S
                BY <1>1, <2>5 DEF KeysOf, S
            <3> QED
                BY <2>2, <2>3, <2>5, <3>1
        <2> QED
            BY <2>4, <2>5
    <1>4. \A k \in DOMAIN re2 : k[1] \in DOMAIN pa2
        BY <1>1 DEF Balanced
    <1> QED
        BY <1>2, <1>3, <1>4 DEF Balanced, re2

\* Any transaction of the store.
LEMMA BalanceStep ==
    ASSUME TableInv, Balanced(payments, refunds), [Next]_storeVars
    PROVE  Balanced(payments', refunds')
    <1>1. CASE UNCHANGED <<payments, refunds>>
        BY <1>1
    <1>2. ASSUME NEW txid \in TxId, NEW now \in Time, NEW rnd \in RandomHalf,
                 SettleCharge(txid, now, rnd)
          PROVE  Balanced(payments', refunds')
        <2> DEFINE e2e == NewE2EID(now, rnd, NextNumber(PaymentSeqs))
                   payment == NewPayment(txid, NextNumber(PaymentSeqs), now)
        <2>1. /\ e2e \notin DOMAIN payments /\ payments' = Insert(payments, e2e, payment)
              /\ refunds' = refunds
            BY <1>2 DEF SettleCharge, PaymentAccepted
        <2>2. payment.refunded = 0
            BY DEF NewPayment
        <2> HIDE DEF e2e, payment
        <2>3. /\ \A e \in DOMAIN payments : e \in DOMAIN payments' /\ payments'[e] = payments[e]
              /\ \A e \in DOMAIN payments' \ DOMAIN payments : payments'[e].refunded = 0
            BY <2>1, <2>2 DEF Insert
        <2> QED
            BY <2>1, <2>3, BalanceKept
    <1>3. ASSUME NEW e2e \in DOMAIN payments, NEW id \in RefundId, NEW cents \in Amount,
                 NEW now \in Time, NEW rnd \in RandomHalf, CreateRefund(e2e, id, cents, now, rnd)
          PROVE  Balanced(payments', refunds')
        <2> DEFINE key == <<e2e, id>>
                   row == RefundAs("DEVOLVIDO", cents, NextNumber(RefundSeqs), now, rnd)
        <2>1. key \notin DOMAIN refunds /\ refunds' = Insert(refunds, key, row)
            BY <1>3 DEF CreateRefund, RefundAccepted
        <2>2. row.cents = cents /\ cents \in Nat /\ key[1] = e2e
            BY AmountAssumption DEF RefundAs
        <2>3. \A k \in DOMAIN refunds : refunds[k].cents \in Nat
            BY AmountAssumption DEF TableInv, TypeOK, Typed, RefundRow
        <2>4. /\ DOMAIN payments' = DOMAIN payments
              /\ payments'[e2e].refunded = payments[e2e].refunded + cents
              /\ \A e \in DOMAIN payments : e # e2e => payments'[e] = payments[e]
            BY <1>3 DEF CreateRefund, RefundedAfter, TableInv, TypeOK, Typed, PaymentRow
        <2> HIDE DEF key, row
        <2> QED
            BY <2>1, <2>2, <2>3, <2>4, BalanceAfterRefund
    <1>4. CASE Next
        <2>1. PICK now \in Time : Transaction(now)
            BY <1>4 DEF Next
        <2> QED
            BY <1>1, <1>2, <1>3, <2>1
               DEF Transaction, CreateCharge, ExpireCharge, PutWebhook, AppendNote, AppendEvent, tables
    <1>5. CASE UNCHANGED storeVars
        BY <1>1, <1>5 DEF storeVars
    <1> QED
        BY <1>4, <1>5

\* An empty database is balanced.
LEMMA BalanceStarts ==
    ASSUME Init
    PROVE  Balanced(payments, refunds)
    BY FS_EmptySet DEF Init, Empty, Balanced

\* The counter CreateRefund adds to is the sum of the refunds stored for that
\* payment, in every reachable state: neither is ever written without the other.
THEOREM CountersSum == Spec => []RefundedIsSum
    <1>1. Init => TableInv /\ Balanced(payments, refunds)
        BY InitTables, BalanceStarts
    <1>2. TableInv /\ Balanced(payments, refunds) /\ [Next]_storeVars
              => TableInv' /\ Balanced(payments, refunds)'
        BY TablesStep, BalanceStep
    <1>3. Balanced(payments, refunds) => RefundedIsSum
        BY BalanceIsSum DEF Balanced
    <1> QED
        BY <1>1, <1>2, <1>3, PTL DEF Spec
=============================================================================
