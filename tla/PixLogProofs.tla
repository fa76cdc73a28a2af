---------------------------- MODULE PixLogProofs ------------------------------
(***************************************************************************)
(* Theorems about the event log of PixStore: it agrees with the tables and *)
(* is written in the order of the state machines (INV-3), it alone         *)
(* rebuilds the tables, and payments and expiries respect the window, for  *)
(* every set of requests and clock readings.                               *)
(***************************************************************************)
EXTENDS PixReplay, PixStoreProofs

-----------------------------------------------------------------------------
(***************************************************************************)
(* A log that grows.                                                       *)
(***************************************************************************)
Has(log, agg, type) == \E i \in DOMAIN log : log[i].agg = agg /\ log[i].type = type

NewIds(before, after) == DOMAIN after \ DOMAIN before

Extends(before, after) ==
    /\ DOMAIN before \subseteq DOMAIN after
    /\ \A i \in DOMAIN before : after[i] = before[i]
    /\ \A i \in DOMAIN before, k \in NewIds(before, after) : i < k /\ ~(k < i)

\* What a transaction that logs one event, or two, does to the log.
LEMMA OneMore ==
    ASSUME NEW log \in Seq(Event), NEW event
    PROVE  LET after == Append(log, event) IN
           /\ Extends(log, after)
           /\ NewIds(log, after) = {Len(log) + 1} /\ after[Len(log) + 1] = event
    BY DEF Extends, NewIds

LEMMA TwoMore ==
    ASSUME NEW log \in Seq(Event), NEW first, NEW second
    PROVE  LET after == log \o <<first, second>> IN
           /\ Extends(log, after)
           /\ NewIds(log, after) = {Len(log) + 1, Len(log) + 2}
           /\ after[Len(log) + 1] = first /\ after[Len(log) + 2] = second
    BY DEF Extends, NewIds

LEMMA HasAfter ==
    ASSUME NEW before, NEW after, Extends(before, after), NEW agg, NEW type
    PROVE  Has(after, agg, type) <=>
               \/ Has(before, agg, type)
               \/ \E k \in NewIds(before, after) : after[k].agg = agg /\ after[k].type = type
    BY DEF Extends, NewIds, Has

LEMMA HasOneMore ==
    ASSUME NEW before, NEW after, Extends(before, after), NEW n, NewIds(before, after) = {n}
    PROVE  \A agg, type : Has(after, agg, type) <=>
               Has(before, agg, type) \/ (agg = after[n].agg /\ type = after[n].type)
    <1> SUFFICES ASSUME NEW agg, NEW type
                 PROVE  Has(after, agg, type) <=>
                            Has(before, agg, type) \/ (agg = after[n].agg /\ type = after[n].type)
        OBVIOUS
    <1>1. Has(after, agg, type) <=>
              \/ Has(before, agg, type)
              \/ \E k \in NewIds(before, after) : after[k].agg = agg /\ after[k].type = type
        BY HasAfter
    <1> QED
        BY <1>1

-----------------------------------------------------------------------------
(***************************************************************************)
(* The inductive invariant.  What the properties leave out and a step      *)
(* needs: whose event it is decides its type, and an event of a charge or  *)
(* a payment is of one that is stored.  So a txid or an identifier that is *)
(* new has no event yet.                                                   *)
(***************************************************************************)
CobTypes == {"cob.created", "cob.expired", "cob.settled"}

Stored(t, status) == t \in DOMAIN charges /\ charges[t].status = status

LogAgrees ==
    \A t \in TxId :
        /\ t \in DOMAIN charges <=> Has(events, ChargeAggregate(t), "cob.created")
        /\ Stored(t, "EXPIRADA") <=> Has(events, ChargeAggregate(t), "cob.expired")
        /\ Stored(t, "CONCLUIDA") <=> Has(events, ChargeAggregate(t), "cob.settled")

ReceiptsLogged == \A e \in DOMAIN payments : Has(events, PaymentAggregate(e), "pix.received")

OwnersStored ==
    \A i \in DOMAIN events :
        /\ events[i].agg[1] = "cob" =>
              /\ events[i].type \in CobTypes
              /\ \E t \in DOMAIN charges : events[i].agg = ChargeAggregate(t)
        /\ events[i].agg[1] = "pix" =>
              \E e \in DOMAIN payments : events[i].agg = PaymentAggregate(e)
        /\ events[i].type = "pix.received" => events[i].agg[1] = "pix"

StoreLogInv ==
    /\ TableInv
    /\ LogAgrees
    /\ ReceiptsLogged
    /\ OwnersStored
    /\ LogFollowsMachine
    /\ WindowRespected

LEMMA EventParts ==
    ASSUME NEW agg, NEW type, NEW at, NEW body
    PROVE  /\ EventAt(agg, type, at, body).agg = agg /\ EventAt(agg, type, at, body).type = type
           /\ EventAt(agg, type, at, body).at = at
    BY DEF EventAt

LEMMA AggregateShapes ==
    /\ \A t, u : ChargeAggregate(t) = ChargeAggregate(u) => t = u
    /\ \A e, f : PaymentAggregate(e) = PaymentAggregate(f) => e = f
    /\ \A x : /\ ChargeAggregate(x)[1] = "cob" /\ PaymentAggregate(x)[1] = "pix"
              /\ WebhookAggregate(x)[1] = "webhook"
    /\ OAuthAggregate[1] = "oauth"
    BY DEF ChargeAggregate, PaymentAggregate, WebhookAggregate, OAuthAggregate

-----------------------------------------------------------------------------
(***************************************************************************)
(* The transactions.                                                       *)
(***************************************************************************)
\* Events that are about no charge and receive no payment, over charges and
\* payments that keep what the log says of them.
LEMMA ForeignKeeps ==
    ASSUME StoreLogInv, TableInv', charges' = charges, Extends(events, events'),
           DOMAIN payments' = DOMAIN payments,
           \A e \in DOMAIN payments : /\ payments'[e].at = payments[e].at
                                      /\ payments'[e].txid = payments[e].txid,
           \A k \in NewIds(events, events') :
               /\ events'[k].agg[1] # "cob" /\ events'[k].type \notin CobTypes \cup {"pix.received"}
               /\ events'[k].agg[1] = "pix" =>
                     \E e \in DOMAIN payments : events'[k].agg = PaymentAggregate(e)
    PROVE  StoreLogInv'
    <1> USE DEF StoreLogInv
    <1>1. /\ \A i \in DOMAIN events' : i \in DOMAIN events \/ i \in NewIds(events, events')
          /\ \A i \in DOMAIN events : i \in DOMAIN events' /\ events'[i] = events[i]
        BY DEF Extends, NewIds
    <1>2. \A agg, type : type \in CobTypes \cup {"pix.received"} =>
              (Has(events', agg, type) <=> Has(events, agg, type))
        BY HasAfter
    <1>3. LogAgrees'
        BY <1>2 DEF LogAgrees, Stored, CobTypes
    <1>4. ReceiptsLogged'
        BY <1>2 DEF ReceiptsLogged
    <1>5. OwnersStored'
        BY <1>1 DEF OwnersStored
    <1>6. LogFollowsMachine'
        BY <1>1 DEF LogFollowsMachine, Extends
    <1>7. WindowRespected'
        BY <1>1 DEF WindowRespected, CobTypes
    <1> QED
        BY <1>3, <1>4, <1>5, <1>6, <1>7

LEMMA RefundLogged ==
    ASSUME StoreLogInv, NEW e2e \in DOMAIN payments, NEW id \in RefundId, NEW cents \in Amount,
           NEW now \in Time, NEW rnd \in RandomHalf, CreateRefund(e2e, id, cents, now, rnd)
    PROVE  StoreLogInv'
    <1>1. TableInv'
        BY RefundTables DEF StoreLogInv
    <1> DEFINE seq == NextNumber(RefundSeqs)
               asking == EventAt(PaymentAggregate(e2e), "pix.devolucao.requested", now,
                   RefundPayload(id, RefundAs("EM_PROCESSAMENTO", cents, seq, now, rnd)))
               giving == EventAt(PaymentAggregate(e2e), "pix.devolucao.settled", now,
                   RefundPayload(id, RefundAs("DEVOLVIDO", cents, seq, now, rnd)))
    <1>2. /\ asking.agg = PaymentAggregate(e2e) /\ asking.type = "pix.devolucao.requested"
          /\ giving.agg = PaymentAggregate(e2e) /\ giving.type = "pix.devolucao.settled"
        BY EventParts
    <1>3. events' = events \o <<asking, giving>>
        BY DEF CreateRefund, RefundTrail
    <1> HIDE DEF asking, giving
    <1>4. /\ charges' = charges /\ DOMAIN payments' = DOMAIN payments
          /\ \A e \in DOMAIN payments : /\ payments'[e].at = payments[e].at
                                        /\ payments'[e].txid = payments[e].txid
        BY DEF CreateRefund, StoreLogInv, TableInv, TypeOK, Typed, PaymentRow
    <1>5. events \in Seq(Event)
        BY DEF StoreLogInv, TableInv, TypeOK
    <1>6. /\ Extends(events, events')
          /\ \A k \in NewIds(events, events') : events'[k] = asking \/ events'[k] = giving
        <2>1. /\ Extends(events, events')
              /\ NewIds(events, events') = {Len(events) + 1, Len(events) + 2}
              /\ events'[Len(events) + 1] = asking /\ events'[Len(events) + 2] = giving
            BY <1>3, <1>5, TwoMore
        <2> QED
            BY <2>1
    <1> QED
        BY <1>1, <1>2, <1>4, <1>6, ForeignKeeps, AggregateShapes DEF CobTypes

LEMMA OneForeign ==
    ASSUME StoreLogInv, TableInv', UNCHANGED <<charges, payments>>,
           NEW event, events' = Append(events, event),
           event.agg[1] # "cob", event.type \notin CobTypes \cup {"pix.received"},
           event.agg[1] = "pix" => \E e \in DOMAIN payments : event.agg = PaymentAggregate(e)
    PROVE  StoreLogInv'
    <1>1. events \in Seq(Event)
        BY DEF StoreLogInv, TableInv, TypeOK
    <1>2. Extends(events, events') /\ \A k \in NewIds(events, events') : events'[k] = event
        BY <1>1, OneMore
    <1> QED
        BY <1>2, ForeignKeeps

LEMMA OtherLogged ==
    ASSUME StoreLogInv, NEW now \in Time,
           \/ \E chave \in Chave, url \in Url : PutWebhook(chave, url, now)
           \/ AppendNote(now)
    PROVE  StoreLogInv'
    <1>1. TableInv'
        BY OtherTables DEF StoreLogInv
    <1>2. ASSUME NEW chave \in Chave, NEW url \in Url, PutWebhook(chave, url, now)
          PROVE  StoreLogInv'
        <2> DEFINE event == EventAt(WebhookAggregate(chave), "webhook.registered", now,
                                    WebhookPayload(url, chave \notin DOMAIN webhooks))
        <2>1. events' = Append(events, event) /\ UNCHANGED <<charges, payments>>
            BY <1>2 DEF PutWebhook
        <2>2. event.agg[1] = "webhook" /\ event.type = "webhook.registered"
            BY EventParts, AggregateShapes
        <2> HIDE DEF event
        <2> QED
            BY <1>1, <2>1, <2>2, OneForeign DEF CobTypes
    <1>3. ASSUME AppendNote(now)
          PROVE  StoreLogInv'
        <2>1. PICK agg \in {OAuthAggregate} \cup {PaymentAggregate(e) : e \in DOMAIN payments},
                   type \in NoteType : AppendEvent(agg, type, now)
            BY <1>3 DEF AppendNote, NoteType
        <2> DEFINE event == EventAt(agg, type, now, <<>>)
        <2>2. events' = Append(events, event) /\ UNCHANGED <<charges, payments>>
            BY <2>1 DEF AppendEvent, tables
        <2>3. event.agg = agg /\ event.type = type
            BY EventParts
        <2> HIDE DEF event
        <2>4. /\ event.agg[1] # "cob" /\ event.type \notin CobTypes \cup {"pix.received"}
              /\ event.agg[1] = "pix" => \E e \in DOMAIN payments : event.agg = PaymentAggregate(e)
            BY <2>1, <2>3, AggregateShapes DEF NoteType, CobTypes
        <2> QED
            BY <1>1, <2>2, <2>4, OneForeign
    <1> QED
        BY <1>2, <1>3

\* A txid not stored has no event yet, so cob.created is its first.
LEMMA CreateLogged ==
    ASSUME StoreLogInv, NEW txid \in TxId, NEW cents \in Amount, NEW chave \in Chave,
           NEW window \in Window, NEW now \in Time,
           CreateCharge(txid, cents, chave, window, now)
    PROVE  StoreLogInv'
    <1> USE DEF StoreLogInv
    <1>1. TableInv'
        BY CreateTables
    <1>2. PICK event :
              /\ events' = Append(events, event)
              /\ event.agg = ChargeAggregate(txid) /\ event.type = "cob.created"
        BY DEF CreateCharge, EventAt
    <1>3. PICK n : /\ Extends(events, events') /\ NewIds(events, events') = {n}
                   /\ events'[n] = event
        <2>1. events \in Seq(Event)
            BY DEF TableInv, TypeOK
        <2> QED
            BY <1>2, <2>1, OneMore
    <1>4. /\ txid \notin DOMAIN charges /\ DOMAIN charges' = DOMAIN charges \cup {txid}
          /\ charges'[txid].status = "ATIVA" /\ \A t \in DOMAIN charges : charges'[t] = charges[t]
          /\ UNCHANGED payments
        BY DEF CreateCharge, ChargeIsNew, Insert, NewCharge
    <1>5. /\ \A i \in DOMAIN events' : i \in DOMAIN events \/ i = n
          /\ \A i \in DOMAIN events : i \in DOMAIN events' /\ events'[i] = events[i]
        BY <1>3 DEF Extends, NewIds
    <1>6. \A i \in DOMAIN events : events[i].agg # ChargeAggregate(txid)
        BY <1>4, AggregateShapes DEF OwnersStored
    <1>7. \A agg, type : Has(events', agg, type) <=>
              \/ Has(events, agg, type)
              \/ agg = ChargeAggregate(txid) /\ type = "cob.created"
        <2>1. \A agg, type : Has(events', agg, type) <=>
                  Has(events, agg, type) \/ (agg = events'[n].agg /\ type = events'[n].type)
            BY <1>3, HasOneMore
        <2> QED
            BY <1>2, <1>3, <2>1
    <1>8. \A type : ~Has(events, ChargeAggregate(txid), type)
        BY <1>6 DEF Has
    <1>9. LogAgrees'
        BY <1>4, <1>7, <1>8, AggregateShapes DEF LogAgrees, Stored
    <1>10. ReceiptsLogged'
        BY <1>4, <1>7 DEF ReceiptsLogged
    <1>11. OwnersStored'
        BY <1>2, <1>3, <1>4, <1>5, AggregateShapes DEF OwnersStored, CobTypes
    <1>12. LogFollowsMachine'
        BY <1>2, <1>3, <1>5, <1>6, AggregateShapes DEF LogFollowsMachine, Extends
    <1>13. WindowRespected'
        BY <1>2, <1>3, <1>4, <1>5 DEF WindowRespected, TableInv, SettledOnce
    <1> QED
        BY <1>1, <1>9, <1>10, <1>11, <1>12, <1>13

\* A charge that is ATIVA has no terminal event, so cob.expired is its only one.
LEMMA ExpireLogged ==
    ASSUME StoreLogInv, NEW txid \in TxId, NEW now \in Time, ExpireCharge(txid, now)
    PROVE  StoreLogInv'
    <1> USE DEF StoreLogInv
    <1>1. TableInv'
        BY ExpireTables
    <1>2. PICK event :
              /\ events' = Append(events, event) /\ event.agg = ChargeAggregate(txid)
              /\ event.type = "cob.expired" /\ event.at = now
        BY DEF ExpireCharge, EventAt
    <1>3. PICK n : /\ Extends(events, events') /\ NewIds(events, events') = {n}
                   /\ events'[n] = event
        <2>1. events \in Seq(Event)
            BY DEF TableInv, TypeOK
        <2> QED
            BY <1>2, <2>1, OneMore
    <1>4. /\ txid \in DOMAIN charges /\ DOMAIN charges' = DOMAIN charges
          /\ charges[txid].status = "ATIVA" /\ charges'[txid].status = "EXPIRADA"
          /\ now >= charges[txid].expiresAt /\ UNCHANGED payments
          /\ \A t \in DOMAIN charges : /\ charges'[t].expiresAt = charges[t].expiresAt
                                       /\ t # txid => charges'[t].status = charges[t].status
        BY DEF ExpireCharge, IsExpired, TableInv, TypeOK, Typed, ChargeRow
    <1>5. /\ \A i \in DOMAIN events' : i \in DOMAIN events \/ i = n
          /\ \A i \in DOMAIN events : i \in DOMAIN events' /\ events'[i] = events[i]
        BY <1>3 DEF Extends, NewIds
    <1>6. \A i \in DOMAIN events : events[i].agg = ChargeAggregate(txid) =>
              events[i].type = "cob.created"
        BY <1>4, AggregateShapes DEF OwnersStored, CobTypes, LogAgrees, Stored, Has
    <1>7. \A agg, type : Has(events', agg, type) <=>
              \/ Has(events, agg, type)
              \/ agg = ChargeAggregate(txid) /\ type = "cob.expired"
        <2>1. \A agg, type : Has(events', agg, type) <=>
                  Has(events, agg, type) \/ (agg = events'[n].agg /\ type = events'[n].type)
            BY <1>3, HasOneMore
        <2> QED
            BY <1>2, <1>3, <2>1
    <1>8. LogAgrees'
        BY <1>4, <1>7, AggregateShapes DEF LogAgrees, Stored
    <1>9. ReceiptsLogged'
        BY <1>4, <1>7 DEF ReceiptsLogged
    <1>10. OwnersStored'
        BY <1>2, <1>3, <1>4, <1>5, AggregateShapes DEF OwnersStored, CobTypes
    <1>11. LogFollowsMachine'
        BY <1>2, <1>3, <1>5, <1>6, AggregateShapes DEF LogFollowsMachine, Extends
    <1>12. WindowRespected'
        BY <1>2, <1>3, <1>4, <1>5 DEF WindowRespected, TableInv, SettledOnce
    <1> QED
        BY <1>1, <1>8, <1>9, <1>10, <1>11, <1>12

\* The payment is new, so pix.received opens its log; the charge is ATIVA, so
\* cob.settled ends its own; and the reading is inside the window.
LEMMA SettleLogged ==
    ASSUME StoreLogInv, NEW txid \in TxId, NEW now \in Time, NEW rnd \in RandomHalf,
           SettleCharge(txid, now, rnd)
    PROVE  StoreLogInv'
    <1> USE DEF StoreLogInv
    <1>1. TableInv'
        BY SettleTables
    <1> DEFINE e2e == NewE2EID(now, rnd, NextNumber(PaymentSeqs))
               payment == NewPayment(txid, NextNumber(PaymentSeqs), now)
               received == EventAt(PaymentAggregate(e2e), "pix.received", now,
                                   PaymentPayload(payment))
               settled == EventAt(ChargeAggregate(txid), "cob.settled", now,
                                  [status |-> "CONCLUIDA", e2e |-> e2e, cents |-> payment.cents])
               n == Len(events) + 1
               m == Len(events) + 2
    <1>2. /\ received.agg = PaymentAggregate(e2e) /\ received.type = "pix.received"
          /\ settled.agg = ChargeAggregate(txid) /\ settled.type = "cob.settled"
        BY EventParts
    <1>3. events' = events \o <<received, settled>>
        BY DEF SettleCharge
    <1> HIDE DEF received, settled
    <1>4. /\ Extends(events, events') /\ NewIds(events, events') = {n, m}
          /\ events'[n] = received /\ events'[m] = settled
        <2>1. events \in Seq(Event)
            BY DEF TableInv, TypeOK
        <2> QED
            BY <1>3, <2>1, TwoMore
    <1> HIDE DEF n, m
    <1>5. /\ txid \in DOMAIN charges /\ DOMAIN charges' = DOMAIN charges
          /\ charges[txid].status = "ATIVA" /\ charges'[txid].status = "CONCLUIDA"
          /\ ~(now >= charges[txid].expiresAt)
          /\ \A t \in DOMAIN charges : /\ charges'[t].expiresAt = charges[t].expiresAt
                                       /\ t # txid => charges'[t].status = charges[t].status
        BY DEF SettleCharge, Payable, IsExpired, TableInv, TypeOK, Typed, ChargeRow
    <1>6. /\ e2e \notin DOMAIN payments /\ DOMAIN payments' = DOMAIN payments \cup {e2e}
          /\ payments'[e2e].txid = txid /\ payments'[e2e].at = now
          /\ \A e \in DOMAIN payments : payments'[e] = payments[e]
        BY DEF SettleCharge, PaymentAccepted, Insert, NewPayment
    <1> HIDE DEF e2e
    <1>7. /\ \A i \in DOMAIN events' : i \in DOMAIN events \/ i = n \/ i = m
          /\ \A i \in DOMAIN events : i \in DOMAIN events' /\ events'[i] = events[i]
        BY <1>4 DEF Extends, NewIds
    <1>8. \A i \in DOMAIN events :
              /\ events[i].agg = ChargeAggregate(txid) => events[i].type = "cob.created"
              /\ events[i].agg # PaymentAggregate(e2e)
        BY <1>5, <1>6, AggregateShapes DEF OwnersStored, CobTypes, LogAgrees, Stored, Has
    <1>9. \A agg, type : Has(events', agg, type) <=>
              \/ Has(events, agg, type)
              \/ agg = PaymentAggregate(e2e) /\ type = "pix.received"
              \/ agg = ChargeAggregate(txid) /\ type = "cob.settled"
        <2> SUFFICES ASSUME NEW agg, NEW type
                     PROVE  Has(events', agg, type) <=>
                                \/ Has(events, agg, type)
                                \/ agg = PaymentAggregate(e2e) /\ type = "pix.received"
                                \/ agg = ChargeAggregate(txid) /\ type = "cob.settled"
            OBVIOUS
        <2>1. Has(events', agg, type) <=>
                  \/ Has(events, agg, type)
                  \/ \E k \in NewIds(events, events') :
                        events'[k].agg = agg /\ events'[k].type = type
            BY <1>4, HasAfter
        <2> QED
            BY <1>2, <1>4, <2>1
    <1>10. \A t : ChargeAggregate(t) # PaymentAggregate(e2e)
        BY AggregateShapes
    <1>11. LogAgrees'
        BY <1>5, <1>9, <1>10, AggregateShapes DEF LogAgrees, Stored
    <1>12. ReceiptsLogged'
        BY <1>6, <1>9 DEF ReceiptsLogged
    <1>13. OwnersStored'
        BY <1>2, <1>4, <1>5, <1>6, <1>7, AggregateShapes DEF OwnersStored, CobTypes
    <1>14. LogFollowsMachine'
        <2> SUFFICES ASSUME NEW i \in DOMAIN events', NEW j \in DOMAIN events',
                            i < j, events'[i].agg = events'[j].agg
                     PROVE  /\ events'[i].agg[1] = "cob" =>
                                  /\ events'[i].type = "cob.created"
                                  /\ events'[j].type \in {"cob.expired", "cob.settled"}
                            /\ events'[i].agg[1] = "pix" => events'[j].type # "pix.received"
            BY DEF LogFollowsMachine
        <2>1. CASE i \in DOMAIN events /\ j \in DOMAIN events
            BY <1>7, <2>1 DEF LogFollowsMachine
        <2>2. CASE i \in {n, m} /\ j \in DOMAIN events
            BY <1>4, <2>2 DEF Extends
        <2>3. CASE i \in DOMAIN events /\ j \in {n, m}
            BY <1>2, <1>4, <1>7, <1>8, <2>3, AggregateShapes
        <2>4. CASE i \in {n, m} /\ j \in {n, m}
            <3>1. i # j
                <4>1. n < m /\ ~(n < n) /\ ~(m < m)
                    <5>1. Len(events) \in Nat
                        BY DEF TableInv, TypeOK
                    <5> QED
                        BY <5>1 DEF n, m
                <4> QED
                    BY <2>4, <4>1
            <3> QED
                BY <1>2, <1>4, <1>10, <2>4, <3>1
        <2> QED
            BY <1>7, <2>1, <2>2, <2>3, <2>4
    <1>15. WindowRespected'
        <2>1. \A e \in DOMAIN payments' : payments'[e].at < charges'[payments'[e].txid].expiresAt
            <3>1. now < charges[txid].expiresAt
                BY <1>5, TimeAssumption DEF TableInv, TypeOK, Typed, ChargeRow
            <3> QED
                BY <1>5, <1>6, <3>1 DEF WindowRespected, TableInv, SettledOnce
        <2>2. \A i \in DOMAIN events' : events'[i].type = "cob.expired" => i \in DOMAIN events
            BY <1>2, <1>4, <1>7
        <2> QED
            BY <1>5, <1>7, <2>1, <2>2 DEF WindowRespected
    <1> QED
        BY <1>1, <1>11, <1>12, <1>13, <1>14, <1>15

\* Any transaction of the store.
LEMMA LogStep ==
    ASSUME StoreLogInv, [Next]_storeVars
    PROVE  StoreLogInv'
    <1>1. CASE UNCHANGED storeVars
        <2>1. UNCHANGED <<charges, payments, refunds, webhooks, events>>
            BY <1>1 DEF storeVars
        <2>2. TableInv'
            BY <1>1, TablesStep DEF StoreLogInv
        <2> QED
            BY <2>1, <2>2 DEF StoreLogInv, LogAgrees, Stored, ReceiptsLogged, OwnersStored,
               LogFollowsMachine, WindowRespected
    <1>2. CASE Next
        BY <1>2, CreateLogged, ExpireLogged, SettleLogged, RefundLogged, OtherLogged
           DEF Next, Transaction
    <1> QED
        BY <1>1, <1>2

-----------------------------------------------------------------------------
(***************************************************************************)
(* The log counts what went back, cent by cent: each transaction.          *)
(***************************************************************************)
\* What an event on the log says by its type: whose it is, what it returns.
Worded(event) ==
    /\ event.type = "cob.settled" => event.agg[1] = "cob"
    /\ event.type = "pix.devolucao.settled" => event.body.cents \in Nat

\* The log accounts for every cent that went back.
LogCounts(pa, log) ==
    /\ \A i \in DOMAIN log : Worded(log[i])
    /\ \A e \in DOMAIN pa : pa[e].refunded = Cents(Bodies(log), ReturnsOf(log, e))

\* A sum over the log is over finitely many numbers.
LEMMA ReturnsTyped ==
    ASSUME NEW log \in Seq(Event), \A i \in DOMAIN log : Worded(log[i]), NEW e2e
    PROVE  /\ IsFiniteSet(ReturnsOf(log, e2e))
           /\ \A k \in ReturnsOf(log, e2e) : k \in DOMAIN log /\ Bodies(log)[k].cents \in Nat
    <1>1. DOMAIN log = 1..Len(log) /\ Len(log) \in Nat
        OBVIOUS
    <1>2. IsFiniteSet(DOMAIN log)
        BY <1>1, FS_Interval
    <1>3. ReturnsOf(log, e2e) \subseteq DOMAIN log
        BY DEF ReturnsOf, SettledReturns
    <1> QED
        BY <1>2, <1>3, FS_Subset DEF ReturnsOf, SettledReturns, Bodies, Worded

\* The events of a log that grows count for what they did.
LEMMA OldReturns ==
    ASSUME NEW log \in Seq(Event), \A i \in DOMAIN log : Worded(log[i]), NEW log2,
           Extends(log, log2), NEW e2e
    PROVE  Cents(Bodies(log2), ReturnsOf(log, e2e)) = Cents(Bodies(log), ReturnsOf(log, e2e))
    <1>1. \A k \in ReturnsOf(log, e2e) : k \in DOMAIN log /\ k \in DOMAIN log2 /\ log2[k] = log[k]
        BY DEF ReturnsOf, SettledReturns, Extends
    <1>2. \A k \in ReturnsOf(log, e2e) : Bodies(log2)[k].cents = Bodies(log)[k].cents
        BY <1>1 DEF Bodies
    <1> QED
        BY <1>2, ReturnsTyped, CentsSame

\* Old events stay worded, so a log is when its new events are.
LEMMA WordedAfter ==
    ASSUME NEW log, \A i \in DOMAIN log : Worded(log[i]), NEW log2, Extends(log, log2),
           \A n \in NewIds(log, log2) : Worded(log2[n])
    PROVE  \A i \in DOMAIN log2 : Worded(log2[i])
    BY DEF Extends, NewIds

\* Events about anything but what went back.
LEMMA CountsKept ==
    ASSUME NEW pa, NEW log \in Seq(Event), LogCounts(pa, log), NEW pa2, NEW log2,
           Extends(log, log2),
           \A n \in NewIds(log, log2) :
              Worded(log2[n]) /\ log2[n].type # "pix.devolucao.settled",
           \A e \in DOMAIN pa : pa2[e].refunded = pa[e].refunded,
           \A e \in DOMAIN pa2 \ DOMAIN pa : pa2[e].refunded = 0 /\ ReturnsOf(log, e) = {}
    PROVE  LogCounts(pa2, log2)
    <1>1. \A i \in DOMAIN log2 : Worded(log2[i])
        BY WordedAfter DEF LogCounts
    <1>2. \A e : ReturnsOf(log2, e) = ReturnsOf(log, e)
        BY DEF ReturnsOf, SettledReturns, Extends, NewIds
    <1>3. ASSUME NEW e \in DOMAIN pa2
          PROVE  pa2[e].refunded = Cents(Bodies(log2), ReturnsOf(log2, e))
        <2>1. CASE e \in DOMAIN pa
            <3>1. Cents(Bodies(log2), ReturnsOf(log, e)) = Cents(Bodies(log), ReturnsOf(log, e))
                BY OldReturns DEF LogCounts
            <3> QED
                BY <1>2, <2>1, <3>1 DEF LogCounts
        <2>2. CASE e \notin DOMAIN pa
            BY <1>2, <2>2, CentsOfNone
        <2> QED
            BY <2>1, <2>2
    <1> QED
        BY <1>1, <1>3 DEF LogCounts

\* One event that cents went back to the payer of e2e.
LEMMA CountsMore ==
    ASSUME NEW pa, NEW log \in Seq(Event), LogCounts(pa, log), NEW pa2, NEW log2,
           Extends(log, log2), NEW e2e \in DOMAIN pa, NEW cents \in Nat, NEW n,
           n \in NewIds(log, log2), log2[n].type = "pix.devolucao.settled",
           log2[n].agg = PaymentAggregate(e2e), log2[n].body.cents = cents,
           \A m \in NewIds(log, log2) :
              Worded(log2[m]) /\ (m # n => log2[m].type # "pix.devolucao.settled"),
           DOMAIN pa2 = DOMAIN pa, pa2[e2e].refunded = pa[e2e].refunded + cents,
           \A e \in DOMAIN pa : e # e2e => pa2[e].refunded = pa[e].refunded
    PROVE  LogCounts(pa2, log2)
    <1>1. \A i \in DOMAIN log2 : Worded(log2[i])
        BY WordedAfter DEF LogCounts
    <1>2. /\ ReturnsOf(log2, e2e) = ReturnsOf(log, e2e) \cup {n}
          /\ n \notin ReturnsOf(log, e2e) /\ n \in DOMAIN log2
        BY DEF ReturnsOf, SettledReturns, Extends, NewIds
    <1>3. \A e : e # e2e => ReturnsOf(log2, e) = ReturnsOf(log, e)
        BY AggregateShapes DEF ReturnsOf, SettledReturns, Extends, NewIds
    <1>4. \A e : Cents(Bodies(log2), ReturnsOf(log, e)) = Cents(Bodies(log), ReturnsOf(log, e))
        BY OldReturns DEF LogCounts
    <1>5. pa2[e2e].refunded = Cents(Bodies(log2), ReturnsOf(log2, e2e))
        <2> DEFINE S == ReturnsOf(log, e2e)
        <2>1. IsFiniteSet(S) /\ \A k \in S : k \in DOMAIN log /\ Bodies(log)[k].cents \in Nat
            BY ReturnsTyped DEF LogCounts
        <2>2. \A k \in S : Bodies(log2)[k] = Bodies(log)[k]
            BY <2>1 DEF Bodies, Extends
        <2>3. Bodies(log2)[n].cents = cents
            BY <1>2 DEF Bodies
        <2> HIDE DEF S
        <2>4. \A k \in S \cup {n} : Bodies(log2)[k].cents \in Nat
            BY <2>1, <2>2, <2>3
        <2>5. n \notin S
            BY <1>2 DEF S
        <2>6. Cents(Bodies(log2), S \cup {n}) = Cents(Bodies(log2), S) + Bodies(log2)[n].cents
            BY <2>1, <2>4, <2>5, CentsAdd
        <2> QED
            BY <1>2, <1>4, <2>3, <2>6 DEF LogCounts, S
    <1>6. \A e \in DOMAIN pa : e # e2e => pa2[e].refunded = Cents(Bodies(log2), ReturnsOf(log2, e))
        BY <1>3, <1>4 DEF LogCounts
    <1> QED
        BY <1>1, <1>5, <1>6 DEF LogCounts

\* A payment not yet stored has no event.
LEMMA NoReturnsYet ==
    ASSUME OwnersStored, NEW e, e \notin DOMAIN payments
    PROVE  ReturnsOf(events, e) = {}
    <1>1. ASSUME NEW i \in ReturnsOf(events, e)
          PROVE  FALSE
        <2>1. i \in DOMAIN events /\ events[i].agg = PaymentAggregate(e)
            BY <1>1 DEF ReturnsOf, SettledReturns
        <2>2. events[i].agg[1] = "pix"
            BY <2>1 DEF PaymentAggregate
        <2>3. PICK f \in DOMAIN payments : events[i].agg = PaymentAggregate(f)
            BY <2>1, <2>2 DEF OwnersStored
        <2> QED
            BY <2>1, <2>3, AggregateShapes
    <1> QED
        BY <1>1

\* A transaction that logs one event and leaves the payments alone.
LEMMA OneCounted ==
    ASSUME StoreLogInv, LogCounts(payments, events), NEW e, events' = Append(events, e),
           e.type \notin {"cob.settled", "pix.devolucao.settled"}, UNCHANGED payments
    PROVE  LogCounts(payments', events')
    <1>1. events \in Seq(Event)
        BY DEF StoreLogInv, TableInv, TypeOK
    <1>2. /\ Extends(events, events') /\ NewIds(events, events') = {Len(events) + 1}
          /\ events'[Len(events) + 1] = e
        BY <1>1, OneMore
    <1> QED
        BY <1>1, <1>2, CountsKept DEF Worded

\* Any transaction of the store.
LEMMA CountsStep ==
    ASSUME StoreLogInv, LogCounts(payments, events), [Next]_storeVars
    PROVE  LogCounts(payments', events')
    <1>1. events \in Seq(Event) /\ OwnersStored
        BY DEF StoreLogInv, TableInv, TypeOK
    <1>2. CASE UNCHANGED storeVars
        BY <1>2 DEF storeVars
    <1>3. ASSUME NEW txid, NEW now, NEW rnd, SettleCharge(txid, now, rnd)
          PROVE  LogCounts(payments', events')
        <2> DEFINE seq == NextNumber(PaymentSeqs)
                   e2e == NewE2EID(now, rnd, seq)
                   payment == NewPayment(txid, seq, now)
                   a == EventAt(PaymentAggregate(e2e), "pix.received", now, PaymentPayload(payment))
                   b == EventAt(ChargeAggregate(txid), "cob.settled", now,
                                [status |-> "CONCLUIDA", e2e |-> e2e, cents |-> payment.cents])
        <2>1. /\ e2e \notin DOMAIN payments /\ payments' = Insert(payments, e2e, payment)
              /\ events' = events \o <<a, b>>
            BY <1>3 DEF SettleCharge, PaymentAccepted
        <2>2. payment.refunded = 0
            BY DEF NewPayment
        <2>3. a.type = "pix.received" /\ b.type = "cob.settled" /\ b.agg[1] = "cob"
            BY DEF EventAt, ChargeAggregate
        <2> HIDE DEF e2e, payment, a, b
        <2>4. /\ Extends(events, events')
              /\ NewIds(events, events') = {Len(events) + 1, Len(events) + 2}
              /\ events'[Len(events) + 1] = a /\ events'[Len(events) + 2] = b
            BY <1>1, <2>1, TwoMore
        <2>5. /\ \A e \in DOMAIN payments : payments'[e] = payments[e]
              /\ \A e \in DOMAIN payments' \ DOMAIN payments : payments'[e].refunded = 0
            BY <2>1, <2>2 DEF Insert
        <2>6. \A e \in DOMAIN payments' \ DOMAIN payments : ReturnsOf(events, e) = {}
            BY <1>1, NoReturnsYet
        <2>7. \A n \in NewIds(events, events') :
                 Worded(events'[n]) /\ events'[n].type # "pix.devolucao.settled"
            BY <2>3, <2>4 DEF Worded
        <2> QED
            BY <1>1, <2>4, <2>5, <2>6, <2>7, CountsKept
    <1>4. ASSUME NEW e2e \in DOMAIN payments, NEW id, NEW cents \in Amount, NEW now, NEW rnd,
                 CreateRefund(e2e, id, cents, now, rnd)
          PROVE  LogCounts(payments', events')
        <2> DEFINE seq == NextNumber(RefundSeqs)
                   asked == RefundPayload(id, RefundAs("EM_PROCESSAMENTO", cents, seq, now, rnd))
                   done == RefundPayload(id, RefundAs("DEVOLVIDO", cents, seq, now, rnd))
                   a == EventAt(PaymentAggregate(e2e), "pix.devolucao.requested", now, asked)
                   b == EventAt(PaymentAggregate(e2e), "pix.devolucao.settled", now, done)
        <2>1. events' = events \o <<a, b>>
            BY <1>4 DEF CreateRefund, RefundTrail
        <2>2. done.cents = cents /\ cents \in Nat
            BY AmountAssumption DEF RefundPayload, RefundAs
        <2>3. /\ a.type = "pix.devolucao.requested" /\ b.type = "pix.devolucao.settled"
              /\ b.agg = PaymentAggregate(e2e) /\ b.body = done
            BY DEF EventAt
        <2>4. /\ DOMAIN payments' = DOMAIN payments
              /\ payments'[e2e].refunded = payments[e2e].refunded + cents
              /\ \A e \in DOMAIN payments : e # e2e => payments'[e] = payments[e]
            BY <1>4 DEF CreateRefund, RefundedAfter, StoreLogInv, TableInv, TypeOK, Typed,
               PaymentRow
        <2> HIDE DEF done, a, b
        <2>5. /\ Extends(events, events')
              /\ NewIds(events, events') = {Len(events) + 1, Len(events) + 2}
              /\ events'[Len(events) + 1] = a /\ events'[Len(events) + 2] = b
            BY <1>1, <2>1, TwoMore
        <2> DEFINE n == Len(events) + 2
        <2>6. /\ n \in NewIds(events, events') /\ events'[n] = b
              /\ \A m \in NewIds(events, events') :
                    Worded(events'[m]) /\ (m # n => events'[m].type # "pix.devolucao.settled")
            BY <2>2, <2>3, <2>5 DEF Worded
        <2> HIDE DEF n
        <2> QED
            BY <1>1, <2>2, <2>3, <2>4, <2>5, <2>6, CountsMore
    <1>5. ASSUME NEW txid, NEW cents, NEW chave, NEW window, NEW now,
                 CreateCharge(txid, cents, chave, window, now)
          PROVE  LogCounts(payments', events')
        <2>1. PICK agg, body : /\ events' = Append(events, EventAt(agg, "cob.created", now, body))
                               /\ UNCHANGED payments
            BY <1>5 DEF CreateCharge
        <2>2. EventAt(agg, "cob.created", now, body).type = "cob.created"
            BY DEF EventAt
        <2> QED
            BY <2>1, <2>2, OneCounted
    <1>6. ASSUME NEW txid, NEW now, ExpireCharge(txid, now)
          PROVE  LogCounts(payments', events')
        <2>1. PICK agg, body : /\ events' = Append(events, EventAt(agg, "cob.expired", now, body))
                               /\ UNCHANGED payments
            BY <1>6 DEF ExpireCharge
        <2>2. EventAt(agg, "cob.expired", now, body).type = "cob.expired"
            BY DEF EventAt
        <2> QED
            BY <2>1, <2>2, OneCounted
    <1>7. ASSUME NEW chave, NEW url, NEW now, PutWebhook(chave, url, now)
          PROVE  LogCounts(payments', events')
        <2>1. PICK agg, body :
                 /\ events' = Append(events, EventAt(agg, "webhook.registered", now, body))
                 /\ UNCHANGED payments
            BY <1>7 DEF PutWebhook
        <2>2. EventAt(agg, "webhook.registered", now, body).type = "webhook.registered"
            BY DEF EventAt
        <2> QED
            BY <2>1, <2>2, OneCounted
    <1>8. ASSUME NEW now, AppendNote(now)
          PROVE  LogCounts(payments', events')
        <2>1. PICK agg, type : AppendEvent(agg, type, now) /\ type \in NoteType
            BY <1>8 DEF AppendNote, NoteType
        <2>2. /\ events' = Append(events, EventAt(agg, type, now, <<>>)) /\ UNCHANGED payments
              /\ EventAt(agg, type, now, <<>>).type = type
            BY <2>1 DEF AppendEvent, EventAt, tables
        <2> QED
            BY <2>1, <2>2, OneCounted DEF NoteType
    <1>9. CASE Next
        <2>1. PICK now \in Time : Transaction(now)
            BY <1>9 DEF Next
        <2> QED
            BY <1>3, <1>4, <1>5, <1>6, <1>7, <1>8, <2>1 DEF Transaction
    <1> QED
        BY <1>2, <1>9

-----------------------------------------------------------------------------
(***************************************************************************)
(* The trail of a refund: its request and its settlement, once each.  What *)
(* makes that inductive is the converse, that such an event is of a refund *)
(* that is stored: an identifier that is new has no event yet.             *)
(***************************************************************************)
RefundTypes == {"pix.devolucao.requested", "pix.devolucao.settled"}

RefundsIn(log, key, type) ==
    {i \in DOMAIN log :
        /\ log[i].type = type /\ log[i].agg = PaymentAggregate(key[1])
        /\ log[i].body.id = key[2]}

\* The row as it was asked for.
Requested(body) == [body EXCEPT !.status = "EM_PROCESSAMENTO"]

Trailed(log, key, row) ==
    \E i, j \in DOMAIN log :
        /\ RefundsIn(log, key, "pix.devolucao.requested") = {i}
        /\ RefundsIn(log, key, "pix.devolucao.settled") = {j}
        /\ i < j
        /\ log[i].body = Requested(RefundPayload(key[2], row))
        /\ log[j].body = RefundPayload(key[2], row)

RefundsTrailed(re, log) ==
    /\ \A key \in DOMAIN re : key = <<key[1], key[2]>> /\ Trailed(log, key, re[key])
    /\ \A i \in DOMAIN log : log[i].type \in RefundTypes =>
          \E key \in DOMAIN re : i \in RefundsIn(log, key, log[i].type)

\* A refund whose events stay the only ones keeps its trail.
LEMMA TrailStays ==
    ASSUME NEW log, NEW log2, Extends(log, log2), NEW key, NEW row, Trailed(log, key, row),
           \A type \in RefundTypes : RefundsIn(log2, key, type) = RefundsIn(log, key, type)
    PROVE  Trailed(log2, key, row)
    <1>1. PICK i \in DOMAIN log, j \in DOMAIN log :
              /\ RefundsIn(log, key, "pix.devolucao.requested") = {i}
              /\ RefundsIn(log, key, "pix.devolucao.settled") = {j}
              /\ i < j
              /\ log[i].body = Requested(RefundPayload(key[2], row))
              /\ log[j].body = RefundPayload(key[2], row)
        BY DEF Trailed
    <1>2. /\ i \in DOMAIN log2 /\ log2[i] = log[i]
          /\ j \in DOMAIN log2 /\ log2[j] = log[j]
        BY <1>1 DEF Extends
    <1>3. /\ RefundsIn(log2, key, "pix.devolucao.requested") = {i}
          /\ RefundsIn(log2, key, "pix.devolucao.settled") = {j}
        BY <1>1 DEF RefundTypes
    <1> QED
        BY <1>1, <1>2, <1>3 DEF Trailed

\* Events that are of no refund.
LEMMA TrailsKept ==
    ASSUME NEW re, NEW log, NEW log2, RefundsTrailed(re, log), Extends(log, log2),
           \A n \in NewIds(log, log2) : log2[n].type \notin RefundTypes
    PROVE  RefundsTrailed(re, log2)
    <1>1. ASSUME NEW key, NEW type \in RefundTypes
          PROVE  RefundsIn(log2, key, type) = RefundsIn(log, key, type)
        BY DEF RefundsIn, Extends, NewIds
    <1>2. \A key \in DOMAIN re : key = <<key[1], key[2]>> /\ Trailed(log2, key, re[key])
        BY <1>1, TrailStays DEF RefundsTrailed
    <1>3. ASSUME NEW i \in DOMAIN log2, log2[i].type \in RefundTypes
          PROVE  \E key \in DOMAIN re : i \in RefundsIn(log2, key, log2[i].type)
        <2>1. i \in DOMAIN log /\ log2[i] = log[i]
            BY <1>3 DEF Extends, NewIds
        <2> QED
            BY <1>1, <1>3, <2>1 DEF RefundsTrailed
    <1> QED
        BY <1>2, <1>3 DEF RefundsTrailed

\* The two events of a refund that is new.
LEMMA TrailsMore ==
    ASSUME NEW re, NEW log, NEW log2, RefundsTrailed(re, log), Extends(log, log2),
           NEW e2e, NEW id, <<e2e, id>> \notin DOMAIN re, NEW row,
           NEW n, NEW m, n < m, n # m, NewIds(log, log2) = {n, m},
           log2[n].type = "pix.devolucao.requested", log2[n].agg = PaymentAggregate(e2e),
           log2[m].type = "pix.devolucao.settled", log2[m].agg = PaymentAggregate(e2e),
           log2[n].body = Requested(RefundPayload(id, row)),
           log2[m].body = RefundPayload(id, row)
    PROVE  RefundsTrailed(Insert(re, <<e2e, id>>, row), log2)
    <1> DEFINE new == <<e2e, id>>
               re2 == Insert(re, new, row)
    <1>1. log2[n].body.id = id /\ log2[m].body.id = id
        BY DEF RefundPayload, Requested
    <1>2. n \in DOMAIN log2 /\ m \in DOMAIN log2 /\ n \notin DOMAIN log /\ m \notin DOMAIN log
        BY DEF NewIds
    <1>3. \A i \in DOMAIN log : i \in DOMAIN log2 /\ log2[i] = log[i]
        BY DEF Extends
    <1>4. \A i \in DOMAIN log2 : i \in DOMAIN log \/ i = n \/ i = m
        BY DEF NewIds
    <1>5. new[1] = e2e /\ new[2] = id
        OBVIOUS
    <1>6. DOMAIN re2 = DOMAIN re \cup {new} /\ re2[new] = row /\ \A key \in DOMAIN re : re2[key] = re[key]
        BY DEF Insert
    <1> HIDE DEF new, re2
    <1>7. ASSUME NEW key, key = <<key[1], key[2]>>, key # new, NEW type
          PROVE  RefundsIn(log2, key, type) = RefundsIn(log, key, type)
        <2>1. ~(key[1] = e2e /\ key[2] = id)
            BY <1>7 DEF new
        <2>2. ~(PaymentAggregate(e2e) = PaymentAggregate(key[1]) /\ id = key[2])
            BY <2>1, AggregateShapes
        <2> QED
            BY <1>1, <1>2, <1>3, <1>4, <2>2 DEF RefundsIn
    <1>8. ASSUME NEW i \in DOMAIN log, log[i].type \in RefundTypes
          PROVE  ~(log[i].agg = PaymentAggregate(e2e) /\ log[i].body.id = id)
        <2>1. PICK key \in DOMAIN re : i \in RefundsIn(log, key, log[i].type)
            BY <1>8 DEF RefundsTrailed
        <2>2. log[i].agg = PaymentAggregate(key[1]) /\ log[i].body.id = key[2]
            BY <2>1 DEF RefundsIn
        <2>3. key = <<key[1], key[2]>> /\ key # <<e2e, id>>
            BY <2>1 DEF RefundsTrailed
        <2> QED
            BY <2>2, <2>3, AggregateShapes
    <1>9. /\ RefundsIn(log2, new, "pix.devolucao.requested") = {n}
          /\ RefundsIn(log2, new, "pix.devolucao.settled") = {m}
        <2>1. ASSUME NEW type \in RefundTypes, NEW i \in DOMAIN log2
              PROVE  i \in RefundsIn(log2, new, type) <=> i \in {n, m} /\ log2[i].type = type
            <3>1. i \in RefundsIn(log2, new, type) <=>
                     /\ log2[i].type = type /\ log2[i].agg = PaymentAggregate(e2e)
                     /\ log2[i].body.id = id
                BY <1>5 DEF RefundsIn
            <3>2. CASE i \in DOMAIN log
                <4>1. i \notin {n, m} /\ log2[i] = log[i]
                    BY <1>2, <1>3, <3>2
                <4> QED
                    BY <1>8, <3>1, <3>2, <4>1
            <3>3. CASE i \in {n, m}
                BY <1>1, <3>1, <3>3
            <3> QED
                BY <1>4, <3>2, <3>3
        <2>2. \A type : RefundsIn(log2, new, type) \subseteq DOMAIN log2
            BY DEF RefundsIn
        <2> QED
            BY <1>2, <2>1, <2>2 DEF RefundTypes
    <1>10. new = <<new[1], new[2]>> /\ Trailed(log2, new, row)
        BY <1>2, <1>5, <1>9 DEF Trailed, new
    <1>11. ASSUME NEW key \in DOMAIN re
           PROVE  key = <<key[1], key[2]>> /\ Trailed(log2, key, re[key])
        <2>1. key = <<key[1], key[2]>> /\ key # new /\ Trailed(log, key, re[key])
            BY <1>11 DEF RefundsTrailed, new
        <2> QED
            BY <1>7, <2>1, TrailStays
    <1>12. \A key \in DOMAIN re2 : key = <<key[1], key[2]>> /\ Trailed(log2, key, re2[key])
        BY <1>6, <1>10, <1>11
    <1>13. ASSUME NEW i \in DOMAIN log2, log2[i].type \in RefundTypes
           PROVE  \E key \in DOMAIN re2 : i \in RefundsIn(log2, key, log2[i].type)
        <2>1. CASE i = n \/ i = m
            BY <1>6, <1>9, <2>1
        <2>2. CASE i \in DOMAIN log
            <3>1. PICK key \in DOMAIN re : i \in RefundsIn(log, key, log[i].type)
                BY <1>3, <1>13, <2>2 DEF RefundsTrailed
            <3>2. key = <<key[1], key[2]>> /\ key # new
                BY DEF RefundsTrailed, new
            <3> QED
                BY <1>3, <1>6, <1>7, <2>2, <3>1, <3>2
        <2> QED
            BY <1>4, <2>1, <2>2
    <1> QED
        BY <1>12, <1>13 DEF RefundsTrailed, re2, new

\* CreateRefund stores one refund that is new and logs its two events.
LEMMA RefundTrails ==
    ASSUME TypeOK, RefundsTrailed(refunds, events), NEW e2e, NEW id, NEW cents, NEW now, NEW rnd,
           CreateRefund(e2e, id, cents, now, rnd)
    PROVE  RefundsTrailed(refunds', events')
    <1> DEFINE seq == NextNumber(RefundSeqs)
               requested == RefundAs("EM_PROCESSAMENTO", cents, seq, now, rnd)
               settled == RefundAs("DEVOLVIDO", cents, seq, now, rnd)
               asked == RefundPayload(id, requested)
               done == RefundPayload(id, settled)
               a == EventAt(PaymentAggregate(e2e), "pix.devolucao.requested", now, asked)
               b == EventAt(PaymentAggregate(e2e), "pix.devolucao.settled", now, done)
               n == Len(events) + 1
               m == Len(events) + 2
    <1>1. /\ refunds' = Insert(refunds, <<e2e, id>>, settled) /\ events' = events \o <<a, b>>
          /\ <<e2e, id>> \notin DOMAIN refunds
        BY DEF CreateRefund, RefundTrail, RefundAccepted
    <1>2. asked = Requested(done)
        BY DEF RefundPayload, RefundAs, Requested
    <1>3. /\ a.type = "pix.devolucao.requested" /\ a.agg = PaymentAggregate(e2e) /\ a.body = asked
          /\ b.type = "pix.devolucao.settled" /\ b.agg = PaymentAggregate(e2e) /\ b.body = done
        BY DEF EventAt
    <1>4. events \in Seq(Event) /\ n < m /\ n # m
        <2>1. Len(events) \in Nat /\ events \in Seq(Event)
            BY DEF TypeOK
        <2> QED
            BY <2>1
    <1> HIDE DEF requested, settled, asked, a, b
    <1>5. /\ Extends(events, events') /\ NewIds(events, events') = {n, m}
          /\ events'[n] = a /\ events'[m] = b
        BY <1>1, <1>4, TwoMore
    <1> HIDE DEF n, m
    <1>6. /\ events'[n].body = Requested(RefundPayload(id, settled))
          /\ events'[m].body = RefundPayload(id, settled)
        BY <1>2, <1>3, <1>5
    <1>7. /\ events'[n].type = "pix.devolucao.requested" /\ events'[n].agg = PaymentAggregate(e2e)
          /\ events'[m].type = "pix.devolucao.settled" /\ events'[m].agg = PaymentAggregate(e2e)
        BY <1>3, <1>5
    <1> HIDE DEF done
    <1>8. RefundsTrailed(Insert(refunds, <<e2e, id>>, settled), events')
        BY <1>1, <1>4, <1>5, <1>6, <1>7, TrailsMore
    <1> QED
        BY <1>1, <1>8

\* Any transaction of the store.
LEMMA TrailsStep ==
    ASSUME TypeOK, RefundsTrailed(refunds, events), [Next]_storeVars
    PROVE  RefundsTrailed(refunds', events')
    <1>1. events \in Seq(Event)
        BY DEF TypeOK
    <1>2. ASSUME NEW e, events' = Append(events, e), e.type \notin RefundTypes, UNCHANGED refunds
          PROVE  RefundsTrailed(refunds', events')
        <2>1. /\ Extends(events, events') /\ NewIds(events, events') = {Len(events) + 1}
              /\ events'[Len(events) + 1] = e
            BY <1>1, <1>2, OneMore
        <2> QED
            BY <1>2, <2>1, TrailsKept
    <1>3. CASE UNCHANGED storeVars
        BY <1>3 DEF storeVars
    <1>4. ASSUME NEW txid, NEW now, NEW rnd, SettleCharge(txid, now, rnd)
          PROVE  RefundsTrailed(refunds', events')
        <2>1. PICK agg, body, agg2, body2 :
                 /\ events' = events \o <<EventAt(agg, "pix.received", now, body),
                                          EventAt(agg2, "cob.settled", now, body2)>>
                 /\ UNCHANGED refunds
            BY <1>4 DEF SettleCharge
        <2> DEFINE a == EventAt(agg, "pix.received", now, body)
                   b == EventAt(agg2, "cob.settled", now, body2)
        <2>2. a.type \notin RefundTypes /\ b.type \notin RefundTypes
            BY DEF EventAt, RefundTypes
        <2>3. events' = events \o <<a, b>>
            BY <2>1
        <2> HIDE DEF a, b
        <2>4. /\ Extends(events, events')
              /\ NewIds(events, events') = {Len(events) + 1, Len(events) + 2}
              /\ events'[Len(events) + 1] = a /\ events'[Len(events) + 2] = b
            BY <1>1, <2>3, TwoMore
        <2> QED
            BY <2>1, <2>2, <2>4, TrailsKept
    <1>5. ASSUME NEW e2e, NEW id, NEW cents, NEW now, NEW rnd,
                 CreateRefund(e2e, id, cents, now, rnd)
          PROVE  RefundsTrailed(refunds', events')
        BY <1>5, RefundTrails
    <1>6. ASSUME NEW agg, NEW type, type \notin RefundTypes, NEW now, NEW body,
                 events' = Append(events, EventAt(agg, type, now, body)), UNCHANGED refunds
          PROVE  RefundsTrailed(refunds', events')
        <2>1. EventAt(agg, type, now, body).type = type
            BY DEF EventAt
        <2> QED
            BY <1>2, <1>6, <2>1
    <1>7. ASSUME NEW txid, NEW cents, NEW chave, NEW window, NEW now,
                 CreateCharge(txid, cents, chave, window, now)
          PROVE  RefundsTrailed(refunds', events')
        <2>1. PICK agg, body : /\ events' = Append(events, EventAt(agg, "cob.created", now, body))
                               /\ UNCHANGED refunds
            BY <1>7 DEF CreateCharge
        <2> QED
            BY <1>6, <2>1 DEF RefundTypes
    <1>8. ASSUME NEW txid, NEW now, ExpireCharge(txid, now)
          PROVE  RefundsTrailed(refunds', events')
        <2>1. PICK agg, body : /\ events' = Append(events, EventAt(agg, "cob.expired", now, body))
                               /\ UNCHANGED refunds
            BY <1>8 DEF ExpireCharge
        <2> QED
            BY <1>6, <2>1 DEF RefundTypes
    <1>9. ASSUME NEW chave, NEW url, NEW now, PutWebhook(chave, url, now)
          PROVE  RefundsTrailed(refunds', events')
        <2>1. PICK agg, body :
                 /\ events' = Append(events, EventAt(agg, "webhook.registered", now, body))
                 /\ UNCHANGED refunds
            BY <1>9 DEF PutWebhook
        <2> QED
            BY <1>6, <2>1 DEF RefundTypes
    <1>10. ASSUME NEW now, AppendNote(now)
           PROVE  RefundsTrailed(refunds', events')
        <2>1. PICK agg, type : AppendEvent(agg, type, now) /\ type \in NoteType
            BY <1>10 DEF AppendNote, NoteType
        <2>2. events' = Append(events, EventAt(agg, type, now, <<>>)) /\ UNCHANGED refunds
            BY <2>1 DEF AppendEvent, tables
        <2> QED
            BY <1>6, <2>1, <2>2 DEF RefundTypes, NoteType
    <1>11. CASE Next
        <2>1. PICK now \in Time : Transaction(now)
            BY <1>11 DEF Next
        <2> QED
            BY <1>4, <1>5, <1>7, <1>8, <1>9, <1>10, <2>1 DEF Transaction
    <1> QED
        BY <1>3, <1>11

-----------------------------------------------------------------------------
(***************************************************************************)
(* The theorems.                                                           *)
(***************************************************************************)
LEMMA LogStarts ==
    ASSUME Init
    PROVE  StoreLogInv
    <1>1. DOMAIN charges = {} /\ DOMAIN payments = {} /\ DOMAIN events = {}
        BY DEF Init, Empty
    <1> QED
        BY <1>1, InitTables DEF StoreLogInv, LogAgrees, Stored, Has, ReceiptsLogged,
           OwnersStored, LogFollowsMachine, WindowRespected

\* The log and the tables agree in every reachable state.
THEOREM LogCorrect == Spec => []StoreLogInv
    <1>1. Init => StoreLogInv
        BY LogStarts
    <1>2. StoreLogInv /\ [Next]_storeVars => StoreLogInv'
        BY LogStep
    <1> QED
        BY <1>1, <1>2, PTL DEF Spec

\* REFUNDED says that the log has all of a payment going back.
LEMMA ReturnsLogged ==
    ASSUME TableInv, LogCounts(payments, events)
    PROVE  \A e \in DOMAIN payments :
               payments[e].status = "REFUNDED" <=> ReturnedOnLog(e) = payments[e].cents
    <1> SUFFICES ASSUME NEW e \in DOMAIN payments
                 PROVE  payments[e].status = "REFUNDED" <=> ReturnedOnLog(e) = payments[e].cents
        OBVIOUS
    <1>1. payments[e].status = "REFUNDED" <=> payments[e].refunded = payments[e].cents
        BY DEF TableInv, RefundCap
    <1>2. ReturnedOnLog(e) = Cents(Bodies(events), ReturnsOf(events, e))
        BY DEF ReturnedOnLog, Cents
    <1> QED
        BY <1>1, <1>2 DEF LogCounts

\* INV-3: each state that a charge, a payment or a refund has reached is on the log,
\* and nothing else is.
THEOREM StatesLogged == Spec => []StateIsLogged
    <1> DEFINE Accounts == LogCounts(payments, events) /\ RefundsTrailed(refunds, events)
    <1>1. Init => Accounts
        BY DEF Init, Empty, LogCounts, RefundsTrailed
    <1>2. StoreLogInv /\ Accounts /\ [Next]_storeVars => Accounts'
        BY CountsStep, TrailsStep DEF StoreLogInv, TableInv
    <1>3. StoreLogInv /\ Accounts => StateIsLogged
        <2> SUFFICES ASSUME StoreLogInv, Accounts
                     PROVE  StateIsLogged
            OBVIOUS
        <2>1. ChargesAreLogged
            BY DEF StoreLogInv, LogAgrees, Stored, Has, ChargesAreLogged, Occurs
        <2>2. \A e \in DOMAIN payments :
                 payments[e].status = "REFUNDED" <=> ReturnedOnLog(e) = payments[e].cents
            BY ReturnsLogged DEF StoreLogInv
        <2>3. PaymentsAreLogged
            BY <2>2, AggregateShapes DEF StoreLogInv, Has, ReceiptsLogged, OwnersStored,
               PaymentsAreLogged, Occurs
        <2>4. RefundsAreLogged
            BY DEF RefundsTrailed, Trailed, RefundsIn, RefundTypes, Requested,
               RefundsAreLogged, RefundEvents
        <2> QED
            BY <2>1, <2>3, <2>4 DEF StateIsLogged
    <1> HIDE DEF Accounts
    <1> QED
        BY <1>1, <1>2, <1>3, LogCorrect, PTL DEF Spec

\* INV-3: the events of a charge and of a payment are in the order of their machine.
THEOREM LogOrdered == Spec => []LogFollowsMachine
    <1>1. StoreLogInv => LogFollowsMachine
        BY DEF StoreLogInv
    <1> QED
        BY <1>1, LogCorrect, PTL

\* SettleCharge settles inside the window and ExpireCharge expires past it.
THEOREM WindowKept == Spec => []WindowRespected
    <1>1. StoreLogInv => WindowRespected
        BY DEF StoreLogInv
    <1> QED
        BY <1>1, LogCorrect, PTL

-----------------------------------------------------------------------------
(***************************************************************************)
(* The log replayed: FoldLeft takes the last event last.                   *)
(***************************************************************************)
Replays(h, log) ==
    h = [s \in SUBSET DOMAIN log |->
            IF s = {} THEN Nothing ELSE Apply(h[s \ {Max(s)}], log[Max(s)])]

\* A log has a replay, and each comes to db.
Rebuilds(log, db) ==
    /\ \E h : Replays(h, log)
    /\ \A h : Replays(h, log) => h[DOMAIN log] = db

\* The empty log replays to the empty database.
LEMMA ReplayOfNone == Rebuilds(<<>>, Nothing)
    <1> DEFINE h == [s \in SUBSET {} |-> Nothing]
    <1>1. DOMAIN <<>> = {}
        OBVIOUS
    <1>2. Replays(h, <<>>)
        BY <1>1 DEF Replays
    <1>3. ASSUME NEW k, Replays(k, <<>>) PROVE k[DOMAIN <<>>] = Nothing
        BY <1>1, <1>3 DEF Replays
    <1> QED
        BY <1>2, <1>3 DEF Rebuilds

\* One more event: its tables are those before it, and what it says.
LEMMA ReplayOfOneMore ==
    ASSUME NEW S, NEW log \in Seq(S), NEW db, Rebuilds(log, db), NEW e \in S
    PROVE  Rebuilds(Append(log, e), Apply(db, e))
    <1> DEFINE n == Len(log)
               more == Append(log, e)
    <1>1. /\ n \in Nat /\ DOMAIN log = 1..n /\ DOMAIN more = 1..(n + 1)
          /\ more[n + 1] = e /\ \A i \in 1..n : more[i] = log[i]
        OBVIOUS
    <1> HIDE DEF n, more
    <1>2. \A s \in SUBSET (1..n) : s # {} => Max(s) \in 1..n
        <2>1. ASSUME NEW s \in SUBSET (1..n), s # {}
              PROVE  Max(s) \in 1..n
            <3>1. s \subseteq Int /\ n \in Int /\ \A x \in s : x <= n
                BY <1>1
            <3> QED
                BY <2>1, <3>1, MaxIs
        <2> QED
            BY <2>1
    <1>3. \A s \in SUBSET (1..(n + 1)) : n + 1 \in s => Max(s) = n + 1
        <2>1. ASSUME NEW s \in SUBSET (1..(n + 1)), n + 1 \in s
              PROVE  Max(s) = n + 1
            <3>1. s \subseteq Int /\ n + 1 \in Int /\ \A x \in s : x <= n + 1
                BY <1>1
            <3>2. Max(s) \in s /\ Max(s) >= n + 1
                BY <2>1, <3>1, MaxIs
            <3>3. ASSUME NEW m \in 1..(n + 1), m >= n + 1 PROVE m = n + 1
                BY <1>1, <3>3
            <3> QED
                BY <3>2, <3>3
        <2> QED
            BY <2>1
    <1>4. \A s \in SUBSET (1..(n + 1)) : s \ {n + 1} \in SUBSET (1..n)
        <2>1. \A x \in 1..(n + 1) : x # n + 1 => x \in 1..n
            BY <1>1
        <2> QED
            BY <2>1
    <1>5. \A s \in SUBSET (1..n) : n + 1 \notin s /\ s \in SUBSET (1..(n + 1))
        BY <1>1
    <1>6. \E h : Replays(h, more)
        <2>1. PICK h : Replays(h, log)
            BY DEF Rebuilds
        <2> DEFINE k == [s \in SUBSET (1..(n + 1)) |->
                            IF n + 1 \in s THEN Apply(h[s \ {n + 1}], e) ELSE h[s]]
        <2>2. ASSUME NEW s \in SUBSET (1..(n + 1))
              PROVE  k[s] = IF s = {} THEN Nothing ELSE Apply(k[s \ {Max(s)}], more[Max(s)])
            <3>1. CASE n + 1 \in s
                <4>1. k[s] = Apply(h[s \ {n + 1}], e) /\ k[s \ {n + 1}] = h[s \ {n + 1}]
                    BY <1>4, <1>5, <3>1
                <4> HIDE DEF k
                <4> QED
                    BY <1>1, <1>3, <3>1, <4>1
            <3>2. CASE n + 1 \notin s
                <4>1. s \in SUBSET (1..n)
                    BY <1>4, <3>2
                <4>2. k[s] = h[s] /\ k[s \ {Max(s)}] = h[s \ {Max(s)}]
                    BY <1>5, <4>1
                <4>3. h[s] = IF s = {} THEN Nothing ELSE Apply(h[s \ {Max(s)}], log[Max(s)])
                    BY <1>1, <2>1, <4>1 DEF Replays
                <4>4. s # {} => log[Max(s)] = more[Max(s)]
                    BY <1>1, <1>2, <4>1
                <4> HIDE DEF k
                <4> QED
                    BY <4>2, <4>3, <4>4
            <3> QED
                BY <3>1, <3>2
        <2>3. k = [s \in SUBSET (1..(n + 1)) |-> k[s]]
            OBVIOUS
        <2> HIDE DEF k
        <2>4. Replays(k, more)
            BY <1>1, <2>2, <2>3 DEF Replays
        <2> QED
            BY <2>4
    <1>7. ASSUME NEW k, Replays(k, more)
          PROVE  k[DOMAIN more] = Apply(db, e)
        <2>1. \A s \in SUBSET (1..(n + 1)) :
                 k[s] = IF s = {} THEN Nothing ELSE Apply(k[s \ {Max(s)}], more[Max(s)])
            BY <1>1, <1>7 DEF Replays
        <2> DEFINE h == [s \in SUBSET (1..n) |-> k[s]]
        <2>2. ASSUME NEW s \in SUBSET (1..n)
              PROVE  h[s] = IF s = {} THEN Nothing ELSE Apply(h[s \ {Max(s)}], log[Max(s)])
            <3>1. k[s] = IF s = {} THEN Nothing ELSE Apply(k[s \ {Max(s)}], more[Max(s)])
                BY <1>5, <2>1
            <3>2. h[s] = k[s] /\ h[s \ {Max(s)}] = k[s \ {Max(s)}]
                OBVIOUS
            <3>3. s # {} => log[Max(s)] = more[Max(s)]
                BY <1>1, <1>2
            <3> HIDE DEF h
            <3> QED
                BY <3>1, <3>2, <3>3
        <2>3. h = [s \in SUBSET (1..n) |-> h[s]] /\ h[1..n] = k[1..n]
            OBVIOUS
        <2> HIDE DEF h
        <2>4. Replays(h, log)
            BY <1>1, <2>2, <2>3 DEF Replays
        <2>5. h[1..n] = db
            BY <1>1, <2>4 DEF Rebuilds
        <2>6. 1..(n + 1) # {} /\ (1..(n + 1)) \ {n + 1} = 1..n /\ Max(1..(n + 1)) = n + 1
            <3>1. /\ \A x : x \in 1..(n + 1) <=> x \in 1..n \/ x = n + 1
                  /\ n + 1 \notin 1..n
                BY <1>1
            <3> QED
                BY <1>3, <3>1
        <2>7. k[1..(n + 1)] = Apply(k[1..n], e)
            BY <1>1, <2>1, <2>6
        <2> QED
            BY <1>1, <2>3, <2>5, <2>7
    <1> QED
        BY <1>6, <1>7 DEF Rebuilds, more

\* What each type of event is replayed as.
LEMMA AppliesAs ==
    ASSUME NEW db, NEW e
    PROVE  /\ e.type = "cob.created" => Apply(db, e) = ApplyCreated(db, e.agg[2], e.body)
           /\ e.type = "cob.expired" => Apply(db, e) = ApplyExpired(db, e.agg[2])
           /\ e.type = "cob.settled" => Apply(db, e) = ApplySettled(db, e.agg[2], e.body)
           /\ e.type = "pix.received" => Apply(db, e) = ApplyReceived(db, e.agg[2], e.body)
           /\ e.type = "pix.devolucao.requested" =>
                 Apply(db, e) = ApplyRefund(db, e.agg[2], e.body, e.at)
           /\ e.type = "pix.devolucao.settled" =>
                 Apply(db, e) =
                    CountRefund(ApplyRefund(db, e.agg[2], e.body, e.at), e.agg[2], e.body)
           /\ e.type = "webhook.registered" =>
                 Apply(db, e) = ApplyRegistered(db, e.agg[2], e.body, e.at)
           /\ e.type \in NoteType => Apply(db, e) = db
    BY Zenon DEF Apply, NoteType

\* The database, as PixReplay rebuilds it.
Rows == [charges |-> charges, payments |-> payments, refunds |-> refunds, webhooks |-> webhooks]

\* CreateCharge: cob.created carries the whole row.
LEMMA CreateReplays ==
    ASSUME NEW txid, NEW cents, NEW chave, NEW window, NEW now,
           CreateCharge(txid, cents, chave, window, now)
    PROVE  \E e : events' = Append(events, e) /\ Rows' = Apply(Rows, e)
    <1> DEFINE charge == NewCharge(cents, chave, window, now)
               body == ChargePayload(charge)
               e == EventAt(ChargeAggregate(txid), "cob.created", now, body)
    <1>1. /\ charges' = Insert(charges, txid, charge) /\ events' = Append(events, e)
          /\ UNCHANGED <<payments, refunds, webhooks>>
        BY DEF CreateCharge
    <1>2. charge = [status |-> body.status, cents |-> body.cents, chave |-> body.chave,
                    locId |-> body.locId, revisao |-> 0, createdAt |-> body.createdAt,
                    expiresAt |-> body.expiresAt]
        BY DEF ChargePayload, NewCharge
    <1>3. e.type = "cob.created" /\ e.agg[2] = txid /\ e.body = body
        BY DEF EventAt, ChargeAggregate
    <1> HIDE DEF charge, body, e
    <1>4. Apply(Rows, e) = ApplyCreated(Rows, txid, body)
        BY <1>3, AppliesAs
    <1>5. ApplyCreated(Rows, txid, body) = Rows'
        BY <1>1, <1>2 DEF ApplyCreated, Rows
    <1> QED
        BY <1>1, <1>4, <1>5

\* ExpireCharge: cob.expired says only that it happened.
LEMMA ExpireReplays ==
    ASSUME NEW txid, NEW now, ExpireCharge(txid, now)
    PROVE  \E e : events' = Append(events, e) /\ Rows' = Apply(Rows, e)
    <1> DEFINE body == [expiresAt |-> charges[txid].expiresAt, observedAt |-> now]
               e == EventAt(ChargeAggregate(txid), "cob.expired", now, body)
    <1>1. /\ charges' = [charges EXCEPT ![txid].status = "EXPIRADA"] /\ events' = Append(events, e)
          /\ UNCHANGED <<payments, refunds, webhooks>>
        BY DEF ExpireCharge
    <1>3. e.type = "cob.expired" /\ e.agg[2] = txid
        BY DEF EventAt, ChargeAggregate
    <1> HIDE DEF body, e
    <1>4. Apply(Rows, e) = ApplyExpired(Rows, txid)
        BY <1>3, AppliesAs
    <1>5. ApplyExpired(Rows, txid) = Rows'
        BY <1>1 DEF Rows, ApplyExpired
    <1> QED
        BY <1>1, <1>4, <1>5

\* SettleCharge: pix.received carries the payment, cob.settled the new status.
LEMMA SettleReplays ==
    ASSUME TypeOK, NEW txid, NEW now, NEW rnd, SettleCharge(txid, now, rnd)
    PROVE  \E a, b : events' = Append(Append(events, a), b) /\ Rows' = Apply(Apply(Rows, a), b)
    <1> DEFINE seq == NextNumber(PaymentSeqs)
               e2e == NewE2EID(now, rnd, seq)
               payment == NewPayment(txid, seq, now)
               got == PaymentPayload(payment)
               a == EventAt(PaymentAggregate(e2e), "pix.received", now, got)
               done == [status |-> "CONCLUIDA", e2e |-> e2e, cents |-> payment.cents]
               b == EventAt(ChargeAggregate(txid), "cob.settled", now, done)
               mid == [charges |-> charges, payments |-> payments', refunds |-> refunds,
                       webhooks |-> webhooks]
    <1>1. /\ payments' = Insert(payments, e2e, payment)
          /\ charges' = [charges EXCEPT ![txid].status = "CONCLUIDA", ![txid].revisao = @ + 1]
          /\ events' = events \o <<a, b>> /\ UNCHANGED <<refunds, webhooks>>
          /\ txid \in DOMAIN charges
        BY DEF SettleCharge
    <1>2. payment = [seq |-> e2e.seq, txid |-> got.txid, chave |-> got.chave,
                     status |-> got.status, cents |-> got.cents, refunded |-> 0, at |-> got.horario]
        BY DEF PaymentPayload, NewPayment, NewE2EID, TransactionId
    <1>3. /\ a.type = "pix.received" /\ a.agg[2] = e2e /\ a.body = got
          /\ b.type = "cob.settled" /\ b.agg[2] = txid /\ b.body = done
          /\ done.status = "CONCLUIDA"
        BY DEF EventAt, ChargeAggregate, PaymentAggregate
    <1> HIDE DEF seq, e2e, payment, got, a, b, done
    <1>4. Apply(Rows, a) = mid
        <2>1. Apply(Rows, a) = ApplyReceived(Rows, e2e, got)
            BY <1>3, AppliesAs
        <2>2. @ = mid
            BY <1>1, <1>2 DEF ApplyReceived, Rows
        <2> QED
            BY <2>1, <2>2
    <1>5. Apply(mid, b) = Rows'
        <2>1. ApplySettled(mid, txid, done) = Rows'
            <3>1. mid.charges = charges
                OBVIOUS
            <3>2. [mid EXCEPT !.charges = charges'] = Rows'
                <4>1. refunds' = refunds /\ webhooks' = webhooks
                    BY <1>1
                <4> QED
                    BY <4>1 DEF Rows
            <3> HIDE DEF mid
            <3>3. ApplySettled(mid, txid, done) = [mid EXCEPT !.charges = charges']
                BY <1>1, <1>3, <3>1, Zenon DEF ApplySettled
            <3> QED
                BY <3>2, <3>3
        <2> HIDE DEF mid
        <2>2. Apply(mid, b) = ApplySettled(mid, txid, done)
            BY <1>3, AppliesAs
        <2> QED
            BY <2>1, <2>2
    <1>6. events \o <<a, b>> = Append(Append(events, a), b)
        BY DEF TypeOK
    <1> QED
        BY <1>1, <1>4, <1>5, <1>6

\* CreateRefund: the second event settles the row the first one put in, and counts it.
LEMMA RefundReplays ==
    ASSUME TypeOK, NEW e2e, NEW id, NEW cents, NEW now, NEW rnd,
           CreateRefund(e2e, id, cents, now, rnd)
    PROVE  \E a, b : events' = Append(Append(events, a), b) /\ Rows' = Apply(Apply(Rows, a), b)
    <1> DEFINE payment == payments[e2e]
               seq == NextNumber(RefundSeqs)
               requested == RefundAs("EM_PROCESSAMENTO", cents, seq, now, rnd)
               settled == RefundAs("DEVOLVIDO", cents, seq, now, rnd)
               asked == RefundPayload(id, requested)
               done == RefundPayload(id, settled)
               a == EventAt(PaymentAggregate(e2e), "pix.devolucao.requested", now, asked)
               b == EventAt(PaymentAggregate(e2e), "pix.devolucao.settled", now, done)
               mid == [charges |-> charges, payments |-> payments, webhooks |-> webhooks,
                       refunds |-> Insert(refunds, <<e2e, id>>, requested)]
               last == [charges |-> charges, payments |-> payments, webhooks |-> webhooks,
                        refunds |-> Insert(refunds, <<e2e, id>>, settled)]
    <1>1. /\ refunds' = Insert(refunds, <<e2e, id>>, settled)
          /\ payments' = [payments EXCEPT ![e2e].refunded = RefundedAfter(payment, cents),
                                          ![e2e].status = StatusAfterRefund(payment, cents)]
          /\ events' = events \o <<a, b>> /\ UNCHANGED <<charges, webhooks>>
          /\ e2e \in DOMAIN payments
        BY DEF CreateRefund, RefundTrail
    <1>2. /\ requested = [rtrId |-> asked.rtrId, seq |-> asked.rtrId.seq, cents |-> asked.cents,
                          status |-> asked.status, requestedAt |-> asked.solicitacao, settledAt |-> now]
          /\ settled = [rtrId |-> done.rtrId, seq |-> done.rtrId.seq, cents |-> done.cents,
                        status |-> done.status, requestedAt |-> done.solicitacao, settledAt |-> now]
          /\ asked.id = id /\ done.id = id /\ done.cents = cents
        BY DEF RefundPayload, RefundAs, NewRtrID, TransactionId
    <1>3. /\ a.type = "pix.devolucao.requested" /\ a.agg[2] = e2e /\ a.body = asked /\ a.at = now
          /\ b.type = "pix.devolucao.settled" /\ b.agg[2] = e2e /\ b.body = done /\ b.at = now
        BY DEF EventAt, PaymentAggregate
    <1> HIDE DEF seq, requested, settled, asked, done, a, b
    <1>4. Apply(Rows, a) = mid
        <2>1. Apply(Rows, a) = ApplyRefund(Rows, e2e, asked, now)
            BY <1>3, AppliesAs
        <2>2. @ = mid
            BY <1>2 DEF ApplyRefund, Rows
        <2> QED
            BY <2>1, <2>2
    <1>5. ApplyRefund(mid, e2e, done, now) = last
        BY <1>2, InsertTwice DEF ApplyRefund, Rows
    <1>6. CountRefund(last, e2e, done) = Rows'
        <2>1. last.payments = payments
            OBVIOUS
        <2>2. /\ RefundedAfter(payment, cents) = payment.refunded + done.cents
              /\ StatusAfterRefund(payment, cents) =
                    IF payment.refunded + done.cents = payment.cents THEN "REFUNDED" ELSE "SETTLED"
            BY <1>2 DEF RefundedAfter, StatusAfterRefund
        <2>3. CountRefund(last, e2e, done) = [last EXCEPT !.payments = payments']
            BY <1>1, <2>1, <2>2 DEF CountRefund
        <2> QED
            BY <1>1, <2>3 DEF Rows
    <1>7. Apply(mid, b) = Rows'
        <2> HIDE DEF mid, last
        <2> QED
            BY <1>3, <1>5, <1>6, AppliesAs
    <1>8. events \o <<a, b>> = Append(Append(events, a), b)
        BY DEF TypeOK
    <1> QED
        BY <1>1, <1>4, <1>7, <1>8

\* PutWebhook: the event of a replacement leaves created_at as the first one set it.
LEMMA WebhookReplays ==
    ASSUME NEW chave, NEW url, NEW now, PutWebhook(chave, url, now)
    PROVE  \E e : events' = Append(events, e) /\ Rows' = Apply(Rows, e)
    <1> DEFINE created == chave \notin DOMAIN webhooks
               hook == [url |-> url,
                        createdAt |-> IF created THEN now ELSE webhooks[chave].createdAt,
                        updatedAt |-> now]
               body == WebhookPayload(url, created)
    <1>1. PICK e : /\ e = EventAt(WebhookAggregate(chave), "webhook.registered", now, body)
                   /\ webhooks' = Insert(webhooks, chave, hook) /\ events' = Append(events, e)
                   /\ UNCHANGED <<charges, payments, refunds>>
        BY DEF PutWebhook
    <1>2. /\ e.type = "webhook.registered" /\ e.agg[2] = chave /\ e.body = body /\ e.at = now
          /\ body.url = url /\ body.created = created
        BY <1>1 DEF EventAt, WebhookAggregate, WebhookPayload
    <1> HIDE DEF body
    <1>3. Apply(Rows, e) = ApplyRegistered(Rows, chave, body, now)
        BY <1>2, AppliesAs
    <1>4. ApplyRegistered(Rows, chave, body, now) = Rows'
        <2>1. (IF body.created THEN now ELSE Rows.webhooks[chave].createdAt) = hook.createdAt
            BY <1>2, Zenon DEF Rows
        <2>2. [url |-> body.url, updatedAt |-> now,
               createdAt |-> IF body.created THEN now ELSE Rows.webhooks[chave].createdAt] = hook
            BY <1>2, <2>1
        <2>3. ApplyRegistered(Rows, chave, body, now) = [Rows EXCEPT !.webhooks = webhooks']
            <3>1. Rows.webhooks = webhooks
                BY DEF Rows
            <3> HIDE DEF hook
            <3> QED
                BY <1>1, <2>2, <3>1, Zenon DEF ApplyRegistered
        <2> QED
            BY <1>1, <2>3 DEF Rows
    <1> QED
        BY <1>1, <1>3, <1>4

\* A transaction that logs one event, and one that logs two.
LEMMA OneReplayed ==
    ASSUME TypeOK, TypeOK', Rebuilds(events, Rows),
           \E e : events' = Append(events, e) /\ Rows' = Apply(Rows, e)
    PROVE  Rebuilds(events', Rows')
    <1>1. PICK e : events' = Append(events, e) /\ Rows' = Apply(Rows, e)
        OBVIOUS
    <1>2. events \in Seq(Event) /\ events' \in Seq(Event)
        BY DEF TypeOK
    <1>3. e \in Event
        <2>1. events'[Len(events) + 1] = e /\ Len(events) + 1 \in DOMAIN events'
            BY <1>1, <1>2
        <2> QED
            BY <1>2, <2>1
    <1> QED
        BY <1>1, <1>2, <1>3, ReplayOfOneMore

LEMMA TwoReplayed ==
    ASSUME TypeOK, TypeOK', Rebuilds(events, Rows),
           \E a, b : events' = Append(Append(events, a), b) /\ Rows' = Apply(Apply(Rows, a), b)
    PROVE  Rebuilds(events', Rows')
    <1>1. PICK a, b : events' = Append(Append(events, a), b) /\ Rows' = Apply(Apply(Rows, a), b)
        OBVIOUS
    <1>2. events \in Seq(Event) /\ events' \in Seq(Event)
        BY DEF TypeOK
    <1>3. a \in Event /\ b \in Event
        <2>1. /\ events'[Len(events) + 1] = a /\ Len(events) + 1 \in DOMAIN events'
              /\ events'[Len(events) + 2] = b /\ Len(events) + 2 \in DOMAIN events'
            BY <1>1, <1>2
        <2> QED
            BY <1>2, <2>1
    <1>4. Append(events, a) \in Seq(Event)
        BY <1>2, <1>3
    <1>5. Rebuilds(Append(events, a), Apply(Rows, a))
        BY <1>2, <1>3, ReplayOfOneMore
    <1> QED
        BY <1>1, <1>3, <1>4, <1>5, ReplayOfOneMore

\* Any transaction of the store.
LEMMA ReplayStep ==
    ASSUME TableInv, TypeOK', Rebuilds(events, Rows), [Next]_storeVars
    PROVE  Rebuilds(events', Rows')
    <1>1. TypeOK
        BY DEF TableInv
    <1>2. CASE UNCHANGED storeVars
        BY <1>2 DEF storeVars, Rows
    <1>3. ASSUME NEW txid, NEW cents, NEW chave, NEW window, NEW now,
                 CreateCharge(txid, cents, chave, window, now)
          PROVE  Rebuilds(events', Rows')
        BY <1>1, <1>3, CreateReplays, OneReplayed
    <1>4. ASSUME NEW txid, NEW now, ExpireCharge(txid, now)
          PROVE  Rebuilds(events', Rows')
        BY <1>1, <1>4, ExpireReplays, OneReplayed
    <1>5. ASSUME NEW txid, NEW now, NEW rnd, SettleCharge(txid, now, rnd)
          PROVE  Rebuilds(events', Rows')
        BY <1>1, <1>5, SettleReplays, TwoReplayed
    <1>6. ASSUME NEW e2e, NEW id, NEW cents, NEW now, NEW rnd,
                 CreateRefund(e2e, id, cents, now, rnd)
          PROVE  Rebuilds(events', Rows')
        BY <1>1, <1>6, RefundReplays, TwoReplayed
    <1>7. ASSUME NEW chave, NEW url, NEW now, PutWebhook(chave, url, now)
          PROVE  Rebuilds(events', Rows')
        BY <1>1, <1>7, WebhookReplays, OneReplayed
    <1>8. ASSUME NEW now, AppendNote(now)
          PROVE  Rebuilds(events', Rows')
        <2>1. ASSUME NEW agg, NEW type \in NoteType, AppendEvent(agg, type, now)
              PROVE  \E e : events' = Append(events, e) /\ Rows' = Apply(Rows, e)
            <3> DEFINE e == EventAt(agg, type, now, <<>>)
            <3>1. events' = Append(events, e) /\ Rows' = Rows
                BY <2>1 DEF AppendEvent, tables, Rows
            <3>2. e.type \in NoteType
                BY DEF EventAt
            <3> HIDE DEF e
            <3>3. Apply(Rows, e) = Rows
                BY <3>2, AppliesAs
            <3> QED
                BY <3>1, <3>3
        <2>2. \E agg : \E type \in NoteType : AppendEvent(agg, type, now)
            BY <1>8 DEF AppendNote, NoteType
        <2> QED
            BY <1>1, <2>1, <2>2, OneReplayed
    <1>9. CASE Next
        <2>1. PICK now \in Time : Transaction(now)
            BY <1>9 DEF Next
        <2> QED
            BY <1>3, <1>4, <1>5, <1>6, <1>7, <1>8, <2>1 DEF Transaction
    <1> QED
        BY <1>2, <1>9

\* INV-3: the four tables are what the log alone rebuilds, after every transaction,
\* however long the log is.
THEOREM LogReplays == Spec => []ReplayAgrees
    <1>1. Init => Rebuilds(events, Rows)
        <2>1. Init => Rows = Nothing /\ events = <<>>
            BY DEF Init, Rows, Nothing
        <2> QED
            BY <2>1, ReplayOfNone
    <1>2. TableInv /\ TypeOK' /\ Rebuilds(events, Rows) /\ [Next]_storeVars
          => Rebuilds(events, Rows)'
        BY ReplayStep
    <1>3. Rebuilds(events, Rows) => ReplayAgrees
        <2> SUFFICES ASSUME Rebuilds(events, Rows) PROVE ReplayAgrees
            OBVIOUS
        <2> DEFINE fold == CHOOSE h : Replays(h, events)
        <2>1. Replays(fold, events)
            BY DEF Rebuilds
        <2>2. FoldLeft(Apply, Nothing, events) = fold[DOMAIN events]
            BY DEF FoldLeft, MapThenFoldSet, Replays
        <2> HIDE DEF fold
        <2> QED
            BY <2>1, <2>2 DEF Rebuilds, ReplayAgrees, Rows
    <1>4. TableInv /\ [Next]_storeVars => TypeOK'
        BY TablesStep DEF TableInv
    <1> QED
        BY <1>1, <1>2, <1>3, <1>4, TablesCorrect, PTL DEF Spec
=============================================================================
