---------------------------- MODULE PixApiProofs ------------------------------
(***************************************************************************)
(* Theorems about PixApi, for any number of concurrent requests, any       *)
(* clock, any database an earlier run left and any number of crashes: what *)
(* the handlers answer is true of the store, no two are told they made the *)
(* same thing, and each callback that is owed is posted once.              *)
(***************************************************************************)
EXTENDS PixApi, PixLogProofs

-----------------------------------------------------------------------------
(***************************************************************************)
(* The locals of a handler.                                                *)
(***************************************************************************)
Fields ==
    {"kind", "pc", "txid", "e2e", "id", "cents", "window", "since", "at", "seen", "returns",
     "code", "shown"}

LEMMA IdleFields == DOMAIN Idle = Fields
    BY DEF Idle, Fields

LEMMA StepIs ==
    ASSUME req = [s \in Req |-> req[s]], NEW r \in Req, NEW q, DOMAIN q = Fields, Step(r, q)
    PROVE  /\ req' = [s \in Req |-> req'[s]]
           /\ \A s \in Req \ {r} : req'[s] = req[s]
           /\ DOMAIN req'[r] = Fields /\ req'[r].since = clock
           /\ \A f \in Fields \ {"since"} : req'[r][f] = q[f]
           /\ UNCHANGED <<clock, crashes>>
    <1> DEFINE new == [q EXCEPT !.since = clock]
    <1>1. req' = [s \in Req |-> IF s = r THEN new ELSE req[s]] /\ UNCHANGED <<clock, crashes>>
        BY DEF Step
    <1>2. DOMAIN new = Fields /\ new.since = clock /\ \A f \in Fields \ {"since"} : new[f] = q[f]
        BY DEF Fields
    <1> HIDE DEF new
    <1> QED
        BY <1>1, <1>2

-----------------------------------------------------------------------------
(***************************************************************************)
(* The inductive invariant: what a handler knows, from its locals and the  *)
(* tables.  It holds of every request and is stable, because nothing a     *)
(* transaction of another request does takes a row away, moves a charge    *)
(* out of a terminal state, or gives back what was refunded in full.       *)
(***************************************************************************)
InStage(kind, pc) ==
    \/ kind = "none" /\ pc = "idle"
    \/ kind = "create" /\ pc \in {"create", "load", "respond", "done", "gone"}
    \/ kind = "mint" /\ pc \in {"mint", "create", "respond", "done", "gone"}
    \/ kind = "get" /\ pc \in {"load", "respond", "done", "gone"}
    \/ kind = "pay" /\ pc \in {"pay", "settle", "notify", "done", "gone", "dropped"}
    \/ kind = "refund" /\ pc \in {"payment", "refund", "reload", "notify", "done", "gone", "dropped"}
    \/ kind = "hook" /\ pc \in {"hook", "done", "gone"}

Unanswered == {"idle", "mint", "create", "pay", "settle", "payment", "refund", "hook"}

\* The stage each kind of request is in, and the code it has decided on.
Staged(q) ==
    /\ DOMAIN q = Fields
    /\ InStage(q.kind, q.pc)
    /\ q.code \in {0, 200, 201, 400, 404, 409, 500}
    /\ q.pc \in Unanswered => q.code = 0
    /\ q.pc = "load" => q.code = 200
    /\ q.pc = "respond" => q.code \in {200, 201}
    /\ q.pc \in {"reload", "notify"} => q.code = 201
    /\ q.kind = "get" => q.code # 201

CreationFine(q, ch) ==
    /\ q.kind \in {"create", "mint"} =>
          /\ q.cents \in Amount /\ q.window \in Window
          /\ q.pc = "create" => q.txid \in TxId
          /\ q.code = 201 => q.txid \in DOMAIN ch
    /\ q.kind = "mint" =>
          /\ q.pc \in {"respond", "done"} => q.code \in {201, 500}
          /\ q.code = 201 =>
                q.seen.cents = q.cents /\ ch[q.txid].createdAt = q.seen.createdAt

\* A charge found unpayable at the reading PayExpire took is one whose expiry is
\* recorded: PaySettle uses the same reading.
PayFine(q, ch, pa) ==
    q.kind = "pay" =>
        /\ q.pc = "settle" => q.txid \in DOMAIN ch /\ ~IsExpired(ch[q.txid], q.at)
        /\ q.code = 201 => q.e2e \in DOMAIN pa /\ pa[q.e2e].txid = q.txid
        /\ q.code = 201 /\ q.pc = "done" => q.shown = q.e2e
        /\ q.code = 409 => q.shown \in DOMAIN pa /\ pa[q.shown].txid = q.txid
        /\ q.code = 400 => q.txid \in DOMAIN ch /\ ch[q.txid].status = "EXPIRADA"

Spent(pa, e2e) == pa[e2e].refunded = pa[e2e].cents

RefundFine(q, pa, re) ==
    q.kind = "refund" =>
        /\ q.e2e \in DOMAIN pa /\ q.id \in RefundId /\ q.cents \in Amount
        /\ q.pc = "refund" => q.cents = pa[q.e2e].cents
        /\ q.code \in {200, 201} =>
              <<q.e2e, q.id>> \in DOMAIN re /\ q.shown = re[<<q.e2e, q.id>>].rtrId
        /\ q.code = 201 => Spent(pa, q.e2e)
        /\ q.code = 400 /\ q.cents = pa[q.e2e].cents =>
              Spent(pa, q.e2e) /\ <<q.e2e, q.id>> \notin DOMAIN re

Fine(q, ch, pa, re) ==
    /\ Staged(q)
    /\ CreationFine(q, ch) /\ PayFine(q, ch, pa) /\ RefundFine(q, pa, re)
    /\ q.returns \in SUBSET DOMAIN re

Timely(q, now) == q.since \in 0 .. now /\ q.at \in 0 .. now

\* Two requests that were both told they made the same thing.
Clash(p, q) ==
    /\ p.code = 201 /\ q.code = 201
    /\ \/ p.kind \in {"create", "mint"} /\ q.kind \in {"create", "mint"} /\ p.txid = q.txid
       \/ p.kind = "pay" /\ q.kind = "pay" /\ p.txid = q.txid
       \/ p.kind = "refund" /\ q.kind = "refund" /\ p.e2e = q.e2e

\* Refunds are full: a payment is returned whole or not at all.
FullRefunds == \A e \in DOMAIN payments : payments[e].refunded \in {0, payments[e].cents}

CallbackType == [e2e : E2EId, returns : SUBSET (E2EId \X RefundId)]

PostedFine ==
    /\ posted \in Seq(CallbackType)
    /\ \A i \in DOMAIN posted : posted[i].e2e \in DOMAIN payments

StoreSide == StoreLogInv /\ FullRefunds

ClockSide ==
    /\ clock \in Time /\ 0 .. clock \subseteq Time
    /\ drawn \in Nat /\ crashes \in 0 .. MaxCrashes

RequestSide ==
    /\ req = [r \in Req |-> req[r]]
    /\ \A r \in Req : Fine(req[r], charges, payments, refunds) /\ Timely(req[r], clock)
    /\ \A r, s \in Req : r # s => ~Clash(req[r], req[s])

ApiInv == StoreSide /\ ClockSide /\ RequestSide /\ PostedFine

-----------------------------------------------------------------------------
(***************************************************************************)
(* What no transaction takes back.                                         *)
(***************************************************************************)
Grown(ch, pa, re, ch2, pa2, re2) ==
    /\ \A t \in DOMAIN ch :
          /\ t \in DOMAIN ch2
          /\ ch2[t].createdAt = ch[t].createdAt /\ ch2[t].expiresAt = ch[t].expiresAt
          /\ ch[t].status # "ATIVA" => ch2[t].status = ch[t].status
    /\ \A e \in DOMAIN pa :
          /\ e \in DOMAIN pa2
          /\ pa2[e].txid = pa[e].txid /\ pa2[e].cents = pa[e].cents
          /\ Spent(pa, e) => Spent(pa2, e)
    /\ \A k \in DOMAIN re : k \in DOMAIN re2 /\ re2[k].rtrId = re[k].rtrId
    /\ \A k \in DOMAIN re2 \ DOMAIN re : ~Spent(pa, k[1])

TablesGrow == Grown(charges, payments, refunds, charges', payments', refunds')

\* What a handler knows stays true while others work.
LEMMA KeepsFine ==
    ASSUME NEW ch, NEW pa, NEW re, NEW ch2, NEW pa2, NEW re2, Grown(ch, pa, re, ch2, pa2, re2),
           NEW q, Fine(q, ch, pa, re)
    PROVE  Fine(q, ch2, pa2, re2)
    <1>1. CreationFine(q, ch2)
        BY DEF Fine, CreationFine, Grown
    <1>2. PayFine(q, ch2, pa2)
        BY DEF Fine, PayFine, Grown, IsExpired
    <1>3. RefundFine(q, pa2, re2)
        <2> SUFFICES ASSUME q.kind = "refund"
                     PROVE  RefundFine(q, pa2, re2)
            BY DEF RefundFine
        <2> DEFINE key == <<q.e2e, q.id>>
        <2>1. key[1] = q.e2e
            OBVIOUS
        <2>2. /\ q.e2e \in DOMAIN pa /\ q.id \in RefundId /\ q.cents \in Amount
              /\ q.pc = "refund" => q.cents = pa[q.e2e].cents
              /\ q.code \in {200, 201} => key \in DOMAIN re /\ q.shown = re[key].rtrId
              /\ q.code = 201 => Spent(pa, q.e2e)
              /\ q.code = 400 /\ q.cents = pa[q.e2e].cents => Spent(pa, q.e2e) /\ key \notin DOMAIN re
            BY DEF Fine, RefundFine
        <2> HIDE DEF key
        <2>3. /\ q.e2e \in DOMAIN pa2 /\ pa2[q.e2e].cents = pa[q.e2e].cents
              /\ Spent(pa, q.e2e) => Spent(pa2, q.e2e)
            BY <2>2 DEF Grown
        <2>4. /\ key \in DOMAIN re => key \in DOMAIN re2 /\ re2[key].rtrId = re[key].rtrId
              /\ Spent(pa, q.e2e) /\ key \notin DOMAIN re => key \notin DOMAIN re2
            BY <2>1 DEF Grown
        <2>5. /\ q.pc = "refund" => q.cents = pa2[q.e2e].cents
              /\ q.code \in {200, 201} => key \in DOMAIN re2 /\ q.shown = re2[key].rtrId
              /\ q.code = 201 => Spent(pa2, q.e2e)
              /\ q.code = 400 /\ q.cents = pa2[q.e2e].cents => Spent(pa2, q.e2e) /\ key \notin DOMAIN re2
            BY <2>2, <2>3, <2>4
        <2> QED
            BY <2>2, <2>3, <2>5 DEF RefundFine, key
    <1>4. q.returns \in SUBSET DOMAIN re2
        BY DEF Fine, Grown
    <1> QED
        BY <1>1, <1>2, <1>3, <1>4 DEF Fine

LEMMA NothingGrows ==
    ASSUME NEW ch, NEW pa, NEW re
    PROVE  Grown(ch, pa, re, ch, pa, re)
    BY DEF Grown

-----------------------------------------------------------------------------
(***************************************************************************)
(* What the transactions of the handlers do to the tables.                 *)
(***************************************************************************)
LEMMA QuietSide ==
    ASSUME StoreSide, UNCHANGED storeVars
    PROVE  StoreSide' /\ TablesGrow
    <1>1. StoreLogInv'
        BY LogStep DEF StoreSide
    <1>2. FullRefunds' /\ TablesGrow
        BY NothingGrows DEF StoreSide, FullRefunds, storeVars, TablesGrow
    <1> QED
        BY <1>1, <1>2 DEF StoreSide

LEMMA CreateSide ==
    ASSUME StoreSide, NEW txid \in TxId, NEW cents \in Amount, NEW chave \in Chave,
           NEW window \in Window, NEW now \in Time,
           CreateCharge(txid, cents, chave, window, now)
    PROVE  /\ StoreSide' /\ TablesGrow
           /\ txid \notin DOMAIN charges /\ txid \in DOMAIN charges'
           /\ charges'[txid].cents = cents
           /\ payments' = payments /\ refunds' = refunds
    <1>1. StoreLogInv'
        BY CreateLogged DEF StoreSide
    <1> DEFINE charge == NewCharge(cents, chave, window, now)
    <1>2. charge.cents = cents
        BY DEF NewCharge
    <1>3. /\ charges' = Insert(charges, txid, charge) /\ txid \notin DOMAIN charges
          /\ payments' = payments /\ refunds' = refunds
        BY DEF CreateCharge, ChargeIsNew
    <1> HIDE DEF charge
    <1>4. /\ txid \in DOMAIN charges' /\ charges'[txid] = charge
          /\ \A t \in DOMAIN charges : t \in DOMAIN charges' /\ charges'[t] = charges[t]
        BY <1>3 DEF Insert
    <1>5. TablesGrow
        BY <1>3, <1>4 DEF TablesGrow, Grown
    <1>6. FullRefunds'
        BY <1>3 DEF StoreSide, FullRefunds
    <1> QED
        BY <1>1, <1>2, <1>3, <1>4, <1>5, <1>6 DEF StoreSide

LEMMA ExpireSide ==
    ASSUME StoreSide, NEW txid \in TxId, NEW now \in Time, ExpireCharge(txid, now)
    PROVE  /\ StoreSide' /\ TablesGrow
           /\ txid \in DOMAIN charges /\ charges'[txid].status = "EXPIRADA"
           /\ payments' = payments /\ refunds' = refunds
    <1>1. StoreLogInv'
        BY ExpireLogged DEF StoreSide
    <1>2. /\ txid \in DOMAIN charges /\ charges[txid].status = "ATIVA"
          /\ charges' = [charges EXCEPT ![txid].status = "EXPIRADA"]
          /\ payments' = payments /\ refunds' = refunds
        BY DEF ExpireCharge, IsExpired
    <1>3. charges \in [DOMAIN charges -> ChargeRow]
        BY DEF StoreSide, StoreLogInv, TableInv, TypeOK, Typed
    <1>4. /\ \A t \in DOMAIN charges : /\ t \in DOMAIN charges'
                                       /\ charges'[t].createdAt = charges[t].createdAt
                                       /\ charges'[t].expiresAt = charges[t].expiresAt
                                       /\ t # txid => charges'[t] = charges[t]
          /\ charges'[txid].status = "EXPIRADA"
        BY <1>2, <1>3 DEF ChargeRow
    <1>5. TablesGrow
        BY <1>2, <1>4 DEF TablesGrow, Grown
    <1>6. FullRefunds'
        BY <1>2 DEF StoreSide, FullRefunds
    <1> QED
        BY <1>1, <1>2, <1>4, <1>5, <1>6 DEF StoreSide

LEMMA SettleSide ==
    ASSUME StoreSide, NEW txid \in TxId, NEW now \in Time, NEW rnd \in RandomHalf,
           SettleCharge(txid, now, rnd), NEW e2e, e2e = NextE2EID(now, rnd)
    PROVE  /\ StoreSide' /\ TablesGrow
           /\ \A e \in DOMAIN payments : payments[e].txid # txid
           /\ e2e \in DOMAIN payments' /\ payments'[e2e].txid = txid
           /\ refunds' = refunds
    <1>1. StoreLogInv'
        BY SettleLogged DEF StoreSide
    <1> DEFINE payment == NewPayment(txid, NextNumber(PaymentSeqs), now)
    <1>2. payment.txid = txid /\ payment.refunded = 0
        BY DEF NewPayment
    <1>3. /\ txid \in DOMAIN charges /\ charges[txid].status = "ATIVA"
          /\ charges' = [charges EXCEPT ![txid].status = "CONCLUIDA", ![txid].revisao = @ + 1]
          /\ e2e \notin DOMAIN payments
          /\ payments' = Insert(payments, e2e, payment)
          /\ refunds' = refunds
        BY DEF SettleCharge, Payable, PaymentAccepted, NextE2EID
    <1> HIDE DEF payment
    <1>4. charges \in [DOMAIN charges -> ChargeRow]
        BY DEF StoreSide, StoreLogInv, TableInv, TypeOK, Typed
    <1>5. \A t \in DOMAIN charges : /\ t \in DOMAIN charges'
                                    /\ charges'[t].createdAt = charges[t].createdAt
                                    /\ charges'[t].expiresAt = charges[t].expiresAt
                                    /\ t # txid => charges'[t] = charges[t]
        BY <1>3, <1>4 DEF ChargeRow
    <1>6. /\ e2e \in DOMAIN payments' /\ payments'[e2e] = payment
          /\ DOMAIN payments' = DOMAIN payments \cup {e2e}
          /\ \A e \in DOMAIN payments : e \in DOMAIN payments' /\ payments'[e] = payments[e]
        BY <1>3 DEF Insert
    <1>7. TablesGrow
        BY <1>3, <1>5, <1>6 DEF TablesGrow, Grown, Spent
    <1>8. FullRefunds'
        BY <1>2, <1>6 DEF StoreSide, FullRefunds
    <1>9. \A e \in DOMAIN payments : payments[e].txid # txid
        BY <1>3 DEF StoreSide, StoreLogInv, TableInv, SettledOnce
    <1> QED
        BY <1>1, <1>2, <1>3, <1>6, <1>7, <1>8, <1>9 DEF StoreSide

LEMMA RefundSide ==
    ASSUME StoreSide, NEW e2e \in DOMAIN payments, NEW id \in RefundId, NEW cents \in Amount,
           NEW now \in Time, NEW rnd \in RandomHalf, CreateRefund(e2e, id, cents, now, rnd),
           cents = payments[e2e].cents
    PROVE  /\ StoreSide' /\ TablesGrow
           /\ <<e2e, id>> \in DOMAIN refunds'
           /\ e2e \in DOMAIN payments' /\ ~Spent(payments, e2e) /\ Spent(payments', e2e)
           /\ payments'[e2e].cents = cents
    <1>1. StoreLogInv'
        BY RefundLogged DEF StoreSide
    <1> DEFINE key == <<e2e, id>>
               row == RefundAs("DEVOLVIDO", cents, NextNumber(RefundSeqs), now, rnd)
    <1>2. key[1] = e2e
        OBVIOUS
    <1>3. /\ cents <= RefundableCents(payments[e2e])
          /\ key \notin DOMAIN refunds
          /\ refunds' = Insert(refunds, key, row)
          /\ charges' = charges
          /\ payments' = [payments EXCEPT
                ![e2e].refunded = RefundedAfter(payments[e2e], cents),
                ![e2e].status = StatusAfterRefund(payments[e2e], cents)]
        BY DEF CreateRefund, RefundAccepted
    <1>4. payments \in [DOMAIN payments -> PaymentRow]
        BY DEF StoreSide, StoreLogInv, TableInv, TypeOK, Typed
    <1> HIDE DEF key, row
    <1>5. payments[e2e].refunded \in Nat /\ cents \in Nat /\ cents > 0
        BY <1>4, AmountAssumption DEF PaymentRow
    <1>6. payments[e2e].refunded = 0 /\ RefundedAfter(payments[e2e], cents) = cents
        BY <1>3, <1>5 DEF RefundableCents, RefundedAfter
    <1>7. /\ DOMAIN payments' = DOMAIN payments
          /\ payments'[e2e].refunded = cents /\ payments'[e2e].cents = cents
          /\ \A e \in DOMAIN payments : /\ payments'[e].txid = payments[e].txid
                                        /\ payments'[e].cents = payments[e].cents
                                        /\ e # e2e => payments'[e] = payments[e]
        BY <1>3, <1>4, <1>6 DEF PaymentRow
    <1>8. /\ DOMAIN refunds' = DOMAIN refunds \cup {key}
          /\ \A k \in DOMAIN refunds : refunds'[k] = refunds[k]
        BY <1>3 DEF Insert
    <1>9. ~Spent(payments, e2e) /\ Spent(payments', e2e)
        BY <1>5, <1>6, <1>7 DEF Spent
    <1>10. \A e \in DOMAIN payments : Spent(payments, e) => Spent(payments', e)
        BY <1>7, <1>9 DEF Spent
    <1>11. TablesGrow
        BY <1>2, <1>3, <1>7, <1>8, <1>9, <1>10 DEF TablesGrow, Grown
    <1>12. FullRefunds'
        BY <1>7 DEF StoreSide, FullRefunds
    <1> QED
        BY <1>1, <1>7, <1>8, <1>9, <1>11, <1>12 DEF StoreSide, key

LEMMA HookSide ==
    ASSUME StoreSide, NEW chave \in Chave, NEW url \in Url, NEW now \in Time,
           PutWebhook(chave, url, now)
    PROVE  StoreSide' /\ TablesGrow
    <1>1. StoreLogInv'
        BY OtherLogged DEF StoreSide
    <1>2. UNCHANGED <<charges, payments, refunds>>
        BY DEF PutWebhook
    <1> QED
        BY <1>1, <1>2, NothingGrows DEF StoreSide, FullRefunds, TablesGrow

-----------------------------------------------------------------------------
(***************************************************************************)
(* A step of one handler.                                                  *)
(***************************************************************************)
\* What q claims to have made is not there yet.
Novel(q, ch, pa) ==
    /\ q.kind \in {"create", "mint"} => q.txid \notin DOMAIN ch
    /\ q.kind = "pay" => \A e \in DOMAIN pa : pa[e].txid # q.txid
    /\ q.kind = "refund" => ~Spent(pa, q.e2e)

\* A request is told it made something only when it did, or had been told before.
Earns(q, old, ch, pa) ==
    \/ q.code # 201
    \/ old.code = 201 /\ q.kind = old.kind /\ q.txid = old.txid /\ q.e2e = old.e2e
    \/ Novel(q, ch, pa)

LEMMA NovelAlone ==
    ASSUME NEW ch, NEW pa, NEW re, NEW p, Fine(p, ch, pa, re), NEW q, Novel(q, ch, pa)
    PROVE  ~Clash(p, q) /\ ~Clash(q, p)
    BY DEF Fine, CreationFine, PayFine, RefundFine, Novel, Clash

LEMMA FineButSince ==
    ASSUME NEW ch, NEW pa, NEW re, NEW q, Fine(q, ch, pa, re), NEW p, DOMAIN p = Fields,
           \A f \in Fields \ {"since"} : p[f] = q[f]
    PROVE  Fine(p, ch, pa, re)
    <1>1. /\ p.kind = q.kind /\ p.pc = q.pc /\ p.txid = q.txid /\ p.e2e = q.e2e /\ p.id = q.id
          /\ p.cents = q.cents /\ p.window = q.window /\ p.at = q.at /\ p.seen = q.seen
          /\ p.returns = q.returns /\ p.code = q.code /\ p.shown = q.shown
        BY DEF Fields
    <1>2. Staged(p) /\ p.returns \in SUBSET DOMAIN re
        BY <1>1 DEF Fine, Staged
    <1>3. CreationFine(p, ch)
        BY <1>1 DEF Fine, CreationFine
    <1>4. PayFine(p, ch, pa)
        BY <1>1 DEF Fine, PayFine
    <1>5. RefundFine(p, pa, re)
        BY <1>1 DEF Fine, RefundFine
    <1> QED
        BY <1>2, <1>3, <1>4, <1>5 DEF Fine

LEMMA HandlerMoves ==
    ASSUME ApiInv, NEW r \in Req, NEW q, DOMAIN q = Fields, Step(r, q),
           StoreSide', TablesGrow, PostedFine', drawn' \in Nat,
           Fine(q, charges', payments', refunds'), q.at \in 0 .. clock,
           Earns(q, req[r], charges, payments)
    PROVE  ApiInv'
    <1>1. /\ req' = [s \in Req |-> req'[s]]
          /\ \A s \in Req \ {r} : req'[s] = req[s]
          /\ DOMAIN req'[r] = Fields /\ req'[r].since = clock
          /\ \A f \in Fields \ {"since"} : req'[r][f] = q[f]
          /\ UNCHANGED <<clock, crashes>>
        BY StepIs DEF ApiInv, RequestSide
    <1>2. clock \in Nat
        BY TimeAssumption DEF ApiInv, ClockSide
    <1>3. ClockSide'
        BY <1>1 DEF ApiInv, ClockSide
    <1>4. \A s \in Req : Fine(req'[s], charges', payments', refunds') /\ Timely(req'[s], clock')
        <2>1. Fine(req'[r], charges', payments', refunds')
            BY <1>1, FineButSince
        <2>2. req'[r].at = q.at
            BY <1>1 DEF Fields
        <2>3. Timely(req'[r], clock')
            BY <1>1, <1>2, <2>2 DEF Timely
        <2>4. ASSUME NEW s \in Req, s # r
              PROVE  Fine(req'[s], charges', payments', refunds') /\ Timely(req'[s], clock')
            <3>1. req'[s] = req[s] /\ clock' = clock
                BY <1>1, <2>4
            <3>2. Fine(req[s], charges, payments, refunds) /\ Timely(req[s], clock)
                BY DEF ApiInv, RequestSide
            <3>3. Fine(req[s], charges', payments', refunds')
                BY <3>2, KeepsFine DEF TablesGrow
            <3> QED
                BY <3>1, <3>2, <3>3
        <2> QED
            BY <2>1, <2>3, <2>4
    <1>5. \A s, u \in Req : s # u => ~Clash(req'[s], req'[u])
        <2>1. \A s \in Req : Fine(req[s], charges, payments, refunds)
            BY DEF ApiInv, RequestSide
        <2>2. /\ req'[r].kind = q.kind /\ req'[r].code = q.code
              /\ req'[r].txid = q.txid /\ req'[r].e2e = q.e2e
            BY <1>1 DEF Fields
        <2>3. ASSUME NEW s \in Req, s # r
              PROVE  ~Clash(req[s], req'[r]) /\ ~Clash(req'[r], req[s])
            <3>1. CASE q.code # 201
                BY <2>2, <3>1 DEF Clash
            <3>2. CASE req[r].code = 201 /\ q.kind = req[r].kind /\ q.txid = req[r].txid
                       /\ q.e2e = req[r].e2e
                <4>1. ~Clash(req[s], req[r]) /\ ~Clash(req[r], req[s])
                    BY <2>3 DEF ApiInv, RequestSide
                <4> QED
                    BY <2>2, <3>2, <4>1 DEF Clash
            <3>3. CASE Novel(q, charges, payments)
                <4>1. ~Clash(req[s], q) /\ ~Clash(q, req[s])
                    BY <2>1, <3>3, NovelAlone
                <4> QED
                    BY <2>2, <4>1 DEF Clash
            <3> QED
                BY <3>1, <3>2, <3>3 DEF Earns
        <2>4. \A s, u \in Req : s # u => ~Clash(req[s], req[u])
            BY DEF ApiInv, RequestSide
        <2> QED
            BY <1>1, <2>3, <2>4
    <1> QED
        BY <1>1, <1>3, <1>4, <1>5 DEF ApiInv, RequestSide

LEMMA PostedStays ==
    ASSUME PostedFine, TablesGrow, UNCHANGED posted
    PROVE  PostedFine'
    BY DEF PostedFine, TablesGrow, Grown

LEMMA Readable ==
    ASSUME ApiInv, NEW r \in Req
    PROVE  /\ DOMAIN req[r] = Fields /\ req[r].at \in 0 .. clock /\ drawn \in Nat
           /\ Readings(r) \subseteq 0 .. clock /\ 0 .. clock \subseteq Time
           /\ Fine(req[r], charges, payments, refunds)
           /\ StoreSide /\ PostedFine
           /\ charges \in [DOMAIN charges -> ChargeRow] /\ DOMAIN charges \subseteq TxId
    <1>1. /\ Fine(req[r], charges, payments, refunds) /\ Timely(req[r], clock)
          /\ ClockSide /\ StoreSide /\ PostedFine
        BY DEF ApiInv, RequestSide
    <1>2. clock \in Nat
        BY <1>1, TimeAssumption DEF ClockSide
    <1>3. Readings(r) \subseteq 0 .. clock
        BY <1>1, <1>2 DEF Readings, Timely
    <1>4. charges \in [DOMAIN charges -> ChargeRow] /\ DOMAIN charges \subseteq TxId
        BY <1>1 DEF StoreSide, StoreLogInv, TableInv, TypeOK, Typed
    <1> QED
        BY <1>1, <1>3, <1>4 DEF ClockSide, Fine, Staged, Timely

\* A step that leaves the tables and the callbacks alone.
LEMMA QuietMoves ==
    ASSUME ApiInv, NEW r \in Req, NEW q, DOMAIN q = Fields, Step(r, q),
           UNCHANGED <<storeVars, posted>>, drawn' \in Nat,
           Fine(q, charges, payments, refunds), q.at \in 0 .. clock,
           Earns(q, req[r], charges, payments)
    PROVE  ApiInv'
    <1>1. StoreSide' /\ TablesGrow /\ PostedFine'
        BY QuietSide, PostedStays DEF ApiInv
    <1>2. Fine(q, charges', payments', refunds')
        BY DEF storeVars
    <1> QED
        BY <1>1, <1>2, HandlerMoves

\* The locals a step does not assign.
Same(q, old, assigned) == DOMAIN q = Fields /\ \A f \in Fields \ assigned : q[f] = old[f]

\* A request answered with an error, or refused.
LEMMA ErrorFine ==
    ASSUME NEW ch, NEW pa, NEW re, NEW old, Fine(old, ch, pa, re), NEW q,
           Same(q, old, {"pc", "code", "shown"}), q.pc = "done",
           old.pc \notin {"idle", "gone"},
           \/ q.code \in {404, 500} /\ old.kind # "mint"
           \/ q.code = 500
    PROVE  Fine(q, ch, pa, re)
    <1>1. /\ DOMAIN q = Fields /\ q.kind = old.kind /\ q.txid = old.txid /\ q.e2e = old.e2e
          /\ q.id = old.id /\ q.cents = old.cents /\ q.window = old.window /\ q.at = old.at
          /\ q.seen = old.seen /\ q.returns = old.returns
        BY DEF Same, Fields
    <1>2. Staged(q) /\ q.returns \in SUBSET DOMAIN re
        BY <1>1 DEF Fine, Staged, InStage, Unanswered
    <1>3. CreationFine(q, ch)
        BY <1>1 DEF Fine, CreationFine
    <1>4. PayFine(q, ch, pa)
        BY <1>1 DEF Fine, PayFine
    <1>5. RefundFine(q, pa, re)
        BY <1>1 DEF Fine, RefundFine
    <1> QED
        BY <1>2, <1>3, <1>4, <1>5 DEF Fine

-----------------------------------------------------------------------------
(***************************************************************************)
(* One lemma per action.                                                   *)
(***************************************************************************)
\* What a client may send.
LEMMA SentParts ==
    ASSUME NEW q \in Requests
    PROVE  /\ DOMAIN q = Fields /\ q.at = 0 /\ q.code \in {0, 200} /\ q.returns = {}
           /\ \/ /\ q.kind = "create" /\ q.pc = "create" /\ q.code = 0
                 /\ q.txid \in TxId /\ q.cents \in Amount /\ q.window \in Window
              \/ /\ q.kind = "mint" /\ q.pc = "mint" /\ q.code = 0
                 /\ q.cents \in Amount /\ q.window \in Window
              \/ q.kind = "get" /\ q.pc = "load" /\ q.code = 200
              \/ q.kind = "pay" /\ q.pc = "pay" /\ q.code = 0
              \/ /\ q.kind = "refund" /\ q.pc = "payment" /\ q.code = 0
                 /\ q.e2e \in DOMAIN payments /\ q.id \in RefundId /\ q.cents \in Amount
              \/ q.kind = "hook" /\ q.pc = "hook" /\ q.code = 0
    <1>1. DOMAIN Idle = Fields /\ Idle.at = 0 /\ Idle.returns = {} /\ Idle.code = 0
        BY IdleFields DEF Idle
    <1> DEFINE Plain(new) == DOMAIN new = Fields /\ new.at = 0 /\ new.returns = {}
    <1>2. \A t, c, w : LET new == CreateSent(t, c, w) IN
              /\ Plain(new) /\ new.kind = "create" /\ new.pc = "create" /\ new.code = 0
              /\ new.txid = t /\ new.cents = c /\ new.window = w
        BY <1>1 DEF Fields, CreateSent
    <1>3. \A c, w : LET new == MintSent(c, w) IN
              /\ Plain(new) /\ new.kind = "mint" /\ new.pc = "mint" /\ new.code = 0
              /\ new.cents = c /\ new.window = w
        BY <1>1 DEF Fields, MintSent
    <1>4. \A t : LET new == GetSent(t) IN
              Plain(new) /\ new.kind = "get" /\ new.pc = "load" /\ new.code = 200
        BY <1>1 DEF Fields, GetSent
    <1>5. \A t : LET new == PaySent(t) IN
              Plain(new) /\ new.kind = "pay" /\ new.pc = "pay" /\ new.code = 0
        BY <1>1 DEF Fields, PaySent
    <1>6. \A e, i, c : LET new == RefundSent(e, i, c) IN
              /\ Plain(new) /\ new.kind = "refund" /\ new.pc = "payment" /\ new.code = 0
              /\ new.e2e = e /\ new.id = i /\ new.cents = c
        BY <1>1 DEF Fields, RefundSent
    <1>7. Plain(HookSent) /\ HookSent.kind = "hook" /\ HookSent.pc = "hook" /\ HookSent.code = 0
        BY <1>1 DEF Fields, HookSent
    <1> QED
        BY <1>2, <1>3, <1>4, <1>5, <1>6, <1>7 DEF Requests

LEMMA ArriveStep ==
    ASSUME ApiInv, NEW r \in Req, Arrive(r)
    PROVE  ApiInv'
    <1>1. PICK q \in Requests : Step(r, q)
        BY DEF Arrive, Step
    <1>2. UNCHANGED <<storeVars, posted>> /\ drawn' = drawn
        BY DEF Arrive
    <1>3. /\ DOMAIN q = Fields /\ q.at = 0 /\ q.code \in {0, 200} /\ q.returns = {}
          /\ \/ /\ q.kind = "create" /\ q.pc = "create" /\ q.code = 0
                /\ q.txid \in TxId /\ q.cents \in Amount /\ q.window \in Window
             \/ /\ q.kind = "mint" /\ q.pc = "mint" /\ q.code = 0
                /\ q.cents \in Amount /\ q.window \in Window
             \/ q.kind = "get" /\ q.pc = "load" /\ q.code = 200
             \/ q.kind = "pay" /\ q.pc = "pay" /\ q.code = 0
             \/ /\ q.kind = "refund" /\ q.pc = "payment" /\ q.code = 0
                /\ q.e2e \in DOMAIN payments /\ q.id \in RefundId /\ q.cents \in Amount
             \/ q.kind = "hook" /\ q.pc = "hook" /\ q.code = 0
        BY SentParts
    <1>4. Staged(q) /\ q.returns \in SUBSET DOMAIN refunds
        BY <1>3 DEF Staged, InStage, Unanswered
    <1>5. /\ CreationFine(q, charges) /\ PayFine(q, charges, payments)
          /\ RefundFine(q, payments, refunds)
        BY <1>3 DEF CreationFine, PayFine, RefundFine
    <1>6. Earns(q, req[r], charges, payments)
        BY <1>3 DEF Earns
    <1>7. q.at \in 0 .. clock /\ drawn' \in Nat
        BY <1>2, <1>3, TimeAssumption DEF ApiInv, ClockSide
    <1> QED
        BY <1>1, <1>2, <1>3, <1>4, <1>5, <1>6, <1>7, QuietMoves DEF Fine

LEMMA BuildMintedStep ==
    ASSUME ApiInv, NEW r \in Req, BuildMinted(r)
    PROVE  ApiInv'
    <1> DEFINE old == req[r]
               txid == Stream[drawn + 1]
               q == [old EXCEPT !.pc = "create", !.txid = txid]
    <1>1. DOMAIN old = Fields /\ old.at \in 0 .. clock /\ Fine(old, charges, payments, refunds)
        BY Readable
    <1>2. Step(r, q) /\ UNCHANGED <<storeVars, posted>> /\ drawn' \in Nat /\ old.pc = "mint"
        BY Readable DEF BuildMinted
    <1>3. txid \in TxId
        BY Readable, StreamAssumption DEF BuildMinted
    <1> HIDE DEF old, txid
    <1>4. Same(q, old, {"pc", "txid"}) /\ q.pc = "create" /\ q.txid = txid
        BY <1>1 DEF Same, Fields
    <1> HIDE DEF q
    <1>5. /\ DOMAIN q = Fields /\ q.kind = old.kind /\ q.cents = old.cents /\ q.window = old.window
          /\ q.at = old.at /\ q.returns = old.returns /\ q.code = old.code
        BY <1>4 DEF Same, Fields
    <1>6. old.kind = "mint" /\ old.code = 0
        BY <1>1, <1>2 DEF Fine, Staged, InStage, Unanswered
    <1>7. Fine(q, charges, payments, refunds)
        BY <1>1, <1>3, <1>4, <1>5, <1>6
           DEF Fine, Staged, InStage, Unanswered, CreationFine, PayFine, RefundFine
    <1>8. Earns(q, req[r], charges, payments)
        BY <1>5, <1>6 DEF Earns
    <1> QED
        BY <1>1, <1>2, <1>5, <1>7, <1>8, QuietMoves

\* The expiry a handler runs on a stored charge leaves none that is due.
LEMMA ExpirySide ==
    ASSUME StoreSide, NEW txid \in DOMAIN charges, NEW at \in Time, SettleExpiry(txid, at)
    PROVE  /\ StoreSide' /\ TablesGrow
           /\ txid \in DOMAIN charges' /\ ~IsExpired(charges'[txid], at)
           /\ payments' = payments /\ refunds' = refunds
    <1>1. txid \in TxId
        BY DEF StoreSide, StoreLogInv, TableInv, TypeOK, Typed
    <1>2. CASE ExpireCharge(txid, at)
        <2>1. /\ StoreSide' /\ TablesGrow /\ charges'[txid].status = "EXPIRADA"
              /\ payments' = payments /\ refunds' = refunds
            BY <1>1, <1>2, ExpireSide
        <2>2. txid \in DOMAIN charges'
            BY <2>1 DEF TablesGrow, Grown
        <2> QED
            BY <2>1, <2>2 DEF IsExpired
    <1>3. CASE ~IsExpired(charges[txid], at) /\ UNCHANGED storeVars
        BY <1>3, QuietSide DEF storeVars
    <1> QED
        BY <1>2, <1>3 DEF SettleExpiry

LEMMA StoreCobStep ==
    ASSUME ApiInv, NEW r \in Req, StoreCob(r)
    PROVE  ApiInv'
    <1> DEFINE old == req[r]
    <1>1. /\ DOMAIN old = Fields /\ old.at \in 0 .. clock /\ Fine(old, charges, payments, refunds)
          /\ StoreSide /\ PostedFine /\ Readings(r) \subseteq Time
          /\ drawn' \in Nat /\ posted' = posted /\ old.pc = "create"
        BY Readable DEF StoreCob
    <1>2. /\ old.kind \in {"create", "mint"} /\ old.code = 0 /\ old.txid \in TxId
          /\ old.cents \in Amount /\ old.window \in Window /\ old.returns \in SUBSET DOMAIN refunds
        BY <1>1 DEF Fine, Staged, InStage, Unanswered, CreationFine
    <1>3. ASSUME NEW at \in Readings(r), NEW chave \in Chave,
                 CreateCharge(old.txid, old.cents, chave, old.window, at),
                 Step(r, [old EXCEPT !.pc = "respond", !.seen = charges'[old.txid], !.code = 201])
          PROVE  ApiInv'
        <2> DEFINE seen == charges'[old.txid]
                   q == [old EXCEPT !.pc = "respond", !.seen = seen, !.code = 201]
        <2>1. Step(r, q)
            BY <1>3
        <2>2. /\ StoreSide' /\ TablesGrow /\ old.txid \notin DOMAIN charges
              /\ old.txid \in DOMAIN charges' /\ seen.cents = old.cents
              /\ payments' = payments /\ refunds' = refunds
            BY <1>1, <1>2, <1>3, CreateSide
        <2>3. seen = charges'[old.txid]
            OBVIOUS
        <2> HIDE DEF seen
        <2>4. /\ Same(q, old, {"pc", "seen", "code"})
              /\ q.pc = "respond" /\ q.seen = seen /\ q.code = 201
            BY <1>1 DEF Same, Fields
        <2> HIDE DEF q, old
        <2>5. /\ DOMAIN q = Fields /\ q.kind = old.kind /\ q.txid = old.txid
              /\ q.cents = old.cents /\ q.window = old.window
              /\ q.at = old.at /\ q.returns = old.returns
            BY <2>4 DEF Same, Fields
        <2>6. Fine(q, charges', payments', refunds')
            BY <1>2, <2>2, <2>3, <2>4, <2>5
               DEF Fine, Staged, InStage, Unanswered, CreationFine, PayFine, RefundFine
        <2>7. Earns(q, req[r], charges, payments)
            BY <1>2, <2>2, <2>5 DEF Earns, Novel
        <2>8. PostedFine'
            BY <1>1, <2>2, PostedStays
        <2> QED
            BY <1>1, <2>1, <2>2, <2>5, <2>6, <2>7, <2>8, HandlerMoves
    <1>4. ASSUME old.txid \in DOMAIN charges, ReplayCob(r), UNCHANGED storeVars
          PROVE  ApiInv'
        <2>1. CASE old.kind = "mint"
            <3> DEFINE q == [old EXCEPT !.pc = "mint"]
            <3>1. Step(r, q)
                BY <1>4, <2>1 DEF ReplayCob
            <3>2. Same(q, old, {"pc"}) /\ q.pc = "mint"
                BY <1>1 DEF Same, Fields
            <3> HIDE DEF q, old
            <3>3. /\ DOMAIN q = Fields /\ q.kind = old.kind /\ q.cents = old.cents
                  /\ q.window = old.window /\ q.at = old.at /\ q.returns = old.returns
                  /\ q.code = old.code
                BY <3>2 DEF Same, Fields
            <3>4. Fine(q, charges, payments, refunds)
                BY <1>2, <2>1, <3>2, <3>3
                   DEF Fine, Staged, InStage, Unanswered, CreationFine, PayFine, RefundFine
            <3>5. Earns(q, req[r], charges, payments)
                BY <1>2, <3>3 DEF Earns
            <3> QED
                BY <1>1, <1>4, <3>1, <3>3, <3>4, <3>5, QuietMoves
        <2>2. CASE old.kind # "mint"
            <3> DEFINE q == [old EXCEPT !.pc = "load", !.code = 200]
            <3>1. Step(r, q)
                BY <1>4, <2>2 DEF ReplayCob
            <3>2. Same(q, old, {"pc", "code"}) /\ q.pc = "load" /\ q.code = 200
                BY <1>1 DEF Same, Fields
            <3> HIDE DEF q, old
            <3>3. /\ DOMAIN q = Fields /\ q.kind = old.kind /\ q.cents = old.cents
                  /\ q.window = old.window /\ q.at = old.at /\ q.returns = old.returns
                BY <3>2 DEF Same, Fields
            <3>4. Fine(q, charges, payments, refunds)
                BY <1>2, <2>2, <3>2, <3>3
                   DEF Fine, Staged, InStage, Unanswered, CreationFine, PayFine, RefundFine
            <3>5. Earns(q, req[r], charges, payments)
                BY <3>2 DEF Earns
            <3> QED
                BY <1>1, <1>4, <3>1, <3>3, <3>4, <3>5, QuietMoves
        <2> QED
            BY <2>1, <2>2
    <1> QED
        BY <1>3, <1>4 DEF StoreCob

LEMMA LoadCobStep ==
    ASSUME ApiInv, NEW r \in Req, LoadCob(r)
    PROVE  ApiInv'
    <1> DEFINE old == req[r]
    <1>1. /\ DOMAIN old = Fields /\ old.at \in 0 .. clock /\ Fine(old, charges, payments, refunds)
          /\ StoreSide /\ PostedFine /\ Readings(r) \subseteq Time
          /\ drawn' \in Nat /\ posted' = posted /\ old.pc = "load"
        BY Readable DEF LoadCob
    <1>2. /\ old.kind \in {"create", "get"} /\ old.code = 200
          /\ old.kind = "create" => old.cents \in Amount /\ old.window \in Window
          /\ old.returns \in SUBSET DOMAIN refunds
        BY <1>1 DEF Fine, Staged, InStage, CreationFine
    <1>3. CASE old.txid \in DOMAIN charges
        <2>1. PICK at \in Readings(r) :
                  /\ SettleExpiry(old.txid, at)
                  /\ Step(r, [old EXCEPT !.pc = "respond", !.seen = charges'[old.txid]])
            BY <1>3 DEF LoadCob
        <2> DEFINE seen == charges'[old.txid]
                   q == [old EXCEPT !.pc = "respond", !.seen = seen]
        <2>2. Step(r, q)
            BY <2>1
        <2>3. StoreSide' /\ TablesGrow /\ payments' = payments /\ refunds' = refunds
            BY <1>1, <1>3, <2>1, ExpirySide
        <2> HIDE DEF seen
        <2>4. Same(q, old, {"pc", "seen"}) /\ q.pc = "respond"
            BY <1>1 DEF Same, Fields
        <2> HIDE DEF q, old
        <2>5. /\ DOMAIN q = Fields /\ q.kind = old.kind /\ q.cents = old.cents
              /\ q.window = old.window /\ q.at = old.at /\ q.returns = old.returns
              /\ q.code = old.code
            BY <2>4 DEF Same, Fields
        <2>6. Fine(q, charges', payments', refunds')
            BY <1>2, <2>3, <2>4, <2>5
               DEF Fine, Staged, InStage, Unanswered, CreationFine, PayFine, RefundFine
        <2>7. Earns(q, req[r], charges, payments)
            BY <1>2, <2>5 DEF Earns
        <2>8. PostedFine'
            BY <1>1, <2>3, PostedStays
        <2> QED
            BY <1>1, <2>2, <2>3, <2>5, <2>6, <2>7, <2>8, HandlerMoves
    <1>4. CASE old.txid \notin DOMAIN charges
        <2> DEFINE q == [old EXCEPT !.pc = "done", !.code = 404, !.shown = "none"]
        <2>1. Step(r, q) /\ UNCHANGED storeVars
            BY <1>4 DEF LoadCob, Answer
        <2>2. Same(q, old, {"pc", "code", "shown"}) /\ q.pc = "done" /\ q.code = 404
            BY <1>1 DEF Same, Fields
        <2> HIDE DEF q, old
        <2>3. DOMAIN q = Fields /\ q.at = old.at
            BY <2>2 DEF Same, Fields
        <2>4. Fine(q, charges, payments, refunds)
            BY <1>1, <1>2, <2>2, ErrorFine
        <2>5. Earns(q, req[r], charges, payments)
            BY <2>2 DEF Earns
        <2> QED
            BY <1>1, <2>1, <2>3, <2>4, <2>5, QuietMoves
    <1> QED
        BY <1>3, <1>4

LEMMA RespondCobStep ==
    ASSUME ApiInv, NEW r \in Req, RespondCob(r)
    PROVE  ApiInv'
    <1> DEFINE old == req[r]
    <1>1. /\ DOMAIN old = Fields /\ old.at \in 0 .. clock /\ Fine(old, charges, payments, refunds)
          /\ drawn' \in Nat /\ UNCHANGED <<storeVars, posted>> /\ old.pc = "respond"
        BY Readable DEF RespondCob
    <1>2. PICK at \in Readings(r) :
              Step(r, [old EXCEPT !.pc = "done", !.shown = EffectiveStatus(old.seen, at)])
        BY DEF RespondCob
    <1> DEFINE shown == EffectiveStatus(old.seen, at)
               q == [old EXCEPT !.pc = "done", !.shown = shown]
    <1>3. Step(r, q)
        BY <1>2
    <1> HIDE DEF shown
    <1>4. Same(q, old, {"pc", "shown"}) /\ q.pc = "done"
        BY <1>1 DEF Same, Fields
    <1> HIDE DEF q, old
    <1>5. /\ DOMAIN q = Fields /\ q.kind = old.kind /\ q.txid = old.txid /\ q.e2e = old.e2e
          /\ q.id = old.id /\ q.cents = old.cents /\ q.window = old.window /\ q.at = old.at
          /\ q.seen = old.seen /\ q.returns = old.returns /\ q.code = old.code
        BY <1>4 DEF Same, Fields
    <1>6. old.kind \in {"create", "mint", "get"}
        BY <1>1 DEF Fine, Staged, InStage
    <1>7. Fine(q, charges, payments, refunds)
        BY <1>1, <1>4, <1>5, <1>6
           DEF Fine, Staged, InStage, Unanswered, CreationFine, PayFine, RefundFine
    <1>8. Earns(q, req[r], charges, payments)
        BY <1>5 DEF Earns, old
    <1> QED
        BY <1>1, <1>3, <1>5, <1>7, <1>8, QuietMoves

LEMMA PayExpireStep ==
    ASSUME ApiInv, NEW r \in Req, PayExpire(r)
    PROVE  ApiInv'
    <1> DEFINE old == req[r]
    <1>1. /\ DOMAIN old = Fields /\ old.at \in 0 .. clock /\ Fine(old, charges, payments, refunds)
          /\ StoreSide /\ PostedFine /\ Readings(r) \subseteq 0 .. clock /\ Readings(r) \subseteq Time
          /\ drawn' \in Nat /\ posted' = posted /\ old.pc = "pay"
        <2>1. /\ drawn' = drawn /\ posted' = posted /\ old.pc = "pay"
            BY DEF PayExpire
        <2>2. /\ DOMAIN old = Fields /\ old.at \in 0 .. clock /\ drawn \in Nat
              /\ Fine(old, charges, payments, refunds) /\ StoreSide /\ PostedFine
              /\ Readings(r) \subseteq 0 .. clock /\ 0 .. clock \subseteq Time
            BY Readable
        <2> HIDE DEF old
        <2> QED
            BY <2>1, <2>2
    <1>2. old.kind = "pay" /\ old.code = 0 /\ old.returns \in SUBSET DOMAIN refunds
        BY <1>1 DEF Fine, Staged, InStage, Unanswered
    <1>3. CASE old.txid \in DOMAIN charges
        <2>1. PICK at \in Readings(r) :
                  /\ SettleExpiry(old.txid, at)
                  /\ Step(r, [old EXCEPT !.pc = "settle", !.at = at, !.seen = charges'[old.txid]])
            BY <1>3 DEF PayExpire
        <2> DEFINE seen == charges'[old.txid]
                   q == [old EXCEPT !.pc = "settle", !.at = at, !.seen = seen]
        <2>2. Step(r, q)
            BY <2>1
        <2>3. /\ StoreSide' /\ TablesGrow /\ payments' = payments /\ refunds' = refunds
              /\ old.txid \in DOMAIN charges' /\ ~IsExpired(charges'[old.txid], at)
            BY <1>1, <1>3, <2>1, ExpirySide
        <2> HIDE DEF seen
        <2>4. Same(q, old, {"pc", "at", "seen"}) /\ q.pc = "settle" /\ q.at = at
            BY <1>1 DEF Same, Fields
        <2> HIDE DEF q, old
        <2>5. /\ DOMAIN q = Fields /\ q.kind = old.kind /\ q.txid = old.txid
              /\ q.returns = old.returns /\ q.code = old.code
            BY <2>4 DEF Same, Fields
        <2>6. Fine(q, charges', payments', refunds')
            BY <1>2, <2>3, <2>4, <2>5
               DEF Fine, Staged, InStage, Unanswered, CreationFine, PayFine, RefundFine
        <2>7. Earns(q, req[r], charges, payments)
            BY <1>2, <2>5 DEF Earns
        <2>8. PostedFine'
            BY <1>1, <2>3, PostedStays
        <2>9. q.at \in 0 .. clock
            BY <1>1, <2>1, <2>4
        <2> QED
            BY <1>1, <2>2, <2>3, <2>5, <2>6, <2>7, <2>8, <2>9, HandlerMoves
    <1>4. CASE old.txid \notin DOMAIN charges
        <2> DEFINE q == [old EXCEPT !.pc = "done", !.code = 404, !.shown = "none"]
        <2>1. Step(r, q) /\ UNCHANGED storeVars
            BY <1>4 DEF PayExpire, Answer
        <2>2. Same(q, old, {"pc", "code", "shown"}) /\ q.pc = "done" /\ q.code = 404
            BY <1>1 DEF Same, Fields
        <2> HIDE DEF q, old
        <2>3. DOMAIN q = Fields /\ q.at = old.at
            BY <2>2 DEF Same, Fields
        <2>4. Fine(q, charges, payments, refunds)
            BY <1>1, <1>2, <2>2, ErrorFine
        <2>5. Earns(q, req[r], charges, payments)
            BY <2>2 DEF Earns
        <2> QED
            BY <1>1, <2>1, <2>3, <2>4, <2>5, QuietMoves
    <1> QED
        BY <1>3, <1>4

\* A settled charge is answered with its payment.
LEMMA PaymentOfSettled ==
    ASSUME StoreSide, NEW txid \in DOMAIN charges, charges[txid].status = "CONCLUIDA"
    PROVE  PaymentOf(txid) \in DOMAIN payments /\ payments[PaymentOf(txid)].txid = txid
    <1>1. \E e \in DOMAIN payments : payments[e].txid = txid
        BY DEF StoreSide, StoreLogInv, TableInv, SettledOnce
    <1> QED
        BY <1>1 DEF PaymentOf

\* The outcomes of PaySettle at an instant.
Settles(r, at) ==
    \E rnd \in RandomHalf :
        /\ SettleCharge(req[r].txid, at, rnd)
        /\ Step(r, [req[r] EXCEPT !.pc = "notify", !.e2e = NextE2EID(at, rnd), !.code = 201])
        /\ drawn' = drawn + 1

FindsPaid(r) ==
    /\ charges[req[r].txid].status = "CONCLUIDA"
    /\ Answer(r, 409, PaymentOf(req[r].txid))
    /\ UNCHANGED <<storeVars, drawn>>

FindsUnpayable(r, at) ==
    /\ charges[req[r].txid].status # "CONCLUIDA" /\ ~Payable(charges[req[r].txid], at)
    /\ Answer(r, 400, EffectiveStatus(req[r].seen, at))
    /\ UNCHANGED <<storeVars, drawn>>

FindsFull(r) == Answer(r, 500, "none") /\ UNCHANGED <<storeVars, drawn>>

\* The instant it settles at is the one PayExpire read.
LEMMA SettleOutcomes ==
    ASSUME NEW r \in Req, PaySettle(r)
    PROVE  \/ Settles(r, req[r].at) \/ FindsPaid(r)
           \/ FindsUnpayable(r, req[r].at) \/ FindsFull(r)
    <1>1. PICK at \in SettleInstant(r) :
              Settles(r, at) \/ FindsPaid(r) \/ FindsUnpayable(r, at) \/ FindsFull(r)
        BY Zenon DEF PaySettle, Settles, FindsPaid, FindsUnpayable, FindsFull
    <1>2. at = req[r].at
        BY DEF SettleInstant
    <1> QED
        BY <1>1, <1>2

LEMMA PaySettleStep ==
    ASSUME ApiInv, NEW r \in Req, PaySettle(r)
    PROVE  ApiInv'
    <1> DEFINE old == req[r]
               charge == charges[old.txid]
    <1>1. /\ DOMAIN old = Fields /\ old.at \in 0 .. clock /\ Fine(old, charges, payments, refunds)
          /\ StoreSide /\ PostedFine /\ old.at \in Time /\ drawn \in Nat
          /\ posted' = posted /\ old.pc = "settle"
          /\ charges \in [DOMAIN charges -> ChargeRow] /\ DOMAIN charges \subseteq TxId
        BY Readable DEF PaySettle
    <1>2. old.kind = "pay" /\ old.code = 0 /\ old.returns \in SUBSET DOMAIN refunds
        BY <1>1 DEF Fine, Staged, InStage, Unanswered
    <1>3. old.txid \in DOMAIN charges /\ ~IsExpired(charge, old.at)
        BY <1>1, <1>2 DEF Fine, PayFine
    <1>4. ASSUME NEW rnd \in RandomHalf, SettleCharge(old.txid, old.at, rnd),
                 Step(r, [old EXCEPT !.pc = "notify", !.e2e = NextE2EID(old.at, rnd), !.code = 201]),
                 drawn' = drawn + 1
          PROVE  ApiInv'
        <2> DEFINE e2e == NextE2EID(old.at, rnd)
                   q == [old EXCEPT !.pc = "notify", !.e2e = e2e, !.code = 201]
        <2>1. Step(r, q) /\ drawn' \in Nat
            BY <1>1, <1>4
        <2>2. e2e = NextE2EID(old.at, rnd)
            OBVIOUS
        <2> HIDE DEF e2e
        <2>3. /\ StoreSide' /\ TablesGrow /\ refunds' = refunds
              /\ \A e \in DOMAIN payments : payments[e].txid # old.txid
              /\ e2e \in DOMAIN payments' /\ payments'[e2e].txid = old.txid
            <3>1. old.txid \in TxId
                BY <1>1, <1>3
            <3> QED
                BY <1>1, <1>4, <2>2, <3>1, SettleSide
        <2>4. /\ Same(q, old, {"pc", "e2e", "code"})
              /\ q.pc = "notify" /\ q.e2e = e2e /\ q.code = 201
            BY <1>1 DEF Same, Fields
        <2> HIDE DEF q, old
        <2>5. /\ DOMAIN q = Fields /\ q.kind = old.kind /\ q.txid = old.txid
              /\ q.at = old.at /\ q.returns = old.returns
            BY <2>4 DEF Same, Fields
        <2>6. Fine(q, charges', payments', refunds')
            BY <1>2, <2>3, <2>4, <2>5
               DEF Fine, Staged, InStage, Unanswered, CreationFine, PayFine, RefundFine
        <2>7. Earns(q, req[r], charges, payments)
            BY <1>2, <2>3, <2>5 DEF Earns, Novel
        <2>8. PostedFine'
            BY <1>1, <2>3, PostedStays
        <2> QED
            BY <1>1, <2>1, <2>3, <2>5, <2>6, <2>7, <2>8, HandlerMoves
    <1>5. ASSUME NEW code, NEW shown, Answer(r, code, shown), UNCHANGED <<storeVars, drawn>>,
                 \/ /\ code = 409 /\ shown \in DOMAIN payments
                    /\ payments[shown].txid = old.txid
                 \/ code = 400 /\ charge.status = "EXPIRADA"
                 \/ code = 500
          PROVE  ApiInv'
        <2> DEFINE q == [old EXCEPT !.pc = "done", !.code = code, !.shown = shown]
        <2>1. Step(r, q) /\ drawn' \in Nat
            BY <1>1, <1>5 DEF Answer
        <2>2. /\ Same(q, old, {"pc", "code", "shown"})
              /\ q.pc = "done" /\ q.code = code /\ q.shown = shown
            BY <1>1 DEF Same, Fields
        <2> HIDE DEF q, old
        <2>3. /\ DOMAIN q = Fields /\ q.kind = old.kind /\ q.txid = old.txid
              /\ q.at = old.at /\ q.returns = old.returns
            BY <2>2 DEF Same, Fields
        <2>4. Fine(q, charges, payments, refunds)
            BY <1>2, <1>3, <1>5, <2>2, <2>3
               DEF Fine, Staged, InStage, Unanswered, CreationFine, PayFine, RefundFine
        <2>5. Earns(q, req[r], charges, payments)
            BY <1>5, <2>2 DEF Earns
        <2> QED
            BY <1>1, <1>5, <2>1, <2>3, <2>4, <2>5, QuietMoves
    <1>6. charge.status # "CONCLUIDA" /\ ~Payable(charge, old.at) => charge.status = "EXPIRADA"
        BY <1>1, <1>3 DEF Payable, ChargeRow, ChargeStatus
    <1>7. charge.status = "CONCLUIDA" =>
              PaymentOf(old.txid) \in DOMAIN payments /\ payments[PaymentOf(old.txid)].txid = old.txid
        BY <1>1, <1>3, PaymentOfSettled
    <1> QED
        <2>1. CASE Settles(r, old.at)
            BY <2>1, <1>4 DEF Settles
        <2>2. CASE FindsPaid(r)
            <3> DEFINE shown == PaymentOf(old.txid)
            <3>1. shown \in DOMAIN payments /\ payments[shown].txid = old.txid
                BY <1>7, <2>2 DEF FindsPaid
            <3>2. Answer(r, 409, shown) /\ UNCHANGED <<storeVars, drawn>>
                BY <2>2 DEF FindsPaid
            <3> HIDE DEF shown
            <3> QED
                BY <1>5, <3>1, <3>2
        <2>3. CASE FindsUnpayable(r, old.at)
            <3> DEFINE shown == EffectiveStatus(old.seen, old.at)
            <3>1. Answer(r, 400, shown) /\ UNCHANGED <<storeVars, drawn>>
                BY <2>3 DEF FindsUnpayable
            <3>2. charge.status = "EXPIRADA"
                BY <1>6, <2>3 DEF FindsUnpayable
            <3> HIDE DEF shown
            <3> QED
                BY <1>5, <3>1, <3>2
        <2>4. CASE FindsFull(r)
            BY <1>5, <2>4 DEF FindsFull
        <2> QED
            BY SettleOutcomes, <2>1, <2>2, <2>3, <2>4

LEMMA PaymentsTyped ==
    ASSUME StoreSide
    PROVE  /\ payments \in [DOMAIN payments -> PaymentRow] /\ DOMAIN payments \subseteq E2EId
           /\ DOMAIN refunds \subseteq E2EId \X RefundId
    BY DEF StoreSide, StoreLogInv, TableInv, TypeOK, Typed

\* What is known of a refund that is not stored yet.
LEMMA Refunding ==
    ASSUME ApiInv, NEW r \in Req, req[r].pc \in {"payment", "refund"}
    PROVE  /\ req[r].kind = "refund" /\ req[r].code = 0
           /\ req[r].e2e \in DOMAIN payments /\ req[r].id \in RefundId /\ req[r].cents \in Amount
           /\ req[r].pc = "refund" => req[r].cents = payments[req[r].e2e].cents
           /\ req[r].returns \in SUBSET DOMAIN refunds
    <1>1. Fine(req[r], charges, payments, refunds)
        BY Readable
    <1> QED
        BY <1>1 DEF Fine, Staged, InStage, Unanswered, RefundFine

LEMMA LoadPaymentStep ==
    ASSUME ApiInv, NEW r \in Req, LoadPayment(r)
    PROVE  ApiInv'
    <1> DEFINE old == req[r]
    <1>1. DOMAIN old = Fields /\ old.at \in 0 .. clock /\ drawn \in Nat
        BY Readable
    <1>2. UNCHANGED <<storeVars, posted, drawn>> /\ old.pc = "payment"
        BY DEF LoadPayment
    <1>3. /\ old.kind = "refund" /\ old.code = 0
          /\ old.e2e \in DOMAIN payments /\ old.id \in RefundId /\ old.cents \in Amount
          /\ old.returns \in SUBSET DOMAIN refunds
        BY <1>2, Refunding
    <1>4. CASE old.cents = payments[old.e2e].cents
        <2> DEFINE seen == payments[old.e2e]
                   q == [old EXCEPT !.pc = "refund", !.seen = seen]
        <2>1. Step(r, q)
            BY <1>4 DEF LoadPayment
        <2> HIDE DEF seen
        <2>2. Same(q, old, {"pc", "seen"}) /\ q.pc = "refund"
            BY <1>1 DEF Same, Fields
        <2> HIDE DEF q, old
        <2>3. /\ DOMAIN q = Fields /\ q.kind = old.kind /\ q.e2e = old.e2e /\ q.id = old.id
              /\ q.cents = old.cents /\ q.at = old.at /\ q.returns = old.returns
              /\ q.code = old.code
            BY <2>2 DEF Same, Fields
        <2>4. Fine(q, charges, payments, refunds)
            BY <1>3, <1>4, <2>2, <2>3
               DEF Fine, Staged, InStage, Unanswered, CreationFine, PayFine, RefundFine
        <2>5. Earns(q, req[r], charges, payments)
            BY <1>3, <2>3 DEF Earns
        <2> QED
            BY <1>1, <1>2, <2>1, <2>3, <2>4, <2>5, QuietMoves
    <1>5. CASE old.cents # payments[old.e2e].cents
        <2> DEFINE q == [old EXCEPT !.pc = "done", !.code = 400, !.shown = "partial"]
        <2>1. Step(r, q)
            BY <1>5 DEF LoadPayment, Answer
        <2>2. Same(q, old, {"pc", "code", "shown"}) /\ q.pc = "done" /\ q.code = 400
            BY <1>1 DEF Same, Fields
        <2> HIDE DEF q, old
        <2>3. /\ DOMAIN q = Fields /\ q.kind = old.kind /\ q.e2e = old.e2e /\ q.id = old.id
              /\ q.cents = old.cents /\ q.at = old.at /\ q.returns = old.returns
            BY <2>2 DEF Same, Fields
        <2>4. Fine(q, charges, payments, refunds)
            BY <1>3, <1>5, <2>2, <2>3
               DEF Fine, Staged, InStage, Unanswered, CreationFine, PayFine, RefundFine
        <2>5. Earns(q, req[r], charges, payments)
            BY <2>2 DEF Earns
        <2> QED
            BY <1>1, <1>2, <2>1, <2>3, <2>4, <2>5, QuietMoves
    <1> QED
        BY <1>4, <1>5

LEMMA StoreRefundStep ==
    ASSUME ApiInv, NEW r \in Req, StoreRefund(r)
    PROVE  ApiInv'
    <1> DEFINE old == req[r]
               e2e == old.e2e
               key == <<old.e2e, old.id>>
               fits == old.cents <= RefundableCents(payments[old.e2e])
    <1>1. DOMAIN old = Fields /\ old.at \in 0 .. clock /\ drawn \in Nat /\ StoreSide /\ PostedFine
        BY Readable
    <1>2. posted' = posted /\ old.pc = "refund"
        BY DEF StoreRefund
    <1>3. /\ old.kind = "refund" /\ old.code = 0
          /\ old.e2e \in DOMAIN payments /\ old.id \in RefundId /\ old.cents \in Amount
          /\ old.cents = payments[old.e2e].cents
          /\ old.returns \in SUBSET DOMAIN refunds
        BY <1>2, Refunding
    <1>4. ASSUME NEW at \in Readings(r), NEW rnd \in RandomHalf,
                 CreateRefund(old.e2e, old.id, old.cents, at, rnd),
                 Step(r, [old EXCEPT !.pc = "reload", !.code = 201, !.shown = refunds'[key].rtrId]),
                 drawn' = drawn + 1
          PROVE  ApiInv'
        <2> DEFINE shown == refunds'[key].rtrId
                   q == [old EXCEPT !.pc = "reload", !.code = 201, !.shown = shown]
        <2>1. Step(r, q) /\ drawn' \in Nat
            BY <1>1, <1>4
        <2>2. at \in Time
            BY Readable
        <2>3. /\ StoreSide' /\ TablesGrow /\ key \in DOMAIN refunds'
              /\ old.e2e \in DOMAIN payments' /\ ~Spent(payments, old.e2e)
              /\ Spent(payments', old.e2e) /\ payments'[old.e2e].cents = old.cents
            BY <1>1, <1>3, <1>4, <2>2, RefundSide
        <2>4. /\ Same(q, old, {"pc", "code", "shown"})
              /\ q.pc = "reload" /\ q.code = 201 /\ q.shown = shown
            <3> HIDE DEF shown
            <3> QED
                BY <1>1 DEF Same, Fields
        <2>5. q.shown = refunds'[key].rtrId
            BY <2>4
        <2> HIDE DEF q, old, shown
        <2>6. /\ DOMAIN q = Fields /\ q.kind = old.kind /\ q.e2e = old.e2e /\ q.id = old.id
              /\ q.cents = old.cents /\ q.at = old.at /\ q.returns = old.returns
            BY <2>4 DEF Same, Fields
        <2>7. q.returns \in SUBSET DOMAIN refunds'
            BY <1>3, <2>3, <2>6 DEF TablesGrow, Grown
        <2>8. Staged(q) /\ CreationFine(q, charges') /\ PayFine(q, charges', payments')
            BY <1>3, <2>4, <2>6 DEF Staged, InStage, Unanswered, CreationFine, PayFine
        <2>9. RefundFine(q, payments', refunds')
            BY <1>3, <2>3, <2>4, <2>5, <2>6 DEF RefundFine
        <2>10. Fine(q, charges', payments', refunds')
            BY <2>7, <2>8, <2>9 DEF Fine
        <2>11. Earns(q, req[r], charges, payments)
            BY <1>3, <2>3, <2>6 DEF Earns, Novel
        <2>12. PostedFine'
            BY <1>1, <1>2, <2>3, PostedStays
        <2> QED
            BY <1>1, <2>1, <2>3, <2>6, <2>10, <2>11, <2>12, HandlerMoves
    <1>5. ASSUME NEW code, NEW shown, Answer(r, code, shown), UNCHANGED <<storeVars, drawn>>,
                 \/ code = 200 /\ key \in DOMAIN refunds /\ shown = refunds[key].rtrId
                 \/ code = 400 /\ Spent(payments, old.e2e) /\ key \notin DOMAIN refunds
                 \/ code = 500
          PROVE  ApiInv'
        <2> DEFINE q == [old EXCEPT !.pc = "done", !.code = code, !.shown = shown]
        <2>1. Step(r, q) /\ drawn' \in Nat
            BY <1>1, <1>5 DEF Answer
        <2>2. /\ Same(q, old, {"pc", "code", "shown"})
              /\ q.pc = "done" /\ q.code = code /\ q.shown = shown
            BY <1>1 DEF Same, Fields
        <2> HIDE DEF q, old
        <2>3. /\ DOMAIN q = Fields /\ q.kind = old.kind /\ q.e2e = old.e2e /\ q.id = old.id
              /\ q.cents = old.cents /\ q.at = old.at /\ q.returns = old.returns
            BY <2>2 DEF Same, Fields
        <2>4. Fine(q, charges, payments, refunds)
            BY <1>3, <1>5, <2>2, <2>3
               DEF Fine, Staged, InStage, Unanswered, CreationFine, PayFine, RefundFine
        <2>5. Earns(q, req[r], charges, payments)
            BY <1>5, <2>2 DEF Earns
        <2> QED
            BY <1>1, <1>2, <1>5, <2>1, <2>3, <2>4, <2>5, QuietMoves
    <1>6. ~fits => Spent(payments, old.e2e)
        <2>1. /\ payments[old.e2e].refunded \in {0, payments[old.e2e].cents}
              /\ payments[old.e2e].cents \in Nat
            BY <1>1, <1>3, PaymentsTyped, AmountAssumption DEF StoreSide, FullRefunds
        <2> QED
            BY <1>3, <2>1 DEF RefundableCents, Spent
    <1>7. \/ \E at \in Readings(r), rnd \in RandomHalf :
                /\ CreateRefund(old.e2e, old.id, old.cents, at, rnd)
                /\ Step(r, [old EXCEPT !.pc = "reload", !.code = 201, !.shown = refunds'[key].rtrId])
                /\ drawn' = drawn + 1
          \/ /\ key \in DOMAIN refunds /\ Answer(r, 200, refunds[key].rtrId)
             /\ UNCHANGED <<storeVars, drawn>>
          \/ /\ key \notin DOMAIN refunds /\ ~fits /\ Answer(r, 400, old.seen.refunded)
             /\ UNCHANGED <<storeVars, drawn>>
          \/ Answer(r, 500, "none") /\ UNCHANGED <<storeVars, drawn>>
        BY DEF StoreRefund, Replayable
    <1> HIDE DEF fits
    <1> QED
        <2>1. CASE \E at \in Readings(r), rnd \in RandomHalf :
                      /\ CreateRefund(old.e2e, old.id, old.cents, at, rnd)
                      /\ Step(r, [old EXCEPT !.pc = "reload", !.code = 201,
                                            !.shown = refunds'[key].rtrId])
                      /\ drawn' = drawn + 1
            BY <2>1, <1>4
        <2>2. CASE /\ key \in DOMAIN refunds /\ Answer(r, 200, refunds[key].rtrId)
                   /\ UNCHANGED <<storeVars, drawn>>
            BY <1>5, <2>2
        <2>3. CASE /\ key \notin DOMAIN refunds /\ ~fits /\ Answer(r, 400, old.seen.refunded)
                   /\ UNCHANGED <<storeVars, drawn>>
            BY <1>5, <1>6, <2>3
        <2>4. CASE Answer(r, 500, "none") /\ UNCHANGED <<storeVars, drawn>>
            BY <1>5, <2>4
        <2> QED
            BY <1>7, <2>1, <2>2, <2>3, <2>4

LEMMA ReloadPaymentStep ==
    ASSUME ApiInv, NEW r \in Req, ReloadPayment(r)
    PROVE  ApiInv'
    <1> DEFINE old == req[r]
               found == RefundsOf(old.e2e)
               q == [old EXCEPT !.pc = "notify", !.returns = found]
    <1>1. /\ DOMAIN old = Fields /\ old.at \in 0 .. clock /\ drawn \in Nat
          /\ Fine(old, charges, payments, refunds)
        BY Readable
    <1>2. Step(r, q) /\ UNCHANGED <<storeVars, posted, drawn>> /\ old.pc = "reload"
        BY DEF ReloadPayment
    <1>3. found \in SUBSET DOMAIN refunds
        BY DEF RefundsOf
    <1> HIDE DEF found
    <1>4. Same(q, old, {"pc", "returns"}) /\ q.pc = "notify" /\ q.returns = found
        BY <1>1 DEF Same, Fields
    <1> HIDE DEF q, old
    <1>5. /\ DOMAIN q = Fields /\ q.kind = old.kind /\ q.txid = old.txid /\ q.e2e = old.e2e
          /\ q.id = old.id /\ q.cents = old.cents /\ q.at = old.at
          /\ q.code = old.code /\ q.shown = old.shown
        BY <1>4 DEF Same, Fields
    <1>6. old.kind = "refund" /\ old.code = 201
        BY <1>1, <1>2 DEF Fine, Staged, InStage
    <1>7. Fine(q, charges, payments, refunds)
        BY <1>1, <1>3, <1>4, <1>5, <1>6
           DEF Fine, Staged, InStage, Unanswered, CreationFine, PayFine, RefundFine
    <1>8. Earns(q, req[r], charges, payments)
        BY <1>5, <1>6 DEF Earns, old
    <1> QED
        BY <1>1, <1>2, <1>5, <1>7, <1>8, QuietMoves

\* A callback is handed over by a request that was told 201.
LEMMA Notifying ==
    ASSUME NEW ch, NEW pa, NEW re, NEW q, Fine(q, ch, pa, re), q.pc \in {"reload", "notify"}
    PROVE  q.kind \in {"pay", "refund"} /\ q.code = 201 /\ q.e2e \in DOMAIN pa
    BY DEF Fine, Staged, InStage, PayFine, RefundFine

LEMMA NotifyStep ==
    ASSUME ApiInv, NEW r \in Req, Notify(r)
    PROVE  ApiInv'
    <1> DEFINE old == req[r]
               shown == IF old.kind = "pay" THEN old.e2e ELSE old.shown
               q == [old EXCEPT !.pc = "done", !.shown = shown]
    <1>1. /\ DOMAIN old = Fields /\ old.at \in 0 .. clock /\ drawn \in Nat
          /\ Fine(old, charges, payments, refunds) /\ StoreSide /\ PostedFine
        BY Readable
    <1>2. UNCHANGED <<storeVars, drawn>> /\ old.pc = "notify"
        BY DEF Notify
    <1>3. Step(r, q)
        BY DEF Notify
    <1>4. old.kind \in {"pay", "refund"} /\ old.code = 201 /\ old.e2e \in DOMAIN payments
        BY <1>1, <1>2, Notifying
    <1>5. PostedFine'
        <2> DEFINE callback == Callback(r)
        <2>1. posted' = posted \/ posted' = Append(posted, callback)
            BY DEF Notify
        <2>2. callback \in CallbackType /\ callback.e2e \in DOMAIN payments
            BY <1>1, <1>4, PaymentsTyped DEF Callback, CallbackType, Fine
        <2>3. payments' = payments
            BY <1>2 DEF storeVars
        <2> HIDE DEF callback
        <2>4. CASE posted' = Append(posted, callback)
            <3>1. posted' \in Seq(CallbackType) /\ DOMAIN posted' = 1 .. Len(posted) + 1
                BY <1>1, <2>2, <2>4 DEF PostedFine
            <3>2. \A i \in DOMAIN posted' : posted'[i] = callback \/ (i \in DOMAIN posted /\ posted'[i] = posted[i])
                BY <1>1, <2>4 DEF PostedFine
            <3> QED
                BY <1>1, <2>2, <2>3, <3>1, <3>2 DEF PostedFine
        <2> QED
            BY <1>1, <2>1, <2>3, <2>4 DEF PostedFine
    <1>6. StoreSide' /\ TablesGrow
        BY <1>1, <1>2, QuietSide
    <1>7. shown = IF old.kind = "pay" THEN old.e2e ELSE old.shown
        OBVIOUS
    <1> HIDE DEF shown
    <1>8. Same(q, old, {"pc", "shown"}) /\ q.pc = "done" /\ q.shown = shown
        BY <1>1 DEF Same, Fields
    <1> HIDE DEF q, old
    <1>9. /\ DOMAIN q = Fields /\ q.kind = old.kind /\ q.txid = old.txid /\ q.e2e = old.e2e
          /\ q.id = old.id /\ q.cents = old.cents /\ q.at = old.at
          /\ q.returns = old.returns /\ q.code = old.code
        BY <1>8 DEF Same, Fields
    <1>10. Fine(q, charges, payments, refunds)
        BY <1>1, <1>4, <1>7, <1>8, <1>9
           DEF Fine, Staged, InStage, Unanswered, CreationFine, PayFine, RefundFine
    <1>11. Fine(q, charges', payments', refunds')
        BY <1>2, <1>10 DEF storeVars
    <1>12. Earns(q, req[r], charges, payments)
        BY <1>4, <1>9 DEF Earns, old
    <1> QED
        BY <1>1, <1>2, <1>3, <1>5, <1>6, <1>9, <1>11, <1>12, HandlerMoves

LEMMA NotifyFailsStep ==
    ASSUME ApiInv, NEW r \in Req, NotifyFails(r)
    PROVE  ApiInv'
    <1> DEFINE old == req[r]
               q == [old EXCEPT !.pc = "dropped"]
    <1>1. /\ DOMAIN old = Fields /\ old.at \in 0 .. clock /\ drawn \in Nat
          /\ Fine(old, charges, payments, refunds)
        BY Readable
    <1>2. /\ Step(r, q) /\ UNCHANGED <<storeVars, posted, drawn>>
          /\ old.pc \in {"reload", "notify"}
        BY DEF NotifyFails
    <1>3. old.kind \in {"pay", "refund"} /\ old.code = 201
        BY <1>1, <1>2, Notifying
    <1>4. Same(q, old, {"pc"}) /\ q.pc = "dropped"
        BY <1>1 DEF Same, Fields
    <1> HIDE DEF q, old
    <1>5. /\ DOMAIN q = Fields /\ q.kind = old.kind /\ q.txid = old.txid /\ q.e2e = old.e2e
          /\ q.id = old.id /\ q.cents = old.cents /\ q.at = old.at
          /\ q.returns = old.returns /\ q.code = old.code /\ q.shown = old.shown
        BY <1>4 DEF Same, Fields
    <1>6. Fine(q, charges, payments, refunds)
        BY <1>1, <1>3, <1>4, <1>5
           DEF Fine, Staged, InStage, Unanswered, CreationFine, PayFine, RefundFine
    <1>7. Earns(q, req[r], charges, payments)
        BY <1>3, <1>5 DEF Earns, old
    <1> QED
        BY <1>1, <1>2, <1>5, <1>6, <1>7, QuietMoves

LEMMA PutHookStep ==
    ASSUME ApiInv, NEW r \in Req, PutHook(r)
    PROVE  ApiInv'
    <1> DEFINE old == req[r]
    <1>1. /\ DOMAIN old = Fields /\ old.at \in 0 .. clock /\ drawn \in Nat
          /\ Fine(old, charges, payments, refunds) /\ StoreSide /\ PostedFine
          /\ Readings(r) \subseteq 0 .. clock /\ 0 .. clock \subseteq Time
        BY Readable
    <1>2. UNCHANGED <<posted, drawn>> /\ old.pc = "hook"
        BY DEF PutHook
    <1>3. PICK at \in Readings(r), chave \in Chave, url \in Url :
              /\ PutWebhook(chave, url, at)
              /\ Answer(r, IF chave \in DOMAIN webhooks THEN 200 ELSE 201, "none")
        BY DEF PutHook
    <1> DEFINE code == IF chave \in DOMAIN webhooks THEN 200 ELSE 201
               q == [old EXCEPT !.pc = "done", !.code = code, !.shown = "none"]
    <1>4. Step(r, q) /\ code \in {200, 201}
        BY <1>3 DEF Answer
    <1>5. StoreSide' /\ TablesGrow
        <2>1. at \in Time
            BY <1>1
        <2> QED
            BY <1>1, <1>3, <2>1, HookSide
    <1>6. old.kind = "hook" /\ old.returns \in SUBSET DOMAIN refunds
        BY <1>1, <1>2 DEF Fine, Staged, InStage
    <1> HIDE DEF code
    <1>7. Same(q, old, {"pc", "code", "shown"}) /\ q.pc = "done" /\ q.code = code
        BY <1>1 DEF Same, Fields
    <1> HIDE DEF q, old
    <1>8. DOMAIN q = Fields /\ q.kind = old.kind /\ q.at = old.at /\ q.returns = old.returns
        BY <1>7 DEF Same, Fields
    <1>9. q.returns \in SUBSET DOMAIN refunds'
        BY <1>5, <1>6, <1>8 DEF TablesGrow, Grown
    <1>10. Fine(q, charges', payments', refunds')
        BY <1>4, <1>6, <1>7, <1>8, <1>9
           DEF Fine, Staged, InStage, Unanswered, CreationFine, PayFine, RefundFine
    <1>11. Earns(q, req[r], charges, payments)
        BY <1>6, <1>8 DEF Earns, Novel
    <1>12. PostedFine'
        BY <1>1, <1>2, <1>5, PostedStays
    <1> QED
        BY <1>1, <1>2, <1>4, <1>5, <1>8, <1>10, <1>11, <1>12, HandlerMoves

LEMMA CancelStep ==
    ASSUME ApiInv, NEW r \in Req, Cancel(r)
    PROVE  ApiInv'
    <1> DEFINE old == req[r]
               q == [old EXCEPT !.pc = "done", !.code = 500, !.shown = "none"]
    <1>1. /\ DOMAIN old = Fields /\ old.at \in 0 .. clock /\ drawn \in Nat
          /\ Fine(old, charges, payments, refunds)
        BY Readable
    <1>2. Step(r, q) /\ UNCHANGED <<storeVars, posted>> /\ old.pc \in Cancellable
        BY DEF Cancel, Answer
    <1>3. drawn' \in Nat
        BY <1>1 DEF Cancel
    <1>4. old.pc \notin {"idle", "gone"}
        BY <1>2 DEF Cancellable
    <1>5. Same(q, old, {"pc", "code", "shown"}) /\ q.pc = "done" /\ q.code = 500
        BY <1>1 DEF Same, Fields
    <1> HIDE DEF q, old
    <1>6. DOMAIN q = Fields /\ q.at = old.at
        BY <1>5 DEF Same, Fields
    <1>7. Fine(q, charges, payments, refunds)
        BY <1>1, <1>4, <1>5, ErrorFine
    <1>8. Earns(q, req[r], charges, payments)
        BY <1>5 DEF Earns
    <1> QED
        BY <1>1, <1>2, <1>3, <1>6, <1>7, <1>8, QuietMoves

\* Time passes.
LEMMA TickStep ==
    ASSUME ApiInv, Tick
    PROVE  ApiInv'
    <1>1. /\ clock' = clock + 1 /\ clock + 1 \in Time /\ req' = req
          /\ UNCHANGED <<storeVars, posted, drawn, crashes>>
        BY DEF Tick
    <1>2. /\ clock \in Nat /\ 0 .. clock \subseteq Time
          /\ drawn \in Nat /\ crashes \in 0 .. MaxCrashes
        BY TimeAssumption DEF ApiInv, ClockSide
    <1>3. StoreSide' /\ PostedFine'
        BY <1>1, QuietSide, PostedStays DEF ApiInv
    <1>4. 0 .. clock + 1 \subseteq Time
        <2>1. 0 .. clock + 1 = (0 .. clock) \cup {clock + 1}
            BY <1>2
        <2> QED
            BY <1>1, <1>2, <2>1
    <1>5. ClockSide'
        BY <1>1, <1>2, <1>4 DEF ClockSide
    <1>6. \A r \in Req : Timely(req[r], clock + 1)
        BY <1>2 DEF ApiInv, RequestSide, Timely
    <1>7. \A r \in Req : Fine(req[r], charges', payments', refunds')
        BY <1>1 DEF ApiInv, RequestSide, storeVars
    <1>8. RequestSide'
        BY <1>1, <1>6, <1>7 DEF ApiInv, RequestSide
    <1> QED
        BY <1>3, <1>5, <1>8 DEF ApiInv

\* What a handler knew dies with it, and what was true of it stays true.
LEMMA GoneFine ==
    ASSUME NEW ch, NEW pa, NEW re, NEW old, Fine(old, ch, pa, re), old.pc # "idle",
           NEW q, Same(q, old, {"pc"}), q.pc = "gone"
    PROVE  Fine(q, ch, pa, re)
    <1>1. /\ DOMAIN q = Fields /\ q.kind = old.kind /\ q.txid = old.txid /\ q.e2e = old.e2e
          /\ q.id = old.id /\ q.cents = old.cents /\ q.window = old.window /\ q.at = old.at
          /\ q.seen = old.seen /\ q.returns = old.returns /\ q.code = old.code
          /\ q.shown = old.shown
        BY DEF Same, Fields
    <1>2. Staged(q) /\ q.returns \in SUBSET DOMAIN re
        BY <1>1 DEF Fine, Staged, InStage, Unanswered
    <1>3. CreationFine(q, ch)
        BY <1>1 DEF Fine, CreationFine
    <1>4. PayFine(q, ch, pa)
        BY <1>1 DEF Fine, PayFine
    <1>5. RefundFine(q, pa, re)
        BY <1>1 DEF Fine, RefundFine
    <1> QED
        BY <1>2, <1>3, <1>4, <1>5 DEF Fine

LEMMA CrashStep ==
    ASSUME ApiInv, Crash
    PROVE  ApiInv'
    <1>1. /\ UNCHANGED <<storeVars, clock, posted>> /\ crashes < MaxCrashes
          /\ crashes' = crashes + 1 /\ drawn' = 0
          /\ req' = [r \in Req |-> IF Running(r) THEN [req[r] EXCEPT !.pc = "gone"] ELSE req[r]]
        BY DEF Crash
    <1>2. StoreSide' /\ PostedFine'
        BY <1>1, QuietSide, PostedStays DEF ApiInv
    <1>3. ClockSide'
        BY <1>1, StreamAssumption DEF ApiInv, ClockSide
    <1>4. ASSUME NEW r \in Req
          PROVE  /\ Fine(req'[r], charges, payments, refunds) /\ Timely(req'[r], clock)
                 /\ req'[r].kind = req[r].kind /\ req'[r].code = req[r].code
                 /\ req'[r].txid = req[r].txid /\ req'[r].e2e = req[r].e2e
        <2> DEFINE old == req[r]
                   q == [old EXCEPT !.pc = "gone"]
        <2>1. DOMAIN old = Fields /\ Fine(old, charges, payments, refunds) /\ Timely(old, clock)
            BY Readable DEF ApiInv, RequestSide
        <2>2. CASE Running(r)
            <3>1. req'[r] = q /\ old.pc # "idle"
                BY <1>1, <2>2 DEF Running
            <3>2. Same(q, old, {"pc"}) /\ q.pc = "gone"
                BY <2>1 DEF Same, Fields
            <3> HIDE DEF q, old
            <3>3. /\ q.since = old.since /\ q.at = old.at /\ q.kind = old.kind
                  /\ q.code = old.code /\ q.txid = old.txid /\ q.e2e = old.e2e
                BY <3>2 DEF Same, Fields
            <3>4. Fine(q, charges, payments, refunds)
                BY <2>1, <3>1, <3>2, GoneFine
            <3>5. Timely(q, clock)
                BY <2>1, <3>3 DEF Timely
            <3>6. /\ Fine(req'[r], charges, payments, refunds) /\ Timely(req'[r], clock)
                  /\ req'[r].kind = old.kind /\ req'[r].code = old.code
                  /\ req'[r].txid = old.txid /\ req'[r].e2e = old.e2e
                BY <3>1, <3>3, <3>4, <3>5
            <3> QED
                BY <3>6 DEF old
        <2>3. CASE ~Running(r)
            BY <1>1, <2>1, <2>3
        <2> QED
            BY <2>2, <2>3
    <1>5. /\ \A r \in Req : Fine(req'[r], charges', payments', refunds') /\ Timely(req'[r], clock')
          /\ \A r, s \in Req : r # s => ~Clash(req'[r], req'[s])
        <2>1. \A r, s \in Req : r # s => ~Clash(req[r], req[s])
            BY DEF ApiInv, RequestSide
        <2>2. \A r \in Req : Fine(req'[r], charges', payments', refunds') /\ Timely(req'[r], clock')
            BY <1>1, <1>4 DEF storeVars
        <2>3. \A r, s \in Req : r # s => ~Clash(req'[r], req'[s])
            BY <1>4, <2>1 DEF Clash
        <2> QED
            BY <2>2, <2>3
    <1>6. req' = [r \in Req |-> req'[r]]
        BY <1>1
    <1> QED
        BY <1>2, <1>3, <1>5, <1>6 DEF ApiInv, RequestSide

-----------------------------------------------------------------------------
(***************************************************************************)
(* The database an earlier run left satisfies the store's invariant.       *)
(***************************************************************************)
Position(t) == CHOOSE n \in DOMAIN Earlier : Earlier[n] = t

LEMMA Positions ==
    /\ \A t \in Range(Earlier) : Position(t) \in DOMAIN Earlier /\ Earlier[Position(t)] = t
    /\ \A n \in DOMAIN Earlier : /\ Earlier[n] \in Range(Earlier) /\ Position(Earlier[n]) = n
                                 /\ n \in Nat \ {0}
    /\ Range(Earlier) \subseteq TxId
    <1>1. \A t \in Range(Earlier) : \E n \in DOMAIN Earlier : Earlier[n] = t
        BY DEF Range
    <1>2. \A t \in Range(Earlier) : Position(t) \in DOMAIN Earlier /\ Earlier[Position(t)] = t
        BY <1>1 DEF Position
    <1>3. \A n \in DOMAIN Earlier : Earlier[n] \in Range(Earlier) /\ n \in Nat \ {0} /\ Earlier[n] \in TxId
        BY EarlierAssumption DEF Range
    <1>4. \A n \in DOMAIN Earlier : Position(Earlier[n]) = n
        BY <1>2, <1>3, EarlierAssumption DEF IsInjective
    <1>5. Range(Earlier) \subseteq TxId
        BY <1>3 DEF Range
    <1> QED
        BY <1>2, <1>3, <1>4, <1>5

LEMMA EarlierTyped ==
    ASSUME NEW n \in DOMAIN Earlier
    PROVE  /\ EarlierCharge(n) \in ChargeRow
           /\ EarlierCharge(n).status = "ATIVA" /\ EarlierCharge(n).locId = n
           /\ EventAt(ChargeAggregate(Earlier[n]), "cob.created", 0,
                      ChargePayload(EarlierCharge(n))) \in Event
    <1>1. /\ n \in Nat \ {0} /\ Earlier # <<>> /\ Earlier[n] \in TxId
        BY Positions, EarlierAssumption
    <1>2. Min(Amount) \in Amount /\ Max(Window) \in Nat /\ (CHOOSE c \in Chave : TRUE) \in Chave
        BY <1>1, EarlierAssumption, WindowAssumption
    <1> DEFINE cents == Min(Amount)
               chave == CHOOSE c \in Chave : TRUE
               ends == Max(Window)
    <1>3. EarlierCharge(n) =
              [status |-> "ATIVA", cents |-> cents, chave |-> chave, locId |-> n,
               revisao |-> 0, createdAt |-> 0, expiresAt |-> ends]
        BY DEF EarlierCharge
    <1>4. cents \in Amount /\ chave \in Chave /\ ends \in Nat
        BY <1>2
    <1> HIDE DEF cents, chave, ends
    <1>5. EarlierCharge(n) \in ChargeRow
        BY <1>1, <1>3, <1>4, EarlierAssumption DEF ChargeRow, ChargeStatus
    <1>6. ChargePayload(EarlierCharge(n)) \in Body
        <2>1. ChargePayload(EarlierCharge(n)) =
                  [status |-> "ATIVA", cents |-> cents, chave |-> chave, locId |-> n,
                   createdAt |-> 0, expiresAt |-> ends]
            BY <1>3 DEF ChargePayload
        <2> QED
            BY <1>1, <1>4, <2>1, EarlierAssumption DEF Body, ChargeStatus
    <1>7. ChargeAggregate(Earlier[n]) \in Aggregate
        BY <1>1 DEF Aggregate, ChargeAggregate
    <1>8. EventAt(ChargeAggregate(Earlier[n]), "cob.created", 0,
                  ChargePayload(EarlierCharge(n))) \in Event
        BY <1>6, <1>7, EarlierAssumption, EventTyped DEF EventType
    <1> QED
        BY <1>3, <1>5, <1>8

LEMMA InitStep ==
    ASSUME ApiInit
    PROVE  ApiInv
    <1>1. /\ DOMAIN charges = Range(Earlier)
          /\ \A t \in DOMAIN charges : charges[t] = EarlierCharge(Position(t))
          /\ charges = [t \in DOMAIN charges |-> charges[t]]
        BY DEF ApiInit, Position
    <1>2. /\ events = [n \in DOMAIN Earlier |->
                          EventAt(ChargeAggregate(Earlier[n]), "cob.created", 0,
                                  ChargePayload(EarlierCharge(n)))]
          /\ DOMAIN events = DOMAIN Earlier
        BY DEF ApiInit
    <1>3. /\ payments = Empty /\ refunds = Empty /\ webhooks = Empty
          /\ DOMAIN payments = {} /\ DOMAIN refunds = {}
        BY DEF ApiInit, Empty
    <1>4. TypeOK
        <2>1. \A K, R : Typed(Empty, K, R)
            BY DEF Typed, Empty
        <2>2. Typed(charges, TxId, ChargeRow)
            BY <1>1, Positions, EarlierTyped DEF Typed
        <2>3. events \in Seq(Event)
            <3>1. DOMAIN Earlier = 1 .. Len(Earlier) /\ Len(Earlier) \in Nat
                BY EarlierAssumption
            <3>2. events \in [1 .. Len(Earlier) -> Event]
                BY <1>2, <3>1, EarlierTyped
            <3> QED
                BY <3>1, <3>2
        <2> QED
            BY <1>3, <2>1, <2>2, <2>3 DEF TypeOK
    <1>5. NumbersDense
        <2>1. Dense({})
            <3>1. 0 \in {} \cup {0} /\ \A y \in {} \cup {0} : 0 >= y
                OBVIOUS
            <3>2. Max({} \cup {0}) = 0
                BY <3>1 DEF Max
            <3>3. {} = 1 .. 0
                OBVIOUS
            <3> QED
                BY <3>2, <3>3 DEF Dense
        <2>2. LocIds = 1 .. Len(Earlier) /\ Len(Earlier) \in Nat
            <3>1. DOMAIN Earlier = 1 .. Len(Earlier) /\ Len(Earlier) \in Nat
                BY EarlierAssumption
            <3>2. \A t \in DOMAIN charges : charges[t].locId = Position(t)
                BY <1>1, Positions, EarlierTyped
            <3>3. \A n \in DOMAIN Earlier : \E t \in DOMAIN charges : charges[t].locId = n
                BY <1>1, <3>2, Positions
            <3>4. \A t \in DOMAIN charges : charges[t].locId \in DOMAIN Earlier
                BY <1>1, <3>2, Positions
            <3> QED
                BY <3>1, <3>3, <3>4 DEF LocIds
        <2>3. Dense(LocIds)
            <3> DEFINE top == Len(Earlier)
            <3> HIDE DEF top
            <3>1. top \in Nat /\ LocIds = 1 .. top
                BY <2>2 DEF top
            <3>2. top \in LocIds \cup {0} /\ \A y \in LocIds \cup {0} : top >= y
                BY <3>1
            <3>3. Max(LocIds \cup {0}) = top
                <4> DEFINE last == Max(LocIds \cup {0})
                <4>1. last \in LocIds \cup {0} /\ \A y \in LocIds \cup {0} : last >= y
                    BY <3>2 DEF Max
                <4> HIDE DEF last
                <4>2. last = top
                    BY <3>1, <3>2, <4>1
                <4> QED
                    BY <4>2 DEF last
            <3> QED
                BY <3>1, <3>3 DEF Dense
        <2>4. \A t, u \in DOMAIN charges : charges[t].locId = charges[u].locId => t = u
            <3>1. \A t \in DOMAIN charges : charges[t].locId = Position(t) /\ Earlier[Position(t)] = t
                BY <1>1, Positions, EarlierTyped
            <3> QED
                BY <3>1
        <2>5. PaymentSeqs = {} /\ RefundSeqs = {}
            BY <1>3 DEF PaymentSeqs, RefundSeqs
        <2> QED
            BY <1>3, <2>1, <2>3, <2>4, <2>5
               DEF NumbersDense, LocIdsDense, PaymentSeqsDense, RefundSeqsDense
    <1>6. \A t \in DOMAIN charges : charges[t].status = "ATIVA"
        BY <1>1, Positions, EarlierTyped
    <1>7. TableInv
        BY <1>3, <1>4, <1>5, <1>6 DEF TableInv, SettledOnce, RefundCap
    <1>8. \A n \in DOMAIN events :
              /\ events[n].type = "cob.created" /\ events[n].agg = ChargeAggregate(Earlier[n])
              /\ events[n].agg[1] = "cob" /\ Earlier[n] \in DOMAIN charges
        BY <1>1, <1>2, Positions, AggregateShapes DEF EventAt
    <1>9. \A t \in DOMAIN charges : \E n \in DOMAIN events : Earlier[n] = t
        BY <1>1, <1>2, Positions
    <1>10. LogAgrees
        <2>1. \A t, type : Has(events, ChargeAggregate(t), type)
                  <=> (type = "cob.created" /\ \E n \in DOMAIN events : Earlier[n] = t)
            BY <1>8, AggregateShapes DEF Has
        <2>2. \A t : t \in DOMAIN charges <=> \E n \in DOMAIN events : Earlier[n] = t
            BY <1>8, <1>9
        <2> QED
            BY <1>6, <2>1, <2>2 DEF LogAgrees, Stored
    <1>11. ReceiptsLogged /\ OwnersStored /\ WindowRespected
        BY <1>3, <1>8 DEF ReceiptsLogged, OwnersStored, WindowRespected, CobTypes
    <1>12. LogFollowsMachine
        <2>1. \A i, j \in DOMAIN events : events[i].agg = events[j].agg => i = j
            <3>1. \A i, j \in DOMAIN events : events[i].agg = events[j].agg => Earlier[i] = Earlier[j]
                BY <1>8, AggregateShapes
            <3> QED
                BY <1>2, <3>1, Positions
        <2>2. \A i \in DOMAIN events : ~(i < i)
            BY <1>2, Positions
        <2> QED
            BY <2>1, <2>2 DEF LogFollowsMachine
    <1>13. StoreSide
        BY <1>3, <1>7, <1>10, <1>11, <1>12 DEF StoreSide, StoreLogInv, FullRefunds
    <1>14. ClockSide
        BY EarlierAssumption, StreamAssumption DEF ApiInit, ClockSide
    <1>15. PostedFine
        BY DEF ApiInit, PostedFine
    <1>16. RequestSide
        <2>1. req = [r \in Req |-> Idle] /\ clock = 0
            BY DEF ApiInit
        <2>2. /\ Idle.kind = "none" /\ Idle.pc = "idle" /\ Idle.since = 0 /\ Idle.at = 0
              /\ Idle.returns = {} /\ Idle.code = 0
            BY DEF Idle
        <2>3. Fine(Idle, charges, payments, refunds) /\ Timely(Idle, 0) /\ ~Clash(Idle, Idle)
            BY <2>2, IdleFields
               DEF Fine, Staged, InStage, Unanswered, CreationFine, PayFine, RefundFine, Timely, Clash
        <2> HIDE DEF Idle
        <2>4. \A r \in Req : req[r] = Idle
            BY <2>1
        <2>5. req = [r \in Req |-> req[r]]
            BY <2>1
        <2> QED
            BY <2>1, <2>3, <2>4, <2>5 DEF RequestSide
    <1> QED
        BY <1>13, <1>14, <1>15, <1>16 DEF ApiInv

LEMMA StutterStep ==
    ASSUME ApiInv, UNCHANGED allVars
    PROVE  ApiInv'
    <1>1. UNCHANGED storeVars /\ UNCHANGED <<clock, req, posted, drawn, crashes>>
        BY DEF allVars, apiVars
    <1>2. StoreSide' /\ PostedFine'
        BY <1>1, QuietSide, PostedStays DEF ApiInv
    <1>3. ClockSide'
        BY <1>1 DEF ApiInv, ClockSide
    <1>4. RequestSide'
        BY <1>1 DEF ApiInv, RequestSide, storeVars
    <1> QED
        BY <1>2, <1>3, <1>4 DEF ApiInv

LEMMA ApiStep ==
    ASSUME ApiInv, [ApiNext]_allVars
    PROVE  ApiInv'
    <1>1. ASSUME NEW r \in Req, Handle(r)
          PROVE  ApiInv'
        BY <1>1, BuildMintedStep, StoreCobStep, LoadCobStep, RespondCobStep, PayExpireStep,
           PaySettleStep, LoadPaymentStep, StoreRefundStep, ReloadPaymentStep, NotifyStep,
           PutHookStep
           DEF Handle
    <1>2. ASSUME NEW r \in Req, Arrive(r) \/ NotifyFails(r) \/ Cancel(r)
          PROVE  ApiInv'
        BY <1>2, ArriveStep, NotifyFailsStep, CancelStep
    <1>3. CASE Tick
        BY <1>3, TickStep
    <1>4. CASE Crash
        BY <1>4, CrashStep
    <1>5. CASE UNCHANGED allVars
        BY <1>5, StutterStep
    <1> QED
        BY <1>1, <1>2, <1>3, <1>4, <1>5 DEF ApiNext

-----------------------------------------------------------------------------
(***************************************************************************)
(* The theorems.                                                           *)
(***************************************************************************)
\* In every reachable state each handler's locals agree with the tables.
THEOREM ApiCorrect == ApiSpec => []ApiInv
    <1>1. ApiInit => ApiInv
        BY InitStep
    <1>2. ApiInv /\ [ApiNext]_allVars => ApiInv'
        BY ApiStep
    <1> QED
        BY <1>1, <1>2, PTL DEF ApiSpec

\* The tables and the log keep, under the handlers, what the store's own
\* theorems say of arbitrary sequences of transactions.
THEOREM ApiKeepsStore == ApiSpec => []StoreLogInv
    <1>1. ApiInv => StoreLogInv
        BY DEF ApiInv, StoreSide
    <1> QED
        BY <1>1, ApiCorrect, PTL

\* The locals of every handler are typed, readings of the clock lie in the past,
\* and a callback is only ever of a payment that is stored.
THEOREM ApiTyped == ApiSpec => []ApiTypeOK
    <1>1. ApiInv => ApiTypeOK
        <2> SUFFICES ASSUME ApiInv PROVE ApiTypeOK
            OBVIOUS
        <2>1. \A r \in Req : Fine(req[r], charges, payments, refunds) /\ Timely(req[r], clock)
            BY DEF ApiInv, RequestSide
        <2>2. \A r \in Req : /\ DOMAIN req[r] = DOMAIN Idle
                             /\ req[r].since \in 0 .. clock /\ req[r].at \in 0 .. clock
                             /\ req[r].code \in {0, 200, 201, 400, 404, 409, 500}
            BY <2>1, IdleFields DEF Fine, Staged, Timely
        <2> QED
            BY <2>2 DEF ApiInv, ClockSide, PostedFine, ApiTypeOK
    <1> QED
        BY <1>1, ApiCorrect, PTL

\* INV-2 over the wire: no two requests are both told that they created the same
\* charge, paid it, or returned the same payment.
THEOREM OnlyOneWins == ApiSpec => []OneWinner
    <1>1. ApiInv => OneWinner
        <2> SUFFICES ASSUME ApiInv, NEW r \in Req, NEW s \in Req, r # s,
                            req[r].code = 201, req[s].code = 201,
                            req[r].kind # "hook", req[s].kind # "hook"
                     PROVE  Claim(r) # Claim(s)
            BY DEF OneWinner
        <2>1. ~Clash(req[r], req[s])
            BY DEF ApiInv, RequestSide
        <2>2. Fine(req[r], charges, payments, refunds) /\ Fine(req[s], charges, payments, refunds)
            BY DEF ApiInv, RequestSide
        <2>3. /\ req[r].kind \in {"create", "mint", "pay", "refund"}
              /\ req[s].kind \in {"create", "mint", "pay", "refund"}
            BY <2>2 DEF Fine, Staged, InStage, Unanswered
        <2> QED
            BY <2>1, <2>3 DEF Clash, Claim
    <1> QED
        BY <1>1, ApiCorrect, PTL

\* A request without txid is answered 201 with a charge of the amount it asked
\* for, which is the one stored under the minted txid.
THEOREM MintsOwn == ApiSpec => []MintServesItsOwn
    <1>1. ApiInv => MintServesItsOwn
        <2> SUFFICES ASSUME ApiInv, NEW r \in Req, req[r].kind = "mint",
                            req[r].pc \in {"respond", "done"}, req[r].code # 500
                     PROVE  /\ req[r].code = 201
                            /\ req[r].seen.cents = req[r].cents
                            /\ charges[req[r].txid].createdAt = req[r].seen.createdAt
            BY DEF MintServesItsOwn
        <2>1. CreationFine(req[r], charges)
            BY DEF ApiInv, RequestSide, Fine
        <2> QED
            BY <2>1 DEF CreationFine
    <1> QED
        BY <1>1, ApiCorrect, PTL

\* A payer told 201 or 409 is shown the payment of that charge, and one told that
\* the charge is unpayable is told of an expiry that is on the log.
THEOREM PayersToldTruth == ApiSpec => []PayAnswersTrue
    <1>1. ApiInv => PayAnswersTrue
        <2> SUFFICES ASSUME ApiInv, NEW r \in Req, req[r].kind = "pay", req[r].pc = "done"
                     PROVE  /\ req[r].code \in {201, 409} =>
                                  /\ req[r].shown \in DOMAIN payments
                                  /\ payments[req[r].shown].txid = req[r].txid
                            /\ req[r].code = 400 =>
                                  Occurs(ChargeAggregate(req[r].txid), "cob.expired")
            BY DEF PayAnswersTrue
        <2>1. PayFine(req[r], charges, payments)
            BY DEF ApiInv, RequestSide, Fine
        <2>2. LogAgrees /\ DOMAIN charges \subseteq TxId
            BY DEF ApiInv, StoreSide, StoreLogInv, TableInv, TypeOK, Typed
        <2>3. req[r].code = 400 => Has(events, ChargeAggregate(req[r].txid), "cob.expired")
            BY <2>1, <2>2 DEF PayFine, LogAgrees, Stored
        <2> QED
            BY <2>1, <2>3 DEF PayFine, Has, Occurs
    <1> QED
        BY <1>1, ApiCorrect, PTL

\* A refund told 200 or 201 is shown the refund stored under its id, and one for
\* the full amount is only refused when its id has none.
THEOREM RefundersToldTruth == ApiSpec => []RefundAnswersTrue
    <1>1. ApiInv => RefundAnswersTrue
        <2> SUFFICES ASSUME ApiInv, NEW r \in Req, req[r].kind = "refund", req[r].pc = "done"
                     PROVE  LET key == <<req[r].e2e, req[r].id>> IN
                            /\ req[r].code \in {200, 201} =>
                                  key \in DOMAIN refunds /\ req[r].shown = refunds[key].rtrId
                            /\ req[r].code = 400 /\ req[r].cents = payments[req[r].e2e].cents =>
                                  key \notin DOMAIN refunds
            BY DEF RefundAnswersTrue
        <2>1. RefundFine(req[r], payments, refunds)
            BY DEF ApiInv, RequestSide, Fine
        <2> QED
            BY <2>1 DEF RefundFine
    <1> QED
        BY <1>1, ApiCorrect, PTL

-----------------------------------------------------------------------------
(***************************************************************************)
(* CallbackOwed needs more: an endpoint that is on the log is stored, a    *)
(* payment that has a refund has nothing left to return, and a callback    *)
(* that was posted belongs to a request that has been answered.            *)
(***************************************************************************)
Received == "pix.received"
Returned == "pix.devolucao.settled"

\* Hooked, over any log.
HookedIn(log, chave, e2e, type) ==
    \E i, j \in DOMAIN log :
        /\ i < j
        /\ log[i].agg = WebhookAggregate(chave)
        /\ log[j].agg = PaymentAggregate(e2e) /\ log[j].type = type

HooksStored ==
    \A chave : (\E i \in DOMAIN events : events[i].agg = WebhookAggregate(chave))
                   => chave \in DOMAIN webhooks

RefundsSpend == \A k \in DOMAIN refunds : k[1] \in DOMAIN payments /\ Spent(payments, k[1])

HookSideInv == HooksStored /\ RefundsSpend

\* Nothing that is already stored becomes hooked: an endpoint registered later
\* stands later in the log.
HooksFixed ==
    /\ \A e \in DOMAIN payments :
          /\ payments'[e].chave = payments[e].chave
          /\ HookedIn(events', payments[e].chave, e, Received)
                => HookedIn(events, payments[e].chave, e, Received)
    /\ \A k \in DOMAIN refunds :
          HookedIn(events', payments[k[1]].chave, k[1], Returned)
                => HookedIn(events, payments[k[1]].chave, k[1], Returned)
    /\ DOMAIN webhooks \subseteq DOMAIN webhooks'

LEMMA NoNewHook ==
    ASSUME NEW log, NEW after, Extends(log, after), NEW chave, NEW e2e, NEW type,
           \A n \in NewIds(log, after) : after[n].agg # PaymentAggregate(e2e) \/ after[n].type # type,
           HookedIn(after, chave, e2e, type)
    PROVE  HookedIn(log, chave, e2e, type)
    <1>1. PICK i \in DOMAIN after, j \in DOMAIN after :
              /\ i < j /\ after[i].agg = WebhookAggregate(chave)
              /\ after[j].agg = PaymentAggregate(e2e) /\ after[j].type = type
        BY DEF HookedIn
    <1>2. j \in DOMAIN log /\ after[j] = log[j]
        BY <1>1 DEF NewIds, Extends
    <1>3. i \in DOMAIN log /\ after[i] = log[i]
        BY <1>1, <1>2 DEF NewIds, Extends
    <1> QED
        BY <1>1, <1>2, <1>3 DEF HookedIn

\* A transaction, by the events it logs.
LEMMA HooksFixedBy ==
    ASSUME StoreSide, HookSideInv, Extends(events, events'),
           \A e \in DOMAIN payments : payments'[e].chave = payments[e].chave,
           DOMAIN webhooks \subseteq DOMAIN webhooks',
           \A n \in NewIds(events, events'), e \in DOMAIN payments :
               events'[n].agg = PaymentAggregate(e) =>
                   /\ events'[n].type # Received
                   /\ events'[n].type = Returned => ~Spent(payments, e)
    PROVE  HooksFixed
    <1>1. \A e \in DOMAIN payments :
              HookedIn(events', payments[e].chave, e, Received)
                  => HookedIn(events, payments[e].chave, e, Received)
        BY NoNewHook
    <1>2. ASSUME NEW k \in DOMAIN refunds, HookedIn(events', payments[k[1]].chave, k[1], Returned)
          PROVE  HookedIn(events, payments[k[1]].chave, k[1], Returned)
        <2>1. k[1] \in DOMAIN payments /\ Spent(payments, k[1])
            BY DEF HookSideInv, RefundsSpend
        <2> QED
            BY <1>2, <2>1, NoNewHook
    <1> QED
        BY <1>1, <1>2 DEF HooksFixed

LEMMA QuietHooks ==
    ASSUME StoreSide, HookSideInv, UNCHANGED storeVars
    PROVE  HookSideInv' /\ HooksFixed
    BY DEF HookSideInv, HooksStored, RefundsSpend, HooksFixed, storeVars, Spent

\* The transactions that log one event of a charge.
LEMMA CobHooks ==
    ASSUME StoreSide, HookSideInv, UNCHANGED <<payments, refunds, webhooks>>,
           NEW event, events' = Append(events, event), event.agg[1] = "cob"
    PROVE  HookSideInv' /\ HooksFixed
    <1>1. events \in Seq(Event)
        BY DEF StoreSide, StoreLogInv, TableInv, TypeOK
    <1>2. PICK n : /\ Extends(events, events') /\ NewIds(events, events') = {n}
                   /\ events'[n] = event
        BY <1>1, OneMore
    <1>3. HooksFixed
        <2>1. \A e : event.agg # PaymentAggregate(e)
            BY AggregateShapes
        <2> QED
            BY <1>2, <2>1, HooksFixedBy
    <1>4. HooksStored'
        <2>1. \A chave : event.agg # WebhookAggregate(chave)
            BY AggregateShapes
        <2>2. \A i \in DOMAIN events' : events'[i] = event \/ (i \in DOMAIN events /\ events'[i] = events[i])
            BY <1>2 DEF Extends, NewIds
        <2> QED
            BY <2>1, <2>2 DEF HookSideInv, HooksStored
    <1> QED
        BY <1>3, <1>4 DEF HookSideInv, RefundsSpend, Spent

LEMMA CreateHooks ==
    ASSUME StoreSide, HookSideInv, NEW txid, NEW cents, NEW chave, NEW window, NEW now,
           CreateCharge(txid, cents, chave, window, now)
    PROVE  HookSideInv' /\ HooksFixed
    <1>1. PICK event : events' = Append(events, event) /\ event.agg = ChargeAggregate(txid)
        BY DEF CreateCharge, EventAt
    <1>2. UNCHANGED <<payments, refunds, webhooks>>
        BY DEF CreateCharge
    <1> QED
        BY <1>1, <1>2, CobHooks, AggregateShapes

LEMMA ExpireHooks ==
    ASSUME StoreSide, HookSideInv, NEW txid, NEW now, ExpireCharge(txid, now)
    PROVE  HookSideInv' /\ HooksFixed
    <1>1. PICK event : events' = Append(events, event) /\ event.agg = ChargeAggregate(txid)
        BY DEF ExpireCharge, EventAt
    <1>2. UNCHANGED <<payments, refunds, webhooks>>
        BY DEF ExpireCharge
    <1> QED
        BY <1>1, <1>2, CobHooks, AggregateShapes

\* Two events of no endpoint.
LEMMA TwoLogged ==
    ASSUME StoreSide, HooksStored, webhooks' = webhooks, NEW first, NEW second,
           events' = events \o <<first, second>>,
           first.agg[1] # "webhook", second.agg[1] # "webhook"
    PROVE  /\ HooksStored' /\ Extends(events, events')
           /\ \A n \in NewIds(events, events') : events'[n] \in {first, second}
    <1>1. events \in Seq(Event)
        BY DEF StoreSide, StoreLogInv, TableInv, TypeOK
    <1>2. /\ Extends(events, events')
          /\ \A n \in NewIds(events, events') : events'[n] \in {first, second}
        <2>1. /\ Extends(events, events')
              /\ NewIds(events, events') = {Len(events) + 1, Len(events) + 2}
              /\ events'[Len(events) + 1] = first /\ events'[Len(events) + 2] = second
            BY <1>1, TwoMore
        <2> QED
            BY <2>1
    <1>3. HooksStored'
        <2>1. \A chave : first.agg # WebhookAggregate(chave) /\ second.agg # WebhookAggregate(chave)
            BY AggregateShapes
        <2>2. \A i \in DOMAIN events' :
                  events'[i] \in {first, second} \/ (i \in DOMAIN events /\ events'[i] = events[i])
            BY <1>2 DEF Extends, NewIds
        <2> QED
            BY <2>1, <2>2 DEF HooksStored
    <1> QED
        BY <1>2, <1>3

LEMMA SettleHooks ==
    ASSUME StoreSide, HookSideInv, NEW txid \in TxId, NEW now \in Time, NEW rnd \in RandomHalf,
           SettleCharge(txid, now, rnd)
    PROVE  /\ HookSideInv' /\ HooksFixed
           /\ DOMAIN payments' = DOMAIN payments \cup {NextE2EID(now, rnd)}
    <1> DEFINE e2e == NextE2EID(now, rnd)
               payment == NewPayment(txid, NextNumber(PaymentSeqs), now)
               received == EventAt(PaymentAggregate(e2e), "pix.received", now,
                                   PaymentPayload(payment))
               settled == EventAt(ChargeAggregate(txid), "cob.settled", now,
                                  [status |-> "CONCLUIDA", e2e |-> e2e, cents |-> payment.cents])
    <1>1. /\ received.agg = PaymentAggregate(e2e) /\ received.type = "pix.received"
          /\ settled.agg = ChargeAggregate(txid) /\ settled.type = "cob.settled"
        BY EventParts
    <1>2. /\ events' = events \o <<received, settled>>
          /\ e2e \notin DOMAIN payments /\ payments' = Insert(payments, e2e, payment)
          /\ UNCHANGED <<refunds, webhooks>>
        BY DEF SettleCharge, NextE2EID, PaymentAccepted
    <1> HIDE DEF received, settled, payment
    <1>3. /\ DOMAIN payments' = DOMAIN payments \cup {e2e}
          /\ \A e \in DOMAIN payments : payments'[e] = payments[e]
        BY <1>2 DEF Insert
    <1> HIDE DEF e2e
    <1>4. /\ HooksStored' /\ Extends(events, events')
          /\ \A n \in NewIds(events, events') : events'[n] \in {received, settled}
        BY <1>1, <1>2, TwoLogged, AggregateShapes DEF HookSideInv
    <1>5. \A n \in NewIds(events, events'), e \in DOMAIN payments : events'[n].agg # PaymentAggregate(e)
        <2>1. \A e \in DOMAIN payments : received.agg # PaymentAggregate(e)
            BY <1>1, <1>2, AggregateShapes
        <2>2. \A e : settled.agg # PaymentAggregate(e)
            BY <1>1, AggregateShapes
        <2> QED
            BY <1>4, <2>1, <2>2
    <1>6. HooksFixed
        BY <1>2, <1>3, <1>4, <1>5, HooksFixedBy
    <1>7. RefundsSpend'
        BY <1>2, <1>3 DEF HookSideInv, RefundsSpend, Spent
    <1> QED
        BY <1>3, <1>4, <1>6, <1>7 DEF HookSideInv, e2e

LEMMA RefundHooks ==
    ASSUME StoreSide, HookSideInv, NEW e2e \in DOMAIN payments, NEW id \in RefundId,
           NEW cents \in Amount, NEW now \in Time, NEW rnd \in RandomHalf,
           CreateRefund(e2e, id, cents, now, rnd), cents = payments[e2e].cents
    PROVE  /\ HookSideInv' /\ HooksFixed
           /\ DOMAIN payments' = DOMAIN payments
           /\ DOMAIN refunds' = DOMAIN refunds \cup {<<e2e, id>>}
    <1> DEFINE seq == NextNumber(RefundSeqs)
               key == <<e2e, id>>
               row == RefundAs("DEVOLVIDO", cents, seq, now, rnd)
               asking == EventAt(PaymentAggregate(e2e), "pix.devolucao.requested", now,
                   RefundPayload(id, RefundAs("EM_PROCESSAMENTO", cents, seq, now, rnd)))
               giving == EventAt(PaymentAggregate(e2e), "pix.devolucao.settled", now,
                   RefundPayload(id, RefundAs("DEVOLVIDO", cents, seq, now, rnd)))
    <1>1. /\ asking.agg = PaymentAggregate(e2e) /\ asking.type = "pix.devolucao.requested"
          /\ giving.agg = PaymentAggregate(e2e) /\ giving.type = "pix.devolucao.settled"
        BY EventParts
    <1>2. /\ events' = events \o <<asking, giving>>
          /\ refunds' = Insert(refunds, key, row)
          /\ webhooks' = webhooks
        BY DEF CreateRefund, RefundTrail
    <1> HIDE DEF asking, giving, row
    <1>3. key[1] = e2e /\ DOMAIN refunds' = DOMAIN refunds \cup {key}
        BY <1>2 DEF Insert
    <1>4. payments \in [DOMAIN payments -> PaymentRow]
        BY PaymentsTyped
    <1>5. /\ DOMAIN payments' = DOMAIN payments
          /\ \A e \in DOMAIN payments : payments'[e].chave = payments[e].chave
        BY <1>4 DEF CreateRefund, PaymentRow
    <1>6. TablesGrow /\ ~Spent(payments, e2e) /\ Spent(payments', e2e)
        BY RefundSide
    <1> HIDE DEF key
    <1>7. /\ HooksStored' /\ Extends(events, events')
          /\ \A n \in NewIds(events, events') : events'[n] \in {asking, giving}
        BY <1>1, <1>2, TwoLogged, AggregateShapes DEF HookSideInv
    <1>8. \A n \in NewIds(events, events'), e \in DOMAIN payments :
              events'[n].agg = PaymentAggregate(e) =>
                  /\ events'[n].type # Received
                  /\ events'[n].type = Returned => ~Spent(payments, e)
        BY <1>1, <1>6, <1>7, AggregateShapes DEF Received
    <1>9. HooksFixed
        BY <1>2, <1>5, <1>7, <1>8, HooksFixedBy
    <1>10. RefundsSpend'
        BY <1>3, <1>5, <1>6 DEF HookSideInv, RefundsSpend, TablesGrow, Grown
    <1> QED
        BY <1>3, <1>5, <1>7, <1>9, <1>10 DEF HookSideInv, key

LEMMA WebhookHooks ==
    ASSUME StoreSide, HookSideInv, NEW chave, NEW url, NEW now, PutWebhook(chave, url, now)
    PROVE  HookSideInv' /\ HooksFixed
    <1>1. PICK event : events' = Append(events, event) /\ event.agg = WebhookAggregate(chave)
        BY DEF PutWebhook, EventAt
    <1>2. /\ UNCHANGED <<charges, payments, refunds>>
          /\ DOMAIN webhooks' = DOMAIN webhooks \cup {chave}
        BY DEF PutWebhook, Insert
    <1>3. events \in Seq(Event)
        BY DEF StoreSide, StoreLogInv, TableInv, TypeOK
    <1>4. PICK n : /\ Extends(events, events') /\ NewIds(events, events') = {n}
                   /\ events'[n] = event
        BY <1>1, <1>3, OneMore
    <1>5. HooksFixed
        <2>1. \A e : event.agg # PaymentAggregate(e)
            BY <1>1, AggregateShapes
        <2> QED
            BY <1>2, <1>4, <2>1, HooksFixedBy
    <1>6. HooksStored'
        <2>1. \A other : event.agg = WebhookAggregate(other) => other = chave
            BY <1>1 DEF WebhookAggregate
        <2>2. \A i \in DOMAIN events' : events'[i] = event \/ (i \in DOMAIN events /\ events'[i] = events[i])
            BY <1>4 DEF Extends, NewIds
        <2> QED
            BY <1>2, <2>1, <2>2 DEF HookSideInv, HooksStored
    <1> QED
        BY <1>2, <1>5, <1>6 DEF HookSideInv, RefundsSpend, Spent

-----------------------------------------------------------------------------
(***************************************************************************)
(* The requests that owe a callback, and those that posted one.            *)
(***************************************************************************)
Late == {"reload", "notify", "gone", "dropped"}

Owes(q, e2e, kind) == q.kind = kind /\ q.e2e = e2e /\ q.code = 201 /\ q.pc \in Late

\* The callback of a refund lists every refund of the payment.
CallbackKnown(q, re) ==
    /\ q.kind # "refund" => q.returns = {}
    /\ q.kind = "refund" /\ q.pc = "notify" =>
          \A k \in DOMAIN re : k[1] = q.e2e => k \in q.returns

PostedPayment(log, e) == \E i \in DOMAIN log : log[i] = [e2e |-> e, returns |-> {}]
PostedRefund(log, k) == \E i \in DOMAIN log : log[i].e2e = k[1] /\ k \in log[i].returns

OwedPayments ==
    \A e \in DOMAIN payments :
        HookedIn(events, payments[e].chave, e, Received) =>
            (\E r \in Req : Owes(req[r], e, "pay")) \/ PostedPayment(posted, e)

OwedRefunds ==
    \A k \in DOMAIN refunds :
        HookedIn(events, payments[k[1]].chave, k[1], Returned) =>
            (\E r \in Req : Owes(req[r], k[1], "refund")) \/ PostedRefund(posted, k)

Posts(q, callback) ==
    /\ q.pc = "done" /\ q.code = 201 /\ q.e2e = callback.e2e
    /\ q.kind = IF callback.returns = {} THEN "pay" ELSE "refund"

PostedOnce ==
    /\ \A i, j \in DOMAIN posted : posted[i] = posted[j] => i = j
    /\ \A i \in DOMAIN posted : \E r \in Req : Posts(req[r], posted[i])

CallInv ==
    /\ HookSideInv
    /\ \A r \in Req : CallbackKnown(req[r], refunds)
    /\ OwedPayments /\ OwedRefunds /\ PostedOnce

\* What a step of a request that owes nothing yet leaves as it was.
LEMMA OwedKept ==
    ASSUME CallInv, HooksFixed, TablesGrow,
           \A i \in DOMAIN posted : i \in DOMAIN posted' /\ posted'[i] = posted[i],
           \A e \in DOMAIN payments' \ DOMAIN payments : \E r \in Req : Owes(req'[r], e, "pay"),
           \A k \in DOMAIN refunds' \ DOMAIN refunds : \E r \in Req : Owes(req'[r], k[1], "refund"),
           \A e \in DOMAIN payments, r \in Req :
               Owes(req[r], e, "pay") /\ HookedIn(events, payments[e].chave, e, Received) =>
                   Owes(req'[r], e, "pay") \/ PostedPayment(posted', e),
           \A k \in DOMAIN refunds, r \in Req :
               Owes(req[r], k[1], "refund")
               /\ HookedIn(events, payments[k[1]].chave, k[1], Returned) =>
                   Owes(req'[r], k[1], "refund") \/ PostedRefund(posted', k)
    PROVE  OwedPayments' /\ OwedRefunds'
    <1>1. ASSUME NEW e \in DOMAIN payments', HookedIn(events', payments'[e].chave, e, Received)
          PROVE  (\E r \in Req : Owes(req'[r], e, "pay")) \/ PostedPayment(posted', e)
        <2>1. CASE e \notin DOMAIN payments
            BY <2>1
        <2>2. CASE e \in DOMAIN payments
            <3>1. HookedIn(events, payments[e].chave, e, Received)
                BY <1>1, <2>2 DEF HooksFixed
            <3>2. CASE PostedPayment(posted, e)
                BY <3>2 DEF PostedPayment
            <3>3. CASE \E r \in Req : Owes(req[r], e, "pay")
                BY <2>2, <3>1, <3>3
            <3> QED
                BY <2>2, <3>1, <3>2, <3>3 DEF CallInv, OwedPayments
        <2> QED
            BY <2>1, <2>2
    <1>2. ASSUME NEW k \in DOMAIN refunds',
                 HookedIn(events', payments'[k[1]].chave, k[1], Returned)
          PROVE  (\E r \in Req : Owes(req'[r], k[1], "refund")) \/ PostedRefund(posted', k)
        <2>1. CASE k \notin DOMAIN refunds
            BY <2>1
        <2>2. CASE k \in DOMAIN refunds
            <3>1. k[1] \in DOMAIN payments
                BY <2>2 DEF CallInv, HookSideInv, RefundsSpend
            <3>2. HookedIn(events, payments[k[1]].chave, k[1], Returned)
                BY <1>2, <2>2, <3>1 DEF HooksFixed
            <3>3. CASE PostedRefund(posted, k)
                BY <3>3 DEF PostedRefund
            <3>4. CASE \E r \in Req : Owes(req[r], k[1], "refund")
                BY <2>2, <3>2, <3>4
            <3> QED
                BY <2>2, <3>2, <3>3, <3>4 DEF CallInv, OwedRefunds
        <2> QED
            BY <2>1, <2>2
    <1> QED
        BY <1>1, <1>2 DEF OwedPayments, OwedRefunds

\* What a waiting callback lists stays complete: its payment is spent.
LEMMA KnownKept ==
    ASSUME TablesGrow, NEW q, Fine(q, charges, payments, refunds), CallbackKnown(q, refunds)
    PROVE  CallbackKnown(q, refunds')
    <1>1. ASSUME q.kind = "refund", q.pc = "notify", NEW k \in DOMAIN refunds', k[1] = q.e2e
          PROVE  k \in q.returns
        <2>1. Spent(payments, k[1])
            BY <1>1 DEF Fine, Staged, RefundFine
        <2>2. k \in DOMAIN refunds
            BY <1>1, <2>1 DEF TablesGrow, Grown
        <2> QED
            BY <1>1, <2>2 DEF CallbackKnown
    <1> QED
        BY <1>1 DEF CallbackKnown

\* A step of a request that owes nothing and has posted nothing.
LEMMA EarlyStep ==
    ASSUME ApiInv, CallInv, HookSideInv', HooksFixed, TablesGrow, posted' = posted,
           NEW r \in Req, req[r].pc \notin Late \cup {"done"},
           NEW q, Step(r, q), DOMAIN q = Fields,
           CallbackKnown(q, refunds'),
           \A e \in DOMAIN payments' \ DOMAIN payments : Owes(q, e, "pay"),
           \A k \in DOMAIN refunds' \ DOMAIN refunds : Owes(q, k[1], "refund")
    PROVE  CallInv'
    <1>1. /\ \A s \in Req \ {r} : req'[s] = req[s]
          /\ DOMAIN req'[r] = Fields
          /\ \A f \in Fields \ {"since"} : req'[r][f] = q[f]
        BY StepIs DEF ApiInv, RequestSide
    <1>2. /\ req'[r].kind = q.kind /\ req'[r].pc = q.pc /\ req'[r].e2e = q.e2e
          /\ req'[r].code = q.code /\ req'[r].returns = q.returns
        BY <1>1 DEF Fields
    <1>3. \A s \in Req : CallbackKnown(req'[s], refunds')
        <2>1. CallbackKnown(req'[r], refunds')
            BY <1>2 DEF CallbackKnown
        <2>2. ASSUME NEW s \in Req \ {r}
              PROVE  CallbackKnown(req'[s], refunds')
            <3>1. Fine(req[s], charges, payments, refunds) /\ CallbackKnown(req[s], refunds)
                BY DEF ApiInv, RequestSide, CallInv
            <3>2. CallbackKnown(req[s], refunds')
                BY <3>1, KnownKept
            <3> QED
                BY <1>1, <3>2
        <2> QED
            BY <2>1, <2>2
    <1>4. \A e, kind : Owes(q, e, kind) => Owes(req'[r], e, kind)
        BY <1>2 DEF Owes
    <1>5. \A e, kind : ~Owes(req[r], e, kind)
        BY DEF Owes
    <1>6. \A s \in Req : \A e, kind : Owes(req[s], e, kind) => Owes(req'[s], e, kind)
        BY <1>1, <1>5
    <1>7. OwedPayments' /\ OwedRefunds'
        BY <1>4, <1>6, OwedKept
    <1>8. PostedOnce'
        <2>1. ASSUME NEW i \in DOMAIN posted
              PROVE  \E s \in Req : Posts(req'[s], posted[i])
            <3>1. PICK s \in Req : Posts(req[s], posted[i])
                BY DEF CallInv, PostedOnce
            <3>2. s # r
                BY <3>1 DEF Posts
            <3> QED
                BY <1>1, <3>1, <3>2
        <2> QED
            BY <2>1 DEF CallInv, PostedOnce
    <1> QED
        BY <1>3, <1>7, <1>8 DEF CallInv

\* The same, of a step that only assigns locals other than the kind and the refunds.
LEMMA KnownEarly ==
    ASSUME NEW re, NEW re2, NEW old, CallbackKnown(old, re), NEW q, NEW assigned,
           Same(q, old, assigned), "kind" \notin assigned, "returns" \notin assigned,
           q.pc # "notify" \/ old.kind # "refund"
    PROVE  CallbackKnown(q, re2) /\ DOMAIN q = Fields
    BY DEF Same, Fields, CallbackKnown

LEMMA QuietEarly ==
    ASSUME ApiInv, CallInv, UNCHANGED <<storeVars, posted>>,
           NEW r \in Req, req[r].pc \notin Late \cup {"done"},
           NEW q, Step(r, q), NEW assigned, Same(q, req[r], assigned),
           "kind" \notin assigned, "returns" \notin assigned, q.pc # "notify"
    PROVE  CallInv'
    <1>1. StoreSide /\ HookSideInv
        BY DEF ApiInv, CallInv
    <1>2. TablesGrow /\ HookSideInv' /\ HooksFixed
        BY <1>1, QuietSide, QuietHooks
    <1>3. CallbackKnown(q, refunds') /\ DOMAIN q = Fields
        BY KnownEarly DEF CallInv
    <1>4. payments' = payments /\ refunds' = refunds
        BY DEF storeVars
    <1> QED
        BY <1>2, <1>3, <1>4, EarlyStep

LEMMA AnswerEarly ==
    ASSUME ApiInv, CallInv, UNCHANGED <<storeVars, posted>>,
           NEW r \in Req, req[r].pc \notin Late \cup {"done"},
           NEW code, NEW shown, Answer(r, code, shown)
    PROVE  CallInv'
    <1> DEFINE old == req[r]
               q == [old EXCEPT !.pc = "done", !.code = code, !.shown = shown]
    <1>1. Step(r, q) /\ DOMAIN old = Fields
        BY Readable DEF Answer
    <1>2. Same(q, old, {"pc", "code", "shown"}) /\ q.pc = "done"
        BY <1>1 DEF Same, Fields
    <1> HIDE DEF q
    <1> QED
        BY <1>1, <1>2, QuietEarly

-----------------------------------------------------------------------------
(***************************************************************************)
(* One lemma per action again.                                             *)
(***************************************************************************)
LEMMA ArriveOwed ==
    ASSUME ApiInv, CallInv, NEW r \in Req, Arrive(r)
    PROVE  CallInv'
    <1>1. PICK q \in Requests : Step(r, q)
        BY DEF Arrive, Step
    <1>2. UNCHANGED <<storeVars, posted>> /\ req[r].pc = "idle"
        BY DEF Arrive
    <1>3. DOMAIN q = Fields /\ q.returns = {} /\ q.pc # "notify"
        BY SentParts
    <1>4. CallbackKnown(q, refunds')
        BY <1>3 DEF CallbackKnown
    <1>5. TablesGrow /\ HookSideInv' /\ HooksFixed /\ payments' = payments /\ refunds' = refunds
        <2>1. StoreSide /\ HookSideInv
            BY DEF ApiInv, CallInv
        <2> QED
            BY <1>2, <2>1, QuietSide, QuietHooks DEF storeVars
    <1> QED
        BY <1>1, <1>2, <1>3, <1>4, <1>5, EarlyStep DEF Late

LEMMA BuildMintedOwed ==
    ASSUME ApiInv, CallInv, NEW r \in Req, BuildMinted(r)
    PROVE  CallInv'
    <1> DEFINE old == req[r]
               txid == Stream[drawn + 1]
               q == [old EXCEPT !.pc = "create", !.txid = txid]
    <1>1. Step(r, q) /\ UNCHANGED <<storeVars, posted>> /\ old.pc = "mint" /\ DOMAIN old = Fields
        BY Readable DEF BuildMinted
    <1> HIDE DEF txid
    <1>2. Same(q, old, {"pc", "txid"}) /\ q.pc = "create"
        BY <1>1 DEF Same, Fields
    <1> HIDE DEF q
    <1> QED
        BY <1>1, <1>2, QuietEarly DEF Late

\* The transactions that leave payments and refunds alone.
LEMMA ChargeEarly ==
    ASSUME ApiInv, CallInv, TablesGrow, HookSideInv', HooksFixed,
           UNCHANGED <<payments, refunds, posted>>,
           NEW r \in Req, req[r].pc \notin Late \cup {"done"},
           NEW q, Step(r, q), NEW assigned, Same(q, req[r], assigned),
           "kind" \notin assigned, "returns" \notin assigned, q.pc # "notify"
    PROVE  CallInv'
    <1>1. CallbackKnown(q, refunds') /\ DOMAIN q = Fields
        BY KnownEarly DEF CallInv
    <1> QED
        BY <1>1, EarlyStep

LEMMA StoreCobOwed ==
    ASSUME ApiInv, CallInv, NEW r \in Req, StoreCob(r)
    PROVE  CallInv'
    <1> DEFINE old == req[r]
    <1>1. /\ DOMAIN old = Fields /\ StoreSide /\ HookSideInv /\ posted' = posted
          /\ old.pc = "create" /\ Readings(r) \subseteq 0 .. clock /\ 0 .. clock \subseteq Time
          /\ Fine(old, charges, payments, refunds)
        BY Readable DEF StoreCob, CallInv
    <1>2. old.txid \in TxId /\ old.cents \in Amount /\ old.window \in Window
        BY <1>1 DEF Fine, Staged, InStage, CreationFine
    <1>3. ASSUME NEW at \in Readings(r), NEW chave \in Chave,
                 CreateCharge(old.txid, old.cents, chave, old.window, at),
                 Step(r, [old EXCEPT !.pc = "respond", !.seen = charges'[old.txid], !.code = 201])
          PROVE  CallInv'
        <2> DEFINE seen == charges'[old.txid]
                   q == [old EXCEPT !.pc = "respond", !.seen = seen, !.code = 201]
        <2>1. Step(r, q)
            BY <1>3
        <2>2. at \in Time
            BY <1>1
        <2>3. TablesGrow /\ payments' = payments /\ refunds' = refunds
            BY <1>1, <1>2, <1>3, <2>2, CreateSide
        <2>4. HookSideInv' /\ HooksFixed
            BY <1>1, <1>3, CreateHooks
        <2> HIDE DEF seen
        <2>5. Same(q, old, {"pc", "seen", "code"}) /\ q.pc = "respond"
            BY <1>1 DEF Same, Fields
        <2> HIDE DEF q
        <2> QED
            BY <1>1, <2>1, <2>3, <2>4, <2>5, ChargeEarly DEF Late
    <1>4. ASSUME ReplayCob(r), UNCHANGED storeVars
          PROVE  CallInv'
        <2>1. CASE old.kind = "mint"
            <3> DEFINE q == [old EXCEPT !.pc = "mint"]
            <3>1. Step(r, q)
                BY <1>4, <2>1 DEF ReplayCob
            <3>2. Same(q, old, {"pc"}) /\ q.pc = "mint"
                BY <1>1 DEF Same, Fields
            <3> HIDE DEF q
            <3> QED
                BY <1>1, <1>4, <3>1, <3>2, QuietEarly DEF Late
        <2>2. CASE old.kind # "mint"
            <3> DEFINE q == [old EXCEPT !.pc = "load", !.code = 200]
            <3>1. Step(r, q)
                BY <1>4, <2>2 DEF ReplayCob
            <3>2. Same(q, old, {"pc", "code"}) /\ q.pc = "load"
                BY <1>1 DEF Same, Fields
            <3> HIDE DEF q
            <3> QED
                BY <1>1, <1>4, <3>1, <3>2, QuietEarly DEF Late
        <2> QED
            BY <2>1, <2>2
    <1> QED
        BY <1>3, <1>4 DEF StoreCob

LEMMA ExpiryOwed ==
    ASSUME StoreSide, HookSideInv, NEW txid \in DOMAIN charges, NEW at \in Time,
           SettleExpiry(txid, at)
    PROVE  /\ TablesGrow /\ HookSideInv' /\ HooksFixed
           /\ payments' = payments /\ refunds' = refunds
    <1>1. TablesGrow /\ payments' = payments /\ refunds' = refunds
        BY ExpirySide
    <1>2. HookSideInv' /\ HooksFixed
        BY ExpireHooks, QuietHooks DEF SettleExpiry
    <1> QED
        BY <1>1, <1>2

LEMMA LoadCobOwed ==
    ASSUME ApiInv, CallInv, NEW r \in Req, LoadCob(r)
    PROVE  CallInv'
    <1> DEFINE old == req[r]
    <1>1. /\ DOMAIN old = Fields /\ StoreSide /\ HookSideInv /\ posted' = posted
          /\ old.pc = "load" /\ Readings(r) \subseteq 0 .. clock /\ 0 .. clock \subseteq Time
        BY Readable DEF LoadCob, CallInv
    <1>2. CASE old.txid \in DOMAIN charges
        <2>1. PICK at \in Readings(r) :
                  /\ SettleExpiry(old.txid, at)
                  /\ Step(r, [old EXCEPT !.pc = "respond", !.seen = charges'[old.txid]])
            BY <1>2 DEF LoadCob
        <2> DEFINE seen == charges'[old.txid]
                   q == [old EXCEPT !.pc = "respond", !.seen = seen]
        <2>2. Step(r, q) /\ at \in Time
            BY <1>1, <2>1
        <2>3. /\ TablesGrow /\ HookSideInv' /\ HooksFixed
              /\ payments' = payments /\ refunds' = refunds
            BY <1>1, <1>2, <2>1, <2>2, ExpiryOwed
        <2> HIDE DEF seen
        <2>4. Same(q, old, {"pc", "seen"}) /\ q.pc = "respond"
            BY <1>1 DEF Same, Fields
        <2> HIDE DEF q
        <2> QED
            BY <1>1, <2>2, <2>3, <2>4, ChargeEarly DEF Late
    <1>3. CASE old.txid \notin DOMAIN charges
        BY <1>1, <1>3, AnswerEarly DEF LoadCob, Late
    <1> QED
        BY <1>2, <1>3

LEMMA RespondCobOwed ==
    ASSUME ApiInv, CallInv, NEW r \in Req, RespondCob(r)
    PROVE  CallInv'
    <1> DEFINE old == req[r]
    <1>1. DOMAIN old = Fields /\ UNCHANGED <<storeVars, posted>> /\ old.pc = "respond"
        BY Readable DEF RespondCob
    <1>2. PICK at \in Readings(r) :
              Step(r, [old EXCEPT !.pc = "done", !.shown = EffectiveStatus(old.seen, at)])
        BY DEF RespondCob
    <1> DEFINE shown == EffectiveStatus(old.seen, at)
               q == [old EXCEPT !.pc = "done", !.shown = shown]
    <1>3. Step(r, q)
        BY <1>2
    <1> HIDE DEF shown
    <1>4. Same(q, old, {"pc", "shown"}) /\ q.pc = "done"
        BY <1>1 DEF Same, Fields
    <1> HIDE DEF q
    <1> QED
        BY <1>1, <1>3, <1>4, QuietEarly DEF Late

LEMMA PayExpireOwed ==
    ASSUME ApiInv, CallInv, NEW r \in Req, PayExpire(r)
    PROVE  CallInv'
    <1> DEFINE old == req[r]
    <1>1. /\ DOMAIN old = Fields /\ StoreSide /\ HookSideInv /\ posted' = posted
          /\ old.pc = "pay" /\ Readings(r) \subseteq 0 .. clock /\ 0 .. clock \subseteq Time
        BY Readable DEF PayExpire, CallInv
    <1>2. CASE old.txid \in DOMAIN charges
        <2>1. PICK at \in Readings(r) :
                  /\ SettleExpiry(old.txid, at)
                  /\ Step(r, [old EXCEPT !.pc = "settle", !.at = at, !.seen = charges'[old.txid]])
            BY <1>2 DEF PayExpire
        <2> DEFINE seen == charges'[old.txid]
                   q == [old EXCEPT !.pc = "settle", !.at = at, !.seen = seen]
        <2>2. Step(r, q) /\ at \in Time
            BY <1>1, <2>1
        <2>3. /\ TablesGrow /\ HookSideInv' /\ HooksFixed
              /\ payments' = payments /\ refunds' = refunds
            BY <1>1, <1>2, <2>1, <2>2, ExpiryOwed
        <2> HIDE DEF seen
        <2>4. Same(q, old, {"pc", "at", "seen"}) /\ q.pc = "settle"
            BY <1>1 DEF Same, Fields
        <2> HIDE DEF q
        <2> QED
            BY <1>1, <2>2, <2>3, <2>4, ChargeEarly DEF Late
    <1>3. CASE old.txid \notin DOMAIN charges
        BY <1>1, <1>3, AnswerEarly DEF PayExpire, Late
    <1> QED
        BY <1>2, <1>3

LEMMA PaySettleOwed ==
    ASSUME ApiInv, CallInv, NEW r \in Req, PaySettle(r)
    PROVE  CallInv'
    <1> DEFINE old == req[r]
    <1>1. /\ DOMAIN old = Fields /\ StoreSide /\ HookSideInv /\ posted' = posted
          /\ old.pc = "settle" /\ old.at \in 0 .. clock /\ 0 .. clock \subseteq Time
          /\ Fine(old, charges, payments, refunds) /\ DOMAIN charges \subseteq TxId
          /\ CallbackKnown(old, refunds)
        BY Readable DEF PaySettle, CallInv
    <1>2. old.kind = "pay" /\ old.txid \in TxId
        BY <1>1 DEF Fine, Staged, InStage, PayFine
    <1>3. ASSUME NEW rnd \in RandomHalf, SettleCharge(old.txid, old.at, rnd),
                 Step(r, [old EXCEPT !.pc = "notify", !.e2e = NextE2EID(old.at, rnd), !.code = 201])
          PROVE  CallInv'
        <2> DEFINE e2e == NextE2EID(old.at, rnd)
                   q == [old EXCEPT !.pc = "notify", !.e2e = e2e, !.code = 201]
        <2>1. Step(r, q)
            BY <1>3
        <2>2. old.at \in Time /\ e2e = NextE2EID(old.at, rnd)
            BY <1>1
        <2>3. /\ HookSideInv' /\ HooksFixed
              /\ DOMAIN payments' = DOMAIN payments \cup {e2e}
            BY <1>1, <1>2, <1>3, <2>2, SettleHooks
        <2> HIDE DEF e2e
        <2>4. TablesGrow /\ refunds' = refunds
            BY <1>1, <1>2, <1>3, <2>2, SettleSide
        <2>5. /\ Same(q, old, {"pc", "e2e", "code"})
              /\ q.pc = "notify" /\ q.e2e = e2e /\ q.code = 201
            BY <1>1 DEF Same, Fields
        <2> HIDE DEF q, old
        <2>6. CallbackKnown(q, refunds') /\ DOMAIN q = Fields
            BY <1>1, <1>2, <2>5, KnownEarly
        <2>7. Owes(q, e2e, "pay")
            BY <1>2, <2>5 DEF Owes, Late, Same, Fields
        <2> QED
            BY <1>1, <2>1, <2>3, <2>4, <2>6, <2>7, EarlyStep DEF Late, old
    <1>4. ASSUME NEW code, NEW shown, Answer(r, code, shown), UNCHANGED storeVars
          PROVE  CallInv'
        BY <1>1, <1>4, AnswerEarly DEF Late
    <1>5. CASE Settles(r, old.at)
        BY <1>3, <1>5 DEF Settles
    <1>6. ASSUME FindsPaid(r) \/ FindsUnpayable(r, old.at) \/ FindsFull(r)
          PROVE  CallInv'
        <2>1. /\ UNCHANGED storeVars
              /\ \/ Answer(r, 409, PaymentOf(old.txid))
                 \/ Answer(r, 400, EffectiveStatus(old.seen, old.at))
                 \/ Answer(r, 500, "none")
            BY <1>6 DEF FindsPaid, FindsUnpayable, FindsFull
        <2> QED
            BY <1>4, <2>1, Zenon
    <1> QED
        BY <1>5, <1>6, SettleOutcomes

LEMMA LoadPaymentOwed ==
    ASSUME ApiInv, CallInv, NEW r \in Req, LoadPayment(r)
    PROVE  CallInv'
    <1> DEFINE old == req[r]
    <1>1. DOMAIN old = Fields /\ UNCHANGED <<storeVars, posted>> /\ old.pc = "payment"
        BY Readable DEF LoadPayment
    <1>2. CASE old.cents = payments[old.e2e].cents
        <2> DEFINE seen == payments[old.e2e]
                   q == [old EXCEPT !.pc = "refund", !.seen = seen]
        <2>1. Step(r, q)
            BY <1>2 DEF LoadPayment
        <2> HIDE DEF seen
        <2>2. Same(q, old, {"pc", "seen"}) /\ q.pc = "refund"
            BY <1>1 DEF Same, Fields
        <2> HIDE DEF q
        <2> QED
            BY <1>1, <2>1, <2>2, QuietEarly DEF Late
    <1>3. CASE old.cents # payments[old.e2e].cents
        BY <1>1, <1>3, AnswerEarly DEF LoadPayment, Late
    <1> QED
        BY <1>2, <1>3

LEMMA StoreRefundOwed ==
    ASSUME ApiInv, CallInv, NEW r \in Req, StoreRefund(r)
    PROVE  CallInv'
    <1> DEFINE old == req[r]
               key == <<old.e2e, old.id>>
    <1>1. /\ DOMAIN old = Fields /\ StoreSide /\ HookSideInv /\ posted' = posted
          /\ old.pc = "refund" /\ Readings(r) \subseteq 0 .. clock /\ 0 .. clock \subseteq Time
          /\ CallbackKnown(old, refunds)
        BY Readable DEF StoreRefund, CallInv
    <1>2. /\ old.kind = "refund" /\ old.e2e \in DOMAIN payments /\ old.id \in RefundId
          /\ old.cents \in Amount /\ old.cents = payments[old.e2e].cents
        BY <1>1, Refunding
    <1>3. ASSUME NEW at \in Readings(r), NEW rnd \in RandomHalf,
                 CreateRefund(old.e2e, old.id, old.cents, at, rnd),
                 Step(r, [old EXCEPT !.pc = "reload", !.code = 201, !.shown = refunds'[key].rtrId])
          PROVE  CallInv'
        <2> DEFINE shown == refunds'[key].rtrId
                   q == [old EXCEPT !.pc = "reload", !.code = 201, !.shown = shown]
        <2>1. Step(r, q) /\ at \in Time
            BY <1>1, <1>3
        <2>2. TablesGrow
            BY <1>1, <1>2, <1>3, <2>1, RefundSide
        <2>3. /\ HookSideInv' /\ HooksFixed
              /\ DOMAIN payments' = DOMAIN payments /\ DOMAIN refunds' = DOMAIN refunds \cup {key}
            BY <1>1, <1>2, <1>3, <2>1, RefundHooks
        <2> HIDE DEF shown
        <2>4. /\ Same(q, old, {"pc", "code", "shown"}) /\ q.pc = "reload" /\ q.code = 201
            BY <1>1 DEF Same, Fields
        <2>5. key[1] = old.e2e
            OBVIOUS
        <2> HIDE DEF q, old, key
        <2>6. CallbackKnown(q, refunds') /\ DOMAIN q = Fields
            BY <1>1, <2>4, KnownEarly
        <2>7. Owes(q, key[1], "refund")
            BY <1>2, <2>4, <2>5 DEF Owes, Late, Same, Fields
        <2> QED
            BY <1>1, <2>1, <2>2, <2>3, <2>6, <2>7, EarlyStep DEF Late, old
    <1>4. ASSUME NEW code, NEW shown, Answer(r, code, shown), UNCHANGED storeVars
          PROVE  CallInv'
        BY <1>1, <1>4, AnswerEarly DEF Late
    <1> QED
        BY <1>3, <1>4 DEF StoreRefund

LEMMA PutHookOwed ==
    ASSUME ApiInv, CallInv, NEW r \in Req, PutHook(r)
    PROVE  CallInv'
    <1> DEFINE old == req[r]
    <1>1. /\ DOMAIN old = Fields /\ StoreSide /\ HookSideInv /\ posted' = posted
          /\ old.pc = "hook" /\ Readings(r) \subseteq 0 .. clock /\ 0 .. clock \subseteq Time
        BY Readable DEF PutHook, CallInv
    <1>2. PICK at \in Readings(r), chave \in Chave, url \in Url :
              /\ PutWebhook(chave, url, at)
              /\ Answer(r, IF chave \in DOMAIN webhooks THEN 200 ELSE 201, "none")
        BY DEF PutHook
    <1> DEFINE code == IF chave \in DOMAIN webhooks THEN 200 ELSE 201
               q == [old EXCEPT !.pc = "done", !.code = code, !.shown = "none"]
    <1>3. Step(r, q) /\ at \in Time
        BY <1>1, <1>2 DEF Answer
    <1>4. TablesGrow /\ HookSideInv' /\ HooksFixed /\ payments' = payments /\ refunds' = refunds
        BY <1>1, <1>2, <1>3, HookSide, WebhookHooks DEF PutWebhook
    <1> HIDE DEF code
    <1>5. Same(q, old, {"pc", "code", "shown"}) /\ q.pc = "done"
        BY <1>1 DEF Same, Fields
    <1> HIDE DEF q
    <1> QED
        BY <1>1, <1>3, <1>4, <1>5, ChargeEarly DEF Late

LEMMA CancelOwed ==
    ASSUME ApiInv, CallInv, NEW r \in Req, Cancel(r)
    PROVE  CallInv'
    <1>1. /\ UNCHANGED <<storeVars, posted>> /\ Answer(r, 500, "none")
          /\ req[r].pc \notin Late \cup {"done"}
        BY DEF Cancel, Cancellable, Late
    <1> QED
        BY <1>1, AnswerEarly

\* A quiet step that keeps what a request owes.
LEMMA LateStep ==
    ASSUME ApiInv, CallInv, UNCHANGED <<storeVars, posted>>,
           NEW r \in Req, req[r].pc # "done",
           NEW q, Step(r, q), DOMAIN q = Fields, CallbackKnown(q, refunds),
           \A e, kind : Owes(req[r], e, kind) => Owes(q, e, kind)
    PROVE  CallInv'
    <1>1. /\ \A s \in Req \ {r} : req'[s] = req[s]
          /\ DOMAIN req'[r] = Fields
          /\ \A f \in Fields \ {"since"} : req'[r][f] = q[f]
        BY StepIs DEF ApiInv, RequestSide
    <1>2. /\ req'[r].kind = q.kind /\ req'[r].pc = q.pc /\ req'[r].e2e = q.e2e
          /\ req'[r].code = q.code /\ req'[r].returns = q.returns
        BY <1>1 DEF Fields
    <1>3. TablesGrow /\ HookSideInv' /\ HooksFixed /\ payments' = payments /\ refunds' = refunds
        <2>1. StoreSide /\ HookSideInv
            BY DEF ApiInv, CallInv
        <2> QED
            BY <2>1, QuietSide, QuietHooks DEF storeVars
    <1>4. \A s \in Req : CallbackKnown(req'[s], refunds')
        <2>1. CallbackKnown(req'[r], refunds')
            BY <1>2, <1>3 DEF CallbackKnown
        <2> QED
            BY <1>1, <1>3, <2>1 DEF CallInv
    <1>5. \A s \in Req : \A e, kind : Owes(req[s], e, kind) => Owes(req'[s], e, kind)
        <2>1. \A e, kind : Owes(q, e, kind) => Owes(req'[r], e, kind)
            BY <1>2 DEF Owes
        <2> QED
            BY <1>1, <2>1
    <1>6. OwedPayments' /\ OwedRefunds'
        BY <1>3, <1>5, OwedKept
    <1>7. PostedOnce'
        <2>1. ASSUME NEW i \in DOMAIN posted
              PROVE  \E s \in Req : Posts(req'[s], posted[i])
            <3>1. PICK s \in Req : Posts(req[s], posted[i])
                BY DEF CallInv, PostedOnce
            <3>2. s # r
                BY <3>1 DEF Posts
            <3> QED
                BY <1>1, <3>1, <3>2
        <2> QED
            BY <2>1 DEF CallInv, PostedOnce
    <1> QED
        BY <1>3, <1>4, <1>6, <1>7 DEF CallInv

LEMMA ReloadPaymentOwed ==
    ASSUME ApiInv, CallInv, NEW r \in Req, ReloadPayment(r)
    PROVE  CallInv'
    <1> DEFINE old == req[r]
               found == RefundsOf(old.e2e)
               q == [old EXCEPT !.pc = "notify", !.returns = found]
    <1>1. /\ DOMAIN old = Fields /\ Fine(old, charges, payments, refunds)
          /\ Step(r, q) /\ UNCHANGED <<storeVars, posted>> /\ old.pc = "reload"
        BY Readable DEF ReloadPayment
    <1>2. old.kind = "refund"
        BY <1>1 DEF Fine, Staged, InStage
    <1>3. \A k \in DOMAIN refunds : k[1] = old.e2e => k \in found
        BY DEF RefundsOf
    <1> HIDE DEF found
    <1>4. Same(q, old, {"pc", "returns"}) /\ q.pc = "notify" /\ q.returns = found
        BY <1>1 DEF Same, Fields
    <1> HIDE DEF q
    <1>5. /\ DOMAIN q = Fields /\ q.kind = old.kind /\ q.e2e = old.e2e /\ q.code = old.code
        BY <1>4 DEF Same, Fields
    <1>6. CallbackKnown(q, refunds)
        BY <1>2, <1>3, <1>4, <1>5 DEF CallbackKnown
    <1>7. \A e, kind : Owes(old, e, kind) => Owes(q, e, kind)
        BY <1>4, <1>5 DEF Owes, Late
    <1> QED
        BY <1>1, <1>5, <1>6, <1>7, LateStep

LEMMA NotifyFailsOwed ==
    ASSUME ApiInv, CallInv, NEW r \in Req, NotifyFails(r)
    PROVE  CallInv'
    <1> DEFINE old == req[r]
               q == [old EXCEPT !.pc = "dropped"]
    <1>1. /\ DOMAIN old = Fields /\ CallbackKnown(old, refunds)
          /\ Step(r, q) /\ UNCHANGED <<storeVars, posted>> /\ old.pc \in {"reload", "notify"}
        BY Readable DEF NotifyFails, CallInv
    <1>2. Same(q, old, {"pc"}) /\ q.pc = "dropped"
        BY <1>1 DEF Same, Fields
    <1> HIDE DEF q
    <1>3. /\ DOMAIN q = Fields /\ q.kind = old.kind /\ q.e2e = old.e2e /\ q.code = old.code
          /\ q.returns = old.returns
        BY <1>2 DEF Same, Fields
    <1>4. CallbackKnown(q, refunds)
        BY <1>1, <1>2, <1>3 DEF CallbackKnown
    <1>5. \A e, kind : Owes(old, e, kind) => Owes(q, e, kind)
        BY <1>2, <1>3 DEF Owes, Late
    <1> QED
        BY <1>1, <1>3, <1>4, <1>5, LateStep

\* The callback a request is about to hand over has not been posted: whoever
\* posted it was told 201 for the same payment.
LEMMA NotPostedYet ==
    ASSUME ApiInv, CallInv, NEW r \in Req, req[r].pc = "notify", NEW i \in DOMAIN posted
    PROVE  posted[i] # Callback(r)
    <1> SUFFICES ASSUME posted[i] = Callback(r)
                 PROVE  FALSE
        OBVIOUS
    <1>1. posted[i].e2e = req[r].e2e /\ posted[i].returns = req[r].returns
        BY DEF Callback
    <1>2. PICK s \in Req : Posts(req[s], posted[i])
        BY DEF CallInv, PostedOnce
    <1>3. /\ Fine(req[r], charges, payments, refunds) /\ CallbackKnown(req[r], refunds)
          /\ Fine(req[s], charges, payments, refunds)
        BY DEF ApiInv, RequestSide, CallInv
    <1>4. /\ req[r].kind \in {"pay", "refund"} /\ req[r].code = 201
          /\ req[r].e2e \in DOMAIN payments
        BY <1>3, Notifying
    <1>5. s # r /\ req[s].code = 201 /\ req[s].e2e = req[r].e2e
        BY <1>1, <1>2 DEF Posts
    <1>6. ~Clash(req[s], req[r])
        BY <1>5 DEF ApiInv, RequestSide
    <1>7. CASE req[r].kind = "pay"
        <2>1. req[s].kind = "pay"
            BY <1>1, <1>2, <1>3, <1>7 DEF Posts, CallbackKnown
        <2>2. /\ payments[req[r].e2e].txid = req[r].txid
              /\ payments[req[s].e2e].txid = req[s].txid
            BY <1>3, <1>4, <1>5, <1>7, <2>1 DEF Fine, PayFine
        <2> QED
            BY <1>4, <1>5, <1>6, <1>7, <2>1, <2>2 DEF Clash
    <1>8. CASE req[r].kind = "refund"
        <2> DEFINE key == <<req[r].e2e, req[r].id>>
        <2>1. key \in DOMAIN refunds /\ key[1] = req[r].e2e
            BY <1>3, <1>4, <1>8 DEF Fine, RefundFine
        <2> HIDE DEF key
        <2>2. key \in req[r].returns
            BY <1>3, <1>8, <2>1 DEF CallbackKnown
        <2>3. req[s].kind = "refund"
            BY <1>1, <1>2, <2>2 DEF Posts
        <2> QED
            BY <1>4, <1>5, <1>6, <1>8, <2>3 DEF Clash
    <1> QED
        BY <1>4, <1>7, <1>8

LEMMA NotifyOwed ==
    ASSUME ApiInv, CallInv, NEW r \in Req, Notify(r)
    PROVE  CallInv'
    <1> DEFINE old == req[r]
               callback == Callback(r)
               shown == IF old.kind = "pay" THEN old.e2e ELSE old.shown
               q == [old EXCEPT !.pc = "done", !.shown = shown]
    <1>1. /\ DOMAIN old = Fields /\ Fine(old, charges, payments, refunds)
          /\ CallbackKnown(old, refunds) /\ UNCHANGED storeVars /\ old.pc = "notify" /\ Step(r, q)
        BY Readable DEF Notify, CallInv
    <1>2. posted' = IF payments[old.e2e].chave \in DOMAIN webhooks
                    THEN Append(posted, callback) ELSE posted
        BY DEF Notify
    <1>3. callback = [e2e |-> old.e2e, returns |-> old.returns]
        BY DEF Callback
    <1>4. \A i \in DOMAIN posted : posted[i] # callback
        BY <1>1, NotPostedYet
    <1>5. posted \in Seq(CallbackType)
        BY DEF ApiInv, PostedFine
    <1>6. old.kind \in {"pay", "refund"} /\ old.code = 201
        BY <1>1, Notifying
    <1> HIDE DEF shown, callback
    <1>7. Same(q, old, {"pc", "shown"}) /\ q.pc = "done"
        BY <1>1 DEF Same, Fields
    <1> HIDE DEF q
    <1>8. /\ DOMAIN q = Fields /\ q.kind = old.kind /\ q.e2e = old.e2e /\ q.code = old.code
          /\ q.returns = old.returns
        BY <1>7 DEF Same, Fields
    <1>9. /\ \A s \in Req \ {r} : req'[s] = req[s]
          /\ req'[r].kind = old.kind /\ req'[r].pc = "done" /\ req'[r].e2e = old.e2e
          /\ req'[r].code = old.code /\ req'[r].returns = old.returns
        <2>1. /\ \A s \in Req \ {r} : req'[s] = req[s]
              /\ \A f \in Fields \ {"since"} : req'[r][f] = q[f]
            BY <1>1, <1>8, StepIs DEF ApiInv, RequestSide
        <2> QED
            BY <1>7, <1>8, <2>1 DEF Fields
    <1>10. TablesGrow /\ HookSideInv' /\ HooksFixed /\ payments' = payments /\ refunds' = refunds
        <2>1. StoreSide /\ HookSideInv
            BY DEF ApiInv, CallInv
        <2> QED
            BY <1>1, <2>1, QuietSide, QuietHooks DEF storeVars
    <1>11. \A s \in Req : CallbackKnown(req'[s], refunds')
        BY <1>1, <1>9, <1>10 DEF CallInv, CallbackKnown
    <1>12. /\ \A i \in DOMAIN posted : i \in DOMAIN posted' /\ posted'[i] = posted[i]
           /\ \A i \in DOMAIN posted' : i \in DOMAIN posted \/ posted'[i] = callback
           /\ \A i, j \in DOMAIN posted' \ DOMAIN posted : i = j
        BY <1>2, <1>5
    <1>13. payments[old.e2e].chave \in DOMAIN webhooks =>
               \E i \in DOMAIN posted' : posted'[i] = callback
        BY <1>2, <1>5
    \* An endpoint on the log is stored, so a hooked payment has its callback posted.
    <1>14. \A chave, e, type : HookedIn(events, chave, e, type) => chave \in DOMAIN webhooks
        BY DEF CallInv, HookSideInv, HooksStored, HookedIn
    <1>15. ASSUME NEW e \in DOMAIN payments, Owes(old, e, "pay"),
                  HookedIn(events, payments[e].chave, e, Received)
           PROVE  PostedPayment(posted', e)
        <2>1. e = old.e2e /\ old.kind = "pay" /\ old.returns = {}
            BY <1>1, <1>15 DEF Owes, CallbackKnown
        <2>2. \E i \in DOMAIN posted' : posted'[i] = callback
            BY <1>13, <1>14, <1>15, <2>1
        <2> QED
            BY <1>3, <2>1, <2>2 DEF PostedPayment
    <1>16. ASSUME NEW k \in DOMAIN refunds, Owes(old, k[1], "refund"),
                  HookedIn(events, payments[k[1]].chave, k[1], Returned)
           PROVE  PostedRefund(posted', k)
        <2>1. k[1] = old.e2e /\ k \in old.returns
            BY <1>1, <1>16 DEF Owes, CallbackKnown
        <2>2. \E i \in DOMAIN posted' : posted'[i] = callback
            BY <1>13, <1>14, <1>16, <2>1
        <2>3. callback.e2e = old.e2e /\ callback.returns = old.returns
            BY <1>3
        <2> QED
            BY <2>1, <2>2, <2>3 DEF PostedRefund
    <1>17. OwedPayments' /\ OwedRefunds'
        <2>1. ASSUME NEW e \in DOMAIN payments, NEW s \in Req, Owes(req[s], e, "pay"),
                     HookedIn(events, payments[e].chave, e, Received)
              PROVE  Owes(req'[s], e, "pay") \/ PostedPayment(posted', e)
            BY <1>9, <1>15, <2>1
        <2>2. ASSUME NEW k \in DOMAIN refunds, NEW s \in Req, Owes(req[s], k[1], "refund"),
                     HookedIn(events, payments[k[1]].chave, k[1], Returned)
              PROVE  Owes(req'[s], k[1], "refund") \/ PostedRefund(posted', k)
            BY <1>9, <1>16, <2>2
        <2> QED
            BY <1>10, <1>12, <2>1, <2>2, OwedKept
    <1>18. Posts(req'[r], callback)
        <2>1. callback.e2e = old.e2e /\ callback.returns = old.returns
            BY <1>3
        <2>2. old.kind = IF old.returns = {} THEN "pay" ELSE "refund"
            <3>1. CASE old.kind = "pay"
                BY <1>1, <3>1 DEF CallbackKnown
            <3>2. CASE old.kind = "refund"
                <4> DEFINE key == <<old.e2e, old.id>>
                <4>1. key \in DOMAIN refunds /\ key[1] = old.e2e
                    BY <1>1, <1>6, <3>2 DEF Fine, RefundFine
                <4> HIDE DEF key
                <4>2. key \in old.returns
                    BY <1>1, <3>2, <4>1 DEF CallbackKnown
                <4> QED
                    BY <3>2, <4>2
            <3> QED
                BY <1>6, <3>1, <3>2
        <2> QED
            BY <1>6, <1>9, <2>1, <2>2 DEF Posts
    <1>19. PostedOnce'
        <2>1. ASSUME NEW i \in DOMAIN posted
              PROVE  \E s \in Req : Posts(req'[s], posted[i])
            <3>1. PICK s \in Req : Posts(req[s], posted[i])
                BY DEF CallInv, PostedOnce
            <3>2. s # r
                BY <1>1, <3>1 DEF Posts
            <3> QED
                BY <1>9, <3>1, <3>2
        <2>2. \A i \in DOMAIN posted' : \E s \in Req : Posts(req'[s], posted'[i])
            BY <1>12, <1>18, <2>1
        <2>3. \A i, j \in DOMAIN posted' : posted'[i] = posted'[j] => i = j
            <3>1. \A i, j \in DOMAIN posted : posted[i] = posted[j] => i = j
                BY DEF CallInv, PostedOnce
            <3> QED
                BY <1>4, <1>12, <3>1
        <2> QED
            BY <2>2, <2>3 DEF PostedOnce
    <1> QED
        BY <1>10, <1>11, <1>17, <1>19 DEF CallInv

LEMMA CrashOwed ==
    ASSUME ApiInv, CallInv, Crash
    PROVE  CallInv'
    <1>1. /\ UNCHANGED <<storeVars, posted>>
          /\ req' = [r \in Req |-> IF Running(r) THEN [req[r] EXCEPT !.pc = "gone"] ELSE req[r]]
        BY DEF Crash
    <1>2. TablesGrow /\ HookSideInv' /\ HooksFixed /\ payments' = payments /\ refunds' = refunds
        <2>1. StoreSide /\ HookSideInv
            BY DEF ApiInv, CallInv
        <2> QED
            BY <1>1, <2>1, QuietSide, QuietHooks DEF storeVars
    <1>3. ASSUME NEW r \in Req
          PROVE  /\ req'[r] = req[r]
                    \/ /\ req'[r].kind = req[r].kind /\ req'[r].e2e = req[r].e2e
                       /\ req'[r].code = req[r].code /\ req'[r].returns = req[r].returns
                       /\ req'[r].pc = "gone" /\ req[r].pc # "done"
        <2> DEFINE old == req[r]
                   q == [old EXCEPT !.pc = "gone"]
        <2>1. DOMAIN old = Fields
            BY Readable
        <2>2. req'[r] = IF Running(r) THEN q ELSE old
            BY <1>1
        <2>3. Running(r) => old.pc # "done"
            BY DEF Running
        <2>4. /\ q.kind = old.kind /\ q.e2e = old.e2e /\ q.code = old.code
              /\ q.returns = old.returns /\ q.pc = "gone"
            BY <2>1 DEF Fields
        <2> HIDE DEF q
        <2> QED
            BY <2>2, <2>3, <2>4
    <1>4. \A r \in Req : CallbackKnown(req'[r], refunds')
        BY <1>2, <1>3 DEF CallInv, CallbackKnown
    <1>5. \A r \in Req : \A e, kind : Owes(req[r], e, kind) => Owes(req'[r], e, kind)
        BY <1>3 DEF Owes, Late
    <1>6. OwedPayments' /\ OwedRefunds'
        BY <1>1, <1>2, <1>5, OwedKept
    <1>7. PostedOnce'
        <2>1. \A r \in Req : \A callback : Posts(req[r], callback) => Posts(req'[r], callback)
            BY <1>3 DEF Posts
        <2> QED
            BY <1>1, <2>1 DEF CallInv, PostedOnce
    <1> QED
        BY <1>2, <1>4, <1>6, <1>7 DEF CallInv

LEMMA IdleOwed ==
    ASSUME ApiInv, CallInv, UNCHANGED <<storeVars, req, posted>>
    PROVE  CallInv'
    <1>1. TablesGrow /\ HookSideInv' /\ HooksFixed /\ payments' = payments /\ refunds' = refunds
        <2>1. StoreSide /\ HookSideInv
            BY DEF ApiInv, CallInv
        <2> QED
            BY <2>1, QuietSide, QuietHooks DEF storeVars
    <1>2. OwedPayments' /\ OwedRefunds'
        BY <1>1, OwedKept
    <1>3. PostedOnce'
        BY DEF CallInv, PostedOnce
    <1> QED
        BY <1>1, <1>2, <1>3 DEF CallInv

LEMMA OwedStep ==
    ASSUME ApiInv, CallInv, [ApiNext]_allVars
    PROVE  CallInv'
    <1>1. ASSUME NEW r \in Req, Handle(r)
          PROVE  CallInv'
        BY <1>1, BuildMintedOwed, StoreCobOwed, LoadCobOwed, RespondCobOwed, PayExpireOwed,
           PaySettleOwed, LoadPaymentOwed, StoreRefundOwed, ReloadPaymentOwed, NotifyOwed,
           PutHookOwed
           DEF Handle
    <1>2. ASSUME NEW r \in Req, Arrive(r) \/ NotifyFails(r) \/ Cancel(r)
          PROVE  CallInv'
        BY <1>2, ArriveOwed, NotifyFailsOwed, CancelOwed
    <1>3. CASE Tick
        <2>1. UNCHANGED <<storeVars, req, posted>>
            BY <1>3 DEF Tick
        <2> QED
            BY <2>1, IdleOwed
    <1>4. CASE Crash
        BY <1>4, CrashOwed
    <1>5. CASE UNCHANGED allVars
        <2>1. UNCHANGED <<storeVars, req, posted>>
            BY <1>5 DEF allVars, apiVars
        <2> QED
            BY <2>1, IdleOwed
    <1> QED
        BY <1>1, <1>2, <1>3, <1>4, <1>5 DEF ApiNext

LEMMA InitOwed ==
    ASSUME ApiInit
    PROVE  CallInv
    <1>1. /\ DOMAIN payments = {} /\ DOMAIN refunds = {} /\ posted = <<>>
          /\ \A r \in Req : req[r] = Idle
        BY DEF ApiInit, Empty
    <1>2. \A r \in Req : CallbackKnown(req[r], refunds)
        BY <1>1 DEF Idle, CallbackKnown
    <1>3. HooksStored
        <2>1. \A n \in DOMAIN events : events[n].agg[1] = "cob"
            BY AggregateShapes DEF ApiInit, EventAt
        <2> QED
            BY <2>1, AggregateShapes DEF HooksStored
    <1> QED
        BY <1>1, <1>2, <1>3
           DEF CallInv, HookSideInv, RefundsSpend, OwedPayments, OwedRefunds, PostedOnce

\* A payment or a refund whose key has an endpoint is posted exactly once, or the
\* request that made it still owes it, was killed, or had its detached read fail.
THEOREM CallbacksPosted == ApiSpec => []CallbackOwed
    <1>1. ApiInit => CallInv
        BY InitOwed
    <1>2. ApiInv /\ CallInv /\ [ApiNext]_allVars => CallInv'
        BY OwedStep
    <1>3. CallInv => CallbackOwed
        <2> SUFFICES ASSUME CallInv PROVE CallbackOwed
            OBVIOUS
        <2>1. ASSUME NEW e, NEW kind, NEW r \in Req, Owes(req[r], e, kind)
              PROVE  Owing(e, kind)
            BY <2>1 DEF Owes, Late, Owing
        <2>2. \A e, type : Hooked(e, type) => HookedIn(events, payments[e].chave, e, type)
            BY DEF Hooked, HookedIn
        <2>3. \A e : PostedPayment(posted, e) => [e2e |-> e, returns |-> {}] \in Range(posted)
            BY DEF PostedPayment, Range
        <2>4. \A e \in DOMAIN payments : Hooked(e, "pix.received") =>
                  Owing(e, "pay") \/ [e2e |-> e, returns |-> {}] \in Range(posted)
            BY <2>1, <2>2, <2>3 DEF CallInv, OwedPayments, Received
        <2>5. \A k \in DOMAIN refunds : Hooked(k[1], "pix.devolucao.settled") =>
                  \/ Owing(k[1], "refund")
                  \/ \E i \in DOMAIN posted : posted[i].e2e = k[1] /\ k \in posted[i].returns
            BY <2>1, <2>2 DEF CallInv, OwedRefunds, PostedRefund, Returned
        <2>6. IsInjective(posted)
            BY DEF CallInv, PostedOnce, IsInjective
        <2> QED
            BY <2>4, <2>5, <2>6 DEF CallbackOwed
    <1> QED
        BY <1>1, <1>2, <1>3, ApiCorrect, PTL DEF ApiSpec
=============================================================================
