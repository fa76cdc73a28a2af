------------------------------- MODULE PixApi -------------------------------
(***************************************************************************)
(* The handlers of internal/api over the store: requests that run          *)
(* concurrently, interleaved at every store transaction and every reading  *)
(* of the clock, on a process that can crash and boot again.               *)
(*                                                                         *)
(* A handler is a sequence of steps; req[r].pc names the next one.  What   *)
(* it read earlier it keeps (req[r].seen, req[r].at) and uses later, as    *)
(* the Go locals do.  A handler reads the clock at some instant between    *)
(* its previous step and the one that uses the reading, so a reading is    *)
(* any instant of req[r].since .. clock.                                   *)
(***************************************************************************)
EXTENDS PixStore

CONSTANTS
    Req,          \* requests the clients send, each at most once
    Kinds,        \* which requests they send
    Earlier,      \* txids of charges an earlier run left in the database, in order
    Stream,       \* the txids the seeded source yields, by number of draws since boot
    MaxCrashes,   \* bound: crashes
    NoTxId, NoE2E

ASSUME EarlierAssumption ==
    /\ Earlier \in Seq(TxId) /\ IsInjective(Earlier) /\ 0 \in Time
    /\ Earlier # <<>> => Min(Amount) \in Amount /\ Max(Window) \in Window /\ Chave # {}
ASSUME StreamAssumption == Stream \in Seq(TxId) /\ MaxCrashes \in Nat

VARIABLES
    clock,     \* the sandbox clock, which s.now() reads
    req,       \* the requests and the locals of their handlers
    posted,    \* the callbacks handed to Dispatcher.Deliver, in order
    drawn,     \* values drawn from the seeded source since boot
    crashes

apiVars == <<clock, req, posted, drawn, crashes>>
allVars == <<storeVars, apiVars>>

\* One request: what the client sent, where its handler is, what it has read,
\* and the answer.
Idle ==
    [kind |-> "none", pc |-> "idle", txid |-> NoTxId, e2e |-> NoE2E, id |-> "none",
     cents |-> 0, window |-> 0, since |-> 0, at |-> 0, seen |-> <<>>,
     returns |-> {}, code |-> 0, shown |-> "none"]

Running(r) == req[r].pc \notin {"idle", "done", "gone", "dropped"}

\* mutant: the instant is rounded up
ReadingsRoundedUp(r) == req[r].since .. clock + 1

Readings(r) == req[r].since .. clock

\* A step of r's handler leaves it with the locals q.
Step(r, q) ==
    /\ req' = [req EXCEPT ![r] = [q EXCEPT !.since = clock]]
    /\ UNCHANGED <<clock, crashes>>

Answer(r, code, shown) ==
    Step(r, [req[r] EXCEPT !.pc = "done", !.code = code, !.shown = shown])

-----------------------------------------------------------------------------
(***************************************************************************)
(* Requests as they arrive, already validated.  A refund names a payment   *)
(* the client has heard of (a callback, a 201, a 409).                     *)
(***************************************************************************)
CreateSent(t, c, w) ==
    [Idle EXCEPT !.kind = "create", !.pc = "create", !.txid = t, !.cents = c, !.window = w]
MintSent(c, w) == [Idle EXCEPT !.kind = "mint", !.pc = "mint", !.cents = c, !.window = w]
GetSent(t) == [Idle EXCEPT !.kind = "get", !.pc = "load", !.txid = t, !.code = 200]
PaySent(t) == [Idle EXCEPT !.kind = "pay", !.pc = "pay", !.txid = t]
RefundSent(e, i, c) ==
    [Idle EXCEPT !.kind = "refund", !.pc = "payment", !.e2e = e, !.id = i, !.cents = c]
HookSent == [Idle EXCEPT !.kind = "hook", !.pc = "hook"]

Requests ==
    {CreateSent(t, c, w) : t \in TxId, c \in Amount, w \in Window}
    \cup {MintSent(c, w) : c \in Amount, w \in Window}
    \cup {GetSent(t) : t \in TxId}
    \cup {PaySent(t) : t \in TxId}
    \cup {RefundSent(e, i, c) : e \in DOMAIN payments, i \in RefundId, c \in Amount}
    \cup {HookSent}

Arrive(r) ==
    /\ req[r].pc = "idle"
    /\ \E q \in Requests :
          /\ q.kind \in Kinds
          /\ req' = [req EXCEPT ![r] = [q EXCEPT !.since = clock]]
    /\ UNCHANGED <<storeVars, clock, posted, drawn, crashes>>

-----------------------------------------------------------------------------
(***************************************************************************)
(* handleCreateCob, handleGetCob.                                          *)
(***************************************************************************)
\* mutant: the collided txid is tried again
BuildMintedAgain(r) ==
    /\ req[r].pc = "mint"
    /\ drawn < Len(Stream)
    /\ Step(r, [req[r] EXCEPT !.pc = "create", !.txid = Stream[drawn + 1]])
    /\ UNCHANGED <<storeVars, posted, drawn>>

\* buildCharge of a request without txid: the next value of the seeded stream.
BuildMinted(r) ==
    /\ req[r].pc = "mint"
    /\ drawn < Len(Stream)
    /\ drawn' = drawn + 1
    /\ Step(r, [req[r] EXCEPT !.pc = "create", !.txid = Stream[drawn + 1]])
    /\ UNCHANGED <<storeVars, posted>>

\* mutant: every stored txid is taken for a replay
ReplayMintedToo(r) == Step(r, [req[r] EXCEPT !.pc = "load", !.code = 200])

\* What a creation does when the txid is already stored: one the caller chose is
\* replayed, a minted one is a collision with an earlier run and minted again.
ReplayCob(r) ==
    IF req[r].kind = "mint"
    THEN Step(r, [req[r] EXCEPT !.pc = "mint"])
    ELSE Step(r, [req[r] EXCEPT !.pc = "load", !.code = 200])

StoreCob(r) ==
    /\ req[r].pc = "create"
    /\ \/ \E at \in Readings(r), chave \in Chave :
             /\ CreateCharge(req[r].txid, req[r].cents, chave, req[r].window, at)
             /\ Step(r, [req[r] EXCEPT !.pc = "respond", !.seen = charges'[req[r].txid], !.code = 201])
       \/ /\ req[r].txid \in DOMAIN charges
          /\ ReplayCob(r)
          /\ UNCHANGED storeVars
    /\ UNCHANGED <<posted, drawn>>

\* store.ExpireCharge on a stored charge: the transition if it is due.
SettleExpiry(txid, at) ==
    \/ ExpireCharge(txid, at)
    \/ ~IsExpired(charges[txid], at) /\ UNCHANGED storeVars

\* loadCharge, and the expiry a replayed creation runs first.
LoadCob(r) ==
    /\ req[r].pc = "load"
    /\ IF req[r].txid \in DOMAIN charges
       THEN \E at \in Readings(r) :
               /\ SettleExpiry(req[r].txid, at)
               /\ Step(r, [req[r] EXCEPT !.pc = "respond", !.seen = charges'[req[r].txid]])
       ELSE Answer(r, 404, "none") /\ UNCHANGED storeVars
    /\ UNCHANGED <<posted, drawn>>

\* cobResponse, with a reading of the clock of its own.
RespondCob(r) ==
    /\ req[r].pc = "respond"
    /\ \E at \in Readings(r) :
          Step(r, [req[r] EXCEPT !.pc = "done", !.shown = EffectiveStatus(req[r].seen, at)])
    /\ UNCHANGED <<storeVars, posted, drawn>>

-----------------------------------------------------------------------------
(***************************************************************************)
(* handleSandboxPay: one reading of the clock for both transactions.       *)
(***************************************************************************)
PayExpire(r) ==
    /\ req[r].pc = "pay"
    /\ IF req[r].txid \in DOMAIN charges
       THEN \E at \in Readings(r) :
               /\ SettleExpiry(req[r].txid, at)
               /\ Step(r, [req[r] EXCEPT !.pc = "settle", !.at = at, !.seen = charges'[req[r].txid]])
       ELSE Answer(r, 404, "none") /\ UNCHANGED storeVars
    /\ UNCHANGED <<posted, drawn>>

\* The e2eId of the payment SettleCharge is about to mint.
NextE2EID(at, rnd) == NewE2EID(at, rnd, NextNumber(PaymentSeqs))

\* mutant: the clock is read again for the second transaction
SettleInstantReadAgain(r) == Readings(r)

SettleInstant(r) == {req[r].at}

PaySettle(r) ==
    LET txid == req[r].txid
        charge == charges[txid]
    IN  /\ req[r].pc = "settle"
        /\ \E at \in SettleInstant(r) :
           \/ \E rnd \in RandomHalf :
                 /\ SettleCharge(txid, at, rnd)
                 /\ Step(r, [req[r] EXCEPT !.pc = "notify", !.e2e = NextE2EID(at, rnd), !.code = 201])
                 /\ drawn' = drawn + 1
           \/ /\ charge.status = "CONCLUIDA"
              /\ Answer(r, 409, PaymentOf(txid))
              /\ UNCHANGED <<storeVars, drawn>>
           \/ /\ charge.status # "CONCLUIDA" /\ ~Payable(charge, at)
              /\ Answer(r, 400, EffectiveStatus(req[r].seen, at))
              /\ UNCHANGED <<storeVars, drawn>>
           \/ /\ Payable(charge, at) /\ ~SeqFits(NextNumber(PaymentSeqs))
              /\ Answer(r, 500, "none")
              /\ UNCHANGED <<storeVars, drawn>>
        /\ UNCHANGED posted

-----------------------------------------------------------------------------
(***************************************************************************)
(* handleCreateDevolucao.  Only the full amount is accepted.               *)
(***************************************************************************)
LoadPayment(r) ==
    /\ req[r].pc = "payment"
    /\ IF req[r].cents = payments[req[r].e2e].cents
       THEN Step(r, [req[r] EXCEPT !.pc = "refund", !.seen = payments[req[r].e2e]])
       ELSE Answer(r, 400, "partial")
    /\ UNCHANGED <<storeVars, posted, drawn>>

\* mutant: the cap is checked before the stored refund is looked for
ReplayableWithinCap(key, fits) == key \in DOMAIN refunds /\ fits

\* A refund id the payment already has is replayed, whatever is left to return.
Replayable(key, fits) == key \in DOMAIN refunds

StoreRefund(r) ==
    LET e2e == req[r].e2e
        key == <<e2e, req[r].id>>
        fits == req[r].cents <= RefundableCents(payments[e2e])
    IN  /\ req[r].pc = "refund"
        /\ \/ \E at \in Readings(r), rnd \in RandomHalf :
                 /\ CreateRefund(e2e, req[r].id, req[r].cents, at, rnd)
                 /\ Step(r, [req[r] EXCEPT !.pc = "reload", !.code = 201, !.shown = refunds'[key].rtrId])
                 /\ drawn' = drawn + 1
           \/ /\ Replayable(key, fits)
              /\ Answer(r, 200, refunds[key].rtrId)
              /\ UNCHANGED <<storeVars, drawn>>
           \/ /\ ~Replayable(key, fits) /\ ~fits
              /\ Answer(r, 400, req[r].seen.refunded)
              /\ UNCHANGED <<storeVars, drawn>>
           \/ /\ ~Replayable(key, fits) /\ fits /\ ~SeqFits(NextNumber(RefundSeqs))
              /\ Answer(r, 500, "none")
              /\ UNCHANGED <<storeVars, drawn>>
        /\ UNCHANGED posted

\* The payment as the callback will show it: with the refunds found now.
ReloadPayment(r) ==
    /\ req[r].pc = "reload"
    /\ Step(r, [req[r] EXCEPT !.pc = "notify", !.returns = RefundsOf(req[r].e2e)])
    /\ UNCHANGED <<storeVars, posted, drawn>>

-----------------------------------------------------------------------------
(***************************************************************************)
(* notify, on a context detached from the request: the endpoint of the     *)
(* payment's key is read and the callback handed to the dispatcher, or     *)
(* nothing is owed.  The answer follows.                                   *)
(***************************************************************************)
Callback(r) == [e2e |-> req[r].e2e, returns |-> req[r].returns]

Notify(r) ==
    /\ req[r].pc = "notify"
    /\ posted' = IF payments[req[r].e2e].chave \in DOMAIN webhooks
                 THEN Append(posted, Callback(r)) ELSE posted
    /\ Step(r, [req[r] EXCEPT !.pc = "done", !.shown = IF req[r].kind = "pay" THEN req[r].e2e ELSE @])
    /\ UNCHANGED <<storeVars, drawn>>

\* A detached read can still fail or pass its five seconds; the handler logs it
\* on stderr and answers as if nothing was owed.
NotifyFails(r) ==
    /\ req[r].pc \in {"reload", "notify"}
    /\ Step(r, [req[r] EXCEPT !.pc = "dropped"])
    /\ UNCHANGED <<storeVars, posted, drawn>>

-----------------------------------------------------------------------------
\* handlePutWebhook.
PutHook(r) ==
    /\ req[r].pc = "hook"
    /\ \E at \in Readings(r), chave \in Chave, url \in Url :
          /\ PutWebhook(chave, url, at)
          /\ Answer(r, IF chave \in DOMAIN webhooks THEN 200 ELSE 201, "none")
    /\ UNCHANGED <<posted, drawn>>

(***************************************************************************)
(* The client hangs up, or the router's 30 seconds pass: every store call  *)
(* on the request's own context fails, its transaction rolled back.  What  *)
(* it drew from the seeded source stays drawn.                             *)
(***************************************************************************)
\* mutant: the callback is read on the request's context too
CancellableThroughNotify ==
    {"create", "load", "pay", "settle", "payment", "refund", "hook", "reload", "notify"}

Cancellable == {"create", "load", "pay", "settle", "payment", "refund", "hook"}

Cancel(r) ==
    /\ req[r].pc \in Cancellable
    /\ Answer(r, 500, "none")
    /\ drawn' \in IF req[r].pc \in {"settle", "refund"} THEN {drawn, drawn + 1} ELSE {drawn}
    /\ UNCHANGED <<storeVars, posted>>

-----------------------------------------------------------------------------
Tick ==
    /\ clock + 1 \in Time
    /\ clock' = clock + 1
    /\ UNCHANGED <<storeVars, req, posted, drawn, crashes>>

\* The process dies and boots on the same database: handlers are gone, and the
\* seeded source starts over.
Crash ==
    /\ crashes < MaxCrashes
    /\ crashes' = crashes + 1
    /\ drawn' = 0
    /\ req' = [r \in Req |-> IF Running(r) THEN [req[r] EXCEPT !.pc = "gone"] ELSE req[r]]
    /\ UNCHANGED <<storeVars, clock, posted>>

\* The database an earlier run left: the charges of Earlier, created at instant 0
\* with the widest window.
EarlierCharge(n) ==
    [status |-> "ATIVA", cents |-> Min(Amount), chave |-> CHOOSE k \in Chave : TRUE, locId |-> n,
     revisao |-> 0, createdAt |-> 0, expiresAt |-> Max(Window)]

ApiInit ==
    /\ charges = [t \in Range(Earlier) |->
                     EarlierCharge(CHOOSE n \in DOMAIN Earlier : Earlier[n] = t)]
    /\ events = [n \in DOMAIN Earlier |->
                     EventAt(ChargeAggregate(Earlier[n]), "cob.created", 0,
                             ChargePayload(EarlierCharge(n)))]
    /\ payments = Empty /\ refunds = Empty /\ webhooks = Empty
    /\ clock = 0 /\ posted = <<>> /\ drawn = 0 /\ crashes = 0
    /\ req = [r \in Req |-> Idle]

Handle(r) ==
    \/ BuildMinted(r) \/ StoreCob(r) \/ LoadCob(r) \/ RespondCob(r)
    \/ PayExpire(r) \/ PaySettle(r)
    \/ LoadPayment(r) \/ StoreRefund(r) \/ ReloadPayment(r)
    \/ Notify(r) \/ PutHook(r)

ApiNext ==
    \/ \E r \in Req : Arrive(r) \/ Handle(r) \/ NotifyFails(r) \/ Cancel(r)
    \/ Tick
    \/ Crash

\* A handler that can run does: the connection is handed out in turn, and every
\* store call is bounded by the request's or the detached context.
ApiSpec == ApiInit /\ [][ApiNext]_allVars /\ \A r \in Req : WF_allVars(Handle(r))
-----------------------------------------------------------------------------
(***************************************************************************)
(* Safety.                                                                 *)
(***************************************************************************)
ApiTypeOK ==
    /\ clock \in Time /\ crashes \in 0 .. MaxCrashes /\ drawn \in Nat
    /\ \A r \in Req :
          /\ DOMAIN req[r] = DOMAIN Idle
          /\ req[r].since \in 0 .. clock /\ req[r].at \in 0 .. clock
          /\ req[r].code \in {0, 200, 201, 400, 404, 409, 500}
    /\ \A i \in DOMAIN posted : posted[i].e2e \in DOMAIN payments

\* What a request that answers 201 claims to have brought into existence.
Claim(r) ==
    CASE req[r].kind \in {"create", "mint"} -> <<"cob", req[r].txid>>
      [] req[r].kind = "pay" -> <<"pix", req[r].txid>>
      [] req[r].kind = "refund" -> <<"devolucao", req[r].e2e>>

\* INV-2 over the wire: among any number of concurrent requests, retries and
\* restarts, at most one is told it created a given charge, at most one that it
\* paid it, and at most one that it returned a payment (refunds are full).
OneWinner ==
    \A r, s \in Req :
        /\ r # s /\ req[r].code = 201 /\ req[s].code = 201
        /\ req[r].kind # "hook" /\ req[s].kind # "hook"
        => Claim(r) # Claim(s)

\* A request without txid is answered with the charge it asked for, never with
\* one that an earlier run of the same seed left in the database.
MintServesItsOwn ==
    \A r \in Req : req[r].kind = "mint" /\ req[r].pc \in {"respond", "done"} /\ req[r].code # 500 =>
        /\ req[r].code = 201
        /\ req[r].seen.cents = req[r].cents
        /\ charges[req[r].txid].createdAt = req[r].seen.createdAt

\* What a payer is told is what the store holds: 201 and 409 name the payment of
\* that very charge, and a charge refused as unpayable has its expiry in the log.
PayAnswersTrue ==
    \A r \in Req : req[r].kind = "pay" /\ req[r].pc = "done" =>
        /\ req[r].code \in {201, 409} =>
              req[r].shown \in DOMAIN payments /\ payments[req[r].shown].txid = req[r].txid
        /\ req[r].code = 400 => Occurs(ChargeAggregate(req[r].txid), "cob.expired")

\* A refund retried under its id is answered with the refund first stored, and
\* never refused although nothing is left to return: a full-amount refund is only
\* refused under an id that has none.
RefundAnswersTrue ==
    \A r \in Req : req[r].kind = "refund" /\ req[r].pc = "done" =>
        LET key == <<req[r].e2e, req[r].id>> IN
        /\ req[r].code \in {200, 201} =>
              key \in DOMAIN refunds /\ req[r].shown = refunds[key].rtrId
        /\ req[r].code = 400 /\ req[r].cents = payments[req[r].e2e].cents =>
              key \notin DOMAIN refunds

-----------------------------------------------------------------------------
\* The payment was received after an endpoint had been registered for its key.
Hooked(e2e, type) ==
    \E i, j \in DOMAIN events :
        /\ i < j
        /\ events[i].agg = WebhookAggregate(payments[e2e].chave)
        /\ events[j].agg = PaymentAggregate(e2e) /\ events[j].type = type

\* The handler that owes a callback for e2e is still at work, was killed, or had
\* its detached read fail.
Owing(e2e, kind) ==
    \E r \in Req : /\ req[r].kind = kind /\ req[r].e2e = e2e /\ req[r].code = 201
                   /\ req[r].pc \in {"reload", "notify", "gone", "dropped"}

\* A committed settlement or refund whose key has an endpoint is handed to the
\* dispatcher exactly once, whatever happens to the request that made it; the
\* callback of a refund lists that refund.
CallbackOwed ==
    /\ \A e \in DOMAIN payments : Hooked(e, "pix.received") =>
          Owing(e, "pay") \/ [e2e |-> e, returns |-> {}] \in Range(posted)
    /\ \A k \in DOMAIN refunds : Hooked(k[1], "pix.devolucao.settled") =>
          Owing(k[1], "refund")
          \/ \E i \in DOMAIN posted : posted[i].e2e = k[1] /\ k \in posted[i].returns
    /\ IsInjective(posted)

\* Every request that starts is answered, or ends with the process: the loop that
\* mints a txid again walks past every charge an earlier run left.
Answered == \A r \in Req : Running(r) ~> ~Running(r)

-----------------------------------------------------------------------------
(***************************************************************************)
(* What the comments of the handlers say, and the code does not do.        *)
(***************************************************************************)
\* cob.go: an EXPIRADA in a response is a recorded transition in the log.
ExpiradaIsRecorded ==
    \A r \in Req : req[r].pc = "done" /\ req[r].kind \in {"create", "mint", "get"} =>
        (req[r].shown = "EXPIRADA" => Occurs(ChargeAggregate(req[r].txid), "cob.expired"))

\* pix.go: a charge reported unpayable is reported with the status that makes it so.
RefusalIsHonest ==
    \A r \in Req : req[r].pc = "done" /\ req[r].kind = "pay" /\ req[r].code = 400 =>
        req[r].shown # "ATIVA"
=============================================================================
