------------------------------ MODULE PixReplay ------------------------------
(***************************************************************************)
(* The log as the source of truth: the tables rebuilt from the events      *)
(* alone.  Each event is applied to the four tables by what its payload    *)
(* says; the log of the store, replayed, must be the store.                *)
(***************************************************************************)
EXTENDS PixStore, SequencesExt

Nothing == [charges |-> Empty, payments |-> Empty, refunds |-> Empty, webhooks |-> Empty]

ApplyCreated(db, txid, body) ==
    [db EXCEPT !.charges = Insert(@, txid,
        [status |-> body.status, cents |-> body.cents, chave |-> body.chave,
         locId |-> body.locId, revisao |-> 0, createdAt |-> body.createdAt,
         expiresAt |-> body.expiresAt])]

ApplyExpired(db, txid) == [db EXCEPT !.charges[txid].status = "EXPIRADA"]

ApplySettled(db, txid, body) ==
    LET rows == db.charges
    IN  [db EXCEPT !.charges =
            [rows EXCEPT ![txid].status = body.status, ![txid].revisao = @ + 1]]

ApplyReceived(db, e2e, body) ==
    [db EXCEPT !.payments = Insert(@, e2e,
        [seq |-> e2e.seq, txid |-> body.txid, chave |-> body.chave, status |-> body.status,
         cents |-> body.cents, refunded |-> 0, at |-> body.horario])]

ApplyRefund(db, e2e, body, at) ==
    [db EXCEPT !.refunds = Insert(@, <<e2e, body.id>>,
        [rtrId |-> body.rtrId, seq |-> body.rtrId.seq, cents |-> body.cents,
         status |-> body.status, requestedAt |-> body.solicitacao, settledAt |-> at])]

CountRefund(db, e2e, body) ==
    LET rows == db.payments
        refunded == rows[e2e].refunded + body.cents
    IN  [db EXCEPT !.payments = [rows EXCEPT
            ![e2e].refunded = refunded,
            ![e2e].status = IF refunded = rows[e2e].cents THEN "REFUNDED" ELSE "SETTLED"]]

ApplyRegistered(db, chave, body, at) ==
    [db EXCEPT !.webhooks = Insert(@, chave,
        [url |-> body.url, updatedAt |-> at,
         createdAt |-> IF body.created THEN at ELSE db.webhooks[chave].createdAt])]

Apply(db, e) ==
    LET key == e.agg[2] IN
    CASE e.type = "cob.created" -> ApplyCreated(db, key, e.body)
      [] e.type = "cob.expired" -> ApplyExpired(db, key)
      [] e.type = "cob.settled" -> ApplySettled(db, key, e.body)
      [] e.type = "pix.received" -> ApplyReceived(db, key, e.body)
      [] e.type = "pix.devolucao.requested" -> ApplyRefund(db, key, e.body, e.at)
      [] e.type = "pix.devolucao.settled" ->
            CountRefund(ApplyRefund(db, key, e.body, e.at), key, e.body)
      [] e.type = "webhook.registered" -> ApplyRegistered(db, key, e.body, e.at)
      [] e.type \in NoteType -> db

\* INV-3: the projections rebuilt from the log always agree with the tables,
\* column by column (the BR Code is the column no event carries; see README).
ReplayAgrees ==
    FoldLeft(Apply, Nothing, events) =
        [charges |-> charges, payments |-> payments, refunds |-> refunds, webhooks |-> webhooks]
=============================================================================
