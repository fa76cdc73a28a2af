---------------------------- MODULE ConsoleProofs -----------------------------
(***************************************************************************)
(* What a viewer of the console is shown, for every set of charges, clock  *)
(* readings and limits: a row is new once, no charge goes back, and the    *)
(* parts of a charge page, read one by one, agree.                         *)
(***************************************************************************)
EXTENDS Console, PixLogProofs

\* A status that may be told after another: none is taken back.
Behind(old, new) ==
    /\ old = "CONCLUIDA" => new = "CONCLUIDA"
    /\ old # "ATIVA" => new # "ATIVA"

\* A row of charges as some read found it.
Snapshot(c, t, ch) ==
    /\ t \in DOMAIN ch
    /\ ch[t].createdAt = c.createdAt /\ ch[t].expiresAt = c.expiresAt
    /\ c.status # "ATIVA" => ch[t].status = c.status

\* p shows charge t in status s: Displayed, without its cases.
Shows(p, t, s) ==
    \/ p.kind = "ledger" /\ \E row \in p.rows : row.txid = t /\ row.status = s
    \/ p.kind = "charge" /\ p.txid = t /\ p.status = s

\* What a page shows is not ahead of the store.
Told(p, ch, now) ==
    \A t, s : Shows(p, t, s) => t \in DOMAIN ch /\ Behind(s, EffectiveStatus(ch[t], now))

LedgerFields == {"kind", "polled", "since", "before", "list", "rows"}
ChargeFields == {"kind", "txid", "charge", "settler", "timeline", "status", "payment"}

\* The watermark covers every row the ledger shows or has shown.
LedgerFine(p, ch, now) ==
    /\ p.kind = "ledger" /\ DOMAIN p = LedgerFields /\ p.polled \in BOOLEAN
    /\ p.since \in Int /\ p.since <= now
    /\ \A t \in p.before : t \in DOMAIN ch /\ ch[t].createdAt <= p.since
    /\ \A row \in p.rows : /\ row.txid \in DOMAIN ch /\ ch[row.txid].createdAt <= p.since
                           /\ row.fresh => row.txid \notin p.before
    /\ \A t \in DOMAIN p.list : Snapshot(p.list[t], t, ch)
    /\ Told(p, ch, now)

\* The steps of handleCharge after the one that read the charge, and after the one
\* that inferred its status.
CarriesCharge == {"settler", "timeline", "status", "payment", "show"}
CarriesStatus == {"payment", "show"}

LoadFine(l, ch, now) ==
    \/ l = Idle
    \/ /\ l.at \in {"list", "rows", "stats", "show"}
       /\ LedgerFine(l.draft, ch, now)
       /\ l.at # "rows" => DOMAIN l.draft.list = {}
       /\ l.at \in {"list", "rows"} => l.draft.rows = {}
    \/ /\ l.at \in {"stats", "charge"} \cup CarriesCharge
       /\ l.draft.kind = "charge" /\ DOMAIN l.draft = ChargeFields
       /\ l.at \in CarriesCharge => Snapshot(l.draft.charge, l.draft.txid, ch)
       /\ l.at \in CarriesStatus => Told(l.draft, ch, now)
    \/ l.at = "show" /\ l.draft = NotFoundPage

PageFine(p, ch, now) ==
    \/ p \in {Blank, ErrorPage, NotFoundPage}
    \/ LedgerFine(p, ch, now)
    \/ p.kind = "charge" /\ Told(p, ch, now)

\* What the handler holds of a charge the page shows is not behind the page.
Ahead(p, l, now) ==
    \A t, s : Shows(p, t, s) =>
        /\ l.draft.kind = "ledger" => /\ \A u \in DOMAIN l.draft.list :
                                            u = t => Behind(s, EffectiveStatus(l.draft.list[u], now))
                                      /\ \A new : Shows(l.draft, t, new) => Behind(s, new)
        /\ l.draft.kind = "charge" /\ l.draft.txid = t =>
              /\ l.at \in CarriesCharge => Behind(s, EffectiveStatus(l.draft.charge, now))
              /\ l.at \in CarriesStatus => Behind(s, l.draft.status)

\* No charge is stamped in the future.
CreatedPast(ch, now) == \A t \in DOMAIN ch : ch[t].createdAt <= now

ConsoleInv ==
    /\ TableInv
    /\ clock \in Time
    /\ CreatedPast(charges, clock)
    /\ PageFine(page, charges, clock)
    /\ LoadFine(load, charges, clock)
    /\ Ahead(page, load, clock)

-----------------------------------------------------------------------------
(***************************************************************************)
(* Statuses, snapshots, and charges that only move on.                     *)
(***************************************************************************)
LEMMA BehindFollows ==
    ASSUME NEW a, NEW b, NEW c, Behind(a, b), Behind(b, c)
    PROVE  Behind(a, c)
    BY DEF Behind

LEMMA DisplayedShows ==
    ASSUME NEW p, NEW x \in Displayed(p)
    PROVE  Shows(p, x[1], x[2])
    <1>1. CASE p.kind = "ledger"
        <2>1. Displayed(p) = {<<row.txid, row.status>> : row \in p.rows}
            BY <1>1 DEF Displayed
        <2>2. PICK row \in p.rows : x = <<row.txid, row.status>>
            BY <2>1
        <2> QED
            BY <1>1, <2>2 DEF Shows
    <1>2. CASE p.kind = "charge"
        <2>1. Displayed(p) = {<<p.txid, p.status>>}
            BY <1>2 DEF Displayed
        <2> QED
            BY <1>2, <2>1 DEF Shows
    <1>3. CASE p.kind # "ledger" /\ p.kind # "charge"
        <2>1. Displayed(p) = {}
            BY <1>3 DEF Displayed
        <2> QED
            BY <2>1
    <1> QED
        BY <1>1, <1>2, <1>3

\* The store is never behind what a read of it found.
LEMMA SnapshotBehind ==
    ASSUME NEW c, NEW t, NEW ch, Snapshot(c, t, ch), NEW now
    PROVE  Behind(EffectiveStatus(c, now), EffectiveStatus(ch[t], now))
    BY DEF Snapshot, Behind, EffectiveStatus, IsExpired

LEMMA LaterStatus ==
    ASSUME NEW c, c.expiresAt \in Int, NEW now \in Int, NEW later \in Int, now <= later
    PROVE  Behind(EffectiveStatus(c, now), EffectiveStatus(c, later))
    BY DEF Behind, EffectiveStatus, IsExpired

Grown(ch, ch2) == \A t \in DOMAIN ch : Snapshot(ch[t], t, ch2)

LEMMA GrownSnapshot ==
    ASSUME NEW ch, NEW ch2, Grown(ch, ch2), NEW c, NEW t, Snapshot(c, t, ch)
    PROVE  Snapshot(c, t, ch2)
    BY DEF Grown, Snapshot

\* No transaction deletes a charge, moves its instants or reopens it.
LEMMA ChargesGrow ==
    ASSUME TypeOK, NEW now \in Time, Transaction(now)
    PROVE  /\ Grown(charges, charges')
           /\ \A t \in DOMAIN charges' \ DOMAIN charges : charges'[t].createdAt = now
    <1>1. charges \in [DOMAIN charges -> ChargeRow]
        BY DEF TypeOK, Typed
    <1>2. CASE charges' = charges
        BY <1>2 DEF Grown, Snapshot
    <1>3. ASSUME NEW txid \in TxId, NEW cents, NEW chave, NEW window,
                 CreateCharge(txid, cents, chave, window, now)
          PROVE  /\ Grown(charges, charges')
                 /\ \A t \in DOMAIN charges' \ DOMAIN charges : charges'[t].createdAt = now
        <2> DEFINE charge == NewCharge(cents, chave, window, now)
        <2>1. charges' = Insert(charges, txid, charge) /\ txid \notin DOMAIN charges
            BY <1>3 DEF CreateCharge, ChargeIsNew
        <2>2. charge.createdAt = now
            BY DEF NewCharge
        <2> HIDE DEF charge
        <2>3. /\ DOMAIN charges' = DOMAIN charges \cup {txid} /\ charges'[txid] = charge
              /\ \A t \in DOMAIN charges : charges'[t] = charges[t]
            BY <2>1 DEF Insert
        <2> QED
            BY <2>2, <2>3 DEF Grown, Snapshot
    <1>4. ASSUME NEW txid \in TxId, ExpireCharge(txid, now)
          PROVE  /\ Grown(charges, charges')
                 /\ \A t \in DOMAIN charges' \ DOMAIN charges : charges'[t].createdAt = now
        <2>1. /\ txid \in DOMAIN charges /\ charges[txid].status = "ATIVA"
              /\ charges' = [charges EXCEPT ![txid].status = "EXPIRADA"]
            BY <1>4 DEF ExpireCharge, IsExpired
        <2> QED
            BY <1>1, <2>1 DEF Grown, Snapshot, ChargeRow
    <1>5. ASSUME NEW txid \in TxId, NEW rnd, SettleCharge(txid, now, rnd)
          PROVE  /\ Grown(charges, charges')
                 /\ \A t \in DOMAIN charges' \ DOMAIN charges : charges'[t].createdAt = now
        <2>1. /\ txid \in DOMAIN charges /\ charges[txid].status = "ATIVA"
              /\ charges' = [charges EXCEPT ![txid].status = "CONCLUIDA", ![txid].revisao = @ + 1]
            BY <1>5 DEF SettleCharge, Payable
        <2> QED
            BY <1>1, <2>1 DEF Grown, Snapshot, ChargeRow
    <1>6. ASSUME NEW e2e, NEW id, NEW cents, NEW rnd, CreateRefund(e2e, id, cents, now, rnd)
          PROVE  charges' = charges
        BY <1>6 DEF CreateRefund
    <1>7. ASSUME NEW chave, NEW url, PutWebhook(chave, url, now)
          PROVE  charges' = charges
        BY <1>7 DEF PutWebhook
    <1>8. ASSUME AppendNote(now)
          PROVE  charges' = charges
        BY <1>8, NoteTyped DEF tables
    <1> QED
        BY <1>2, <1>3, <1>4, <1>5, <1>6, <1>7, <1>8 DEF Transaction

-----------------------------------------------------------------------------
(***************************************************************************)
(* The store and the clock move on under a page that stays.                *)
(***************************************************************************)
LEMMA ToldKept ==
    ASSUME NEW ch, NEW ch2, Grown(ch, ch2), NEW now \in Int, NEW later \in Int, now <= later,
           \A t \in DOMAIN ch2 : ch2[t].expiresAt \in Int,
           NEW p, Told(p, ch, now)
    PROVE  Told(p, ch2, later)
    <1>1. ASSUME NEW t, NEW s, Shows(p, t, s)
          PROVE  t \in DOMAIN ch2 /\ Behind(s, EffectiveStatus(ch2[t], later))
        <2>1. t \in DOMAIN ch /\ Behind(s, EffectiveStatus(ch[t], now))
            BY <1>1 DEF Told
        <2>2. Snapshot(ch[t], t, ch2) /\ t \in DOMAIN ch2
            BY <2>1 DEF Grown, Snapshot
        <2>3. Behind(EffectiveStatus(ch[t], now), EffectiveStatus(ch2[t], now))
            BY <2>2, SnapshotBehind
        <2>4. Behind(EffectiveStatus(ch2[t], now), EffectiveStatus(ch2[t], later))
            BY <2>2, LaterStatus
        <2> QED
            BY <2>1, <2>2, <2>3, <2>4, BehindFollows
    <1> QED
        BY <1>1 DEF Told

LEMMA LedgerKept ==
    ASSUME NEW ch, NEW ch2, Grown(ch, ch2), NEW now \in Int, NEW later \in Int, now <= later,
           \A t \in DOMAIN ch2 : ch2[t].expiresAt \in Int,
           NEW p, LedgerFine(p, ch, now)
    PROVE  LedgerFine(p, ch2, later)
    <1>1. Told(p, ch2, later)
        BY ToldKept DEF LedgerFine
    <1>2. p.since <= later
        BY DEF LedgerFine
    <1>3. \A t \in DOMAIN ch : t \in DOMAIN ch2 /\ ch2[t].createdAt = ch[t].createdAt
        BY DEF Grown, Snapshot
    <1>4. /\ \A t \in p.before : t \in DOMAIN ch2 /\ ch2[t].createdAt <= p.since
          /\ \A row \in p.rows : row.txid \in DOMAIN ch2 /\ ch2[row.txid].createdAt <= p.since
        BY <1>3 DEF LedgerFine
    <1>5. \A t \in DOMAIN p.list : Snapshot(p.list[t], t, ch2)
        BY GrownSnapshot DEF LedgerFine
    <1> QED
        BY <1>1, <1>2, <1>4, <1>5 DEF LedgerFine

LEMMA WorldMoves ==
    ASSUME ConsoleInv, TableInv', Grown(charges, charges'), CreatedPast(charges', clock'),
           clock' \in Time, clock <= clock', page' = page, load' = load
    PROVE  ConsoleInv'
    <1>1. clock \in Int /\ clock' \in Int
        BY TimeAssumption DEF ConsoleInv
    <1>2. \A t \in DOMAIN charges : charges[t].expiresAt \in Int
        BY DEF ConsoleInv, TableInv, TypeOK, Typed, ChargeRow
    <1>3. \A t \in DOMAIN charges' : charges'[t].expiresAt \in Int
        BY DEF TableInv, TypeOK, Typed, ChargeRow
    <1>4. ASSUME NEW p, Told(p, charges, clock)
          PROVE  Told(p, charges', clock')
        BY <1>1, <1>3, <1>4, ToldKept
    <1>5. ASSUME NEW p, LedgerFine(p, charges, clock)
          PROVE  LedgerFine(p, charges', clock')
        BY <1>1, <1>3, <1>5, LedgerKept
    <1>6. PageFine(page, charges', clock')
        BY <1>4, <1>5 DEF ConsoleInv, PageFine
    <1>7. LoadFine(load, charges', clock')
        <2>1. CASE load = Idle \/ (load.at = "show" /\ load.draft = NotFoundPage)
            BY <2>1 DEF LoadFine
        <2>2. CASE /\ load.at \in {"list", "rows", "stats", "show"}
                   /\ LedgerFine(load.draft, charges, clock)
                   /\ load.at # "rows" => DOMAIN load.draft.list = {}
                   /\ load.at \in {"list", "rows"} => load.draft.rows = {}
            BY <1>5, <2>2 DEF LoadFine
        <2>3. CASE /\ load.at \in {"stats", "charge"} \cup CarriesCharge
                   /\ load.draft.kind = "charge" /\ DOMAIN load.draft = ChargeFields
                   /\ load.at \in CarriesCharge =>
                         Snapshot(load.draft.charge, load.draft.txid, charges)
                   /\ load.at \in CarriesStatus => Told(load.draft, charges, clock)
            BY <1>4, <2>3, GrownSnapshot DEF LoadFine
        <2> QED
            BY <2>1, <2>2, <2>3 DEF ConsoleInv, LoadFine
    <1>8. ASSUME NEW c, NEW t, Snapshot(c, t, charges), NEW s, Behind(s, EffectiveStatus(c, clock))
          PROVE  Behind(s, EffectiveStatus(c, clock'))
        <2>1. c.expiresAt \in Int
            BY <1>2, <1>8 DEF Snapshot
        <2> QED
            BY <1>1, <1>8, <2>1, LaterStatus, BehindFollows
    <1>9. Ahead(page, load, clock')
        <2>1. ASSUME NEW t, NEW s, Shows(page, t, s), load.draft.kind = "ledger",
                     NEW u \in DOMAIN load.draft.list, u = t
              PROVE  Behind(s, EffectiveStatus(load.draft.list[u], clock'))
            <3>1. Snapshot(load.draft.list[u], u, charges)
                BY <2>1 DEF ConsoleInv, LoadFine, LedgerFine, Idle, Blank, NotFoundPage
            <3> QED
                BY <1>8, <2>1, <3>1 DEF ConsoleInv, Ahead
        <2>2. ASSUME NEW t, NEW s, Shows(page, t, s), load.draft.kind = "charge",
                     load.draft.txid = t, load.at \in CarriesCharge
              PROVE  Behind(s, EffectiveStatus(load.draft.charge, clock'))
            <3>1. Snapshot(load.draft.charge, load.draft.txid, charges)
                BY <2>2 DEF ConsoleInv, LoadFine, LedgerFine, Idle, Blank, NotFoundPage
            <3> QED
                BY <1>8, <2>2, <3>1 DEF ConsoleInv, Ahead
        <2> QED
            BY <2>1, <2>2 DEF ConsoleInv, Ahead
    <1> QED
        BY <1>6, <1>7, <1>9 DEF ConsoleInv

-----------------------------------------------------------------------------
(***************************************************************************)
(* The steps of the handler and of the browser, over a store that stays.   *)
(***************************************************************************)
LEMMA ViewMoves ==
    ASSUME ConsoleInv, UNCHANGED <<storeVars, clock>>,
           PageFine(page', charges, clock), LoadFine(load', charges, clock),
           Ahead(page', load', clock)
    PROVE  ConsoleInv'
    <1>1. TableInv'
        BY TablesStep DEF ConsoleInv
    <1>2. charges' = charges /\ clock' = clock
        BY DEF storeVars
    <1> QED
        BY <1>1, <1>2 DEF ConsoleInv

LEMMA FilledIs ==
    ASSUME NEW next, NEW fields, Filled(next, fields)
    PROVE  /\ load'.at = next
           /\ DOMAIN load'.draft = DOMAIN load.draft
           /\ \A f \in DOMAIN load.draft :
                 load'.draft[f] = IF f \in DOMAIN fields THEN fields[f] ELSE load.draft[f]
    BY DEF Filled

\* A handler at work on a ledger, and one at work on a charge page.
LEMMA LedgerLoad ==
    ASSUME ConsoleInv, load.draft.kind = "ledger"
    PROVE  /\ load.at \in {"list", "rows", "stats", "show"}
           /\ LedgerFine(load.draft, charges, clock)
           /\ load.at # "rows" => DOMAIN load.draft.list = {}
           /\ load.at \in {"list", "rows"} => load.draft.rows = {}
    BY DEF ConsoleInv, LoadFine, Idle, Blank, NotFoundPage

LEMMA ChargeLoad ==
    ASSUME ConsoleInv, load.draft.kind = "charge"
    PROVE  /\ load.at \in {"stats", "charge"} \cup CarriesCharge
           /\ DOMAIN load.draft = ChargeFields
           /\ load.at \in CarriesCharge => Snapshot(load.draft.charge, load.draft.txid, charges)
           /\ load.at \in CarriesStatus => Told(load.draft, charges, clock)
    BY DEF ConsoleInv, LoadFine, LedgerFine, Idle, Blank, NotFoundPage

LEMMA KindOfLoad ==
    ASSUME ConsoleInv
    PROVE  /\ load.at \in {"list", "rows"} => load.draft.kind = "ledger"
           /\ load.at \in {"charge"} \cup (CarriesCharge \ {"show"}) => load.draft.kind = "charge"
           /\ load.at = "stats" => load.draft.kind \in {"ledger", "charge"}
    BY DEF ConsoleInv, LoadFine, LedgerFine, Idle, CarriesCharge

LEMMA PageTold ==
    ASSUME ConsoleInv
    PROVE  Told(page, charges, clock)
    <1>1. CASE page \in {Blank, ErrorPage, NotFoundPage}
        <2>1. page.kind # "ledger" /\ page.kind # "charge"
            BY <1>1 DEF Blank, ErrorPage, NotFoundPage
        <2> QED
            BY <2>1 DEF Told, Shows
    <1> QED
        BY <1>1 DEF ConsoleInv, PageFine, LedgerFine

\* A draft no row has been read for yet.
LEMMA EmptyLedgerFine ==
    ASSUME NEW polled \in BOOLEAN, NEW since \in Int, NEW before, NEW ch, NEW now,
           since <= now, \A t \in before : t \in DOMAIN ch /\ ch[t].createdAt <= since
    PROVE  /\ LedgerFine(EmptyLedger(polled, since, before), ch, now)
           /\ EmptyLedger(polled, since, before).kind = "ledger"
           /\ EmptyLedger(polled, since, before).list = <<>>
           /\ EmptyLedger(polled, since, before).rows = {}
    <1> DEFINE d == EmptyLedger(polled, since, before)
    <1>1. /\ d.kind = "ledger" /\ d.polled = polled /\ d.since = since /\ d.before = before
          /\ d.list = <<>> /\ d.rows = {}
        BY DEF EmptyLedger, NoCharge
    <1>2. DOMAIN d = LedgerFields
        BY DEF EmptyLedger, LedgerFields
    <1> HIDE DEF d
    <1>3. DOMAIN d.list = {}
        BY <1>1
    <1>4. Told(d, ch, now)
        BY <1>1 DEF Told, Shows
    <1>5. LedgerFine(d, ch, now)
        BY <1>1, <1>2, <1>3, <1>4 DEF LedgerFine
    <1> QED
        BY <1>1, <1>5 DEF d

LEMMA LedgerBegins ==
    ASSUME ConsoleInv, NEW polled \in BOOLEAN, NEW since \in Int, NEW before,
           since <= clock, \A t \in before : t \in DOMAIN charges /\ charges[t].createdAt <= since,
           Begin("list", EmptyLedger(polled, since, before))
    PROVE  ConsoleInv'
    <1> DEFINE d == EmptyLedger(polled, since, before)
    <1>1. LedgerFine(d, charges, clock) /\ d.list = <<>> /\ d.rows = {} /\ d.kind = "ledger"
        BY EmptyLedgerFine
    <1>2. load'.at = "list" /\ load'.draft = d /\ UNCHANGED <<storeVars, clock, page>>
        BY DEF Begin
    <1> HIDE DEF d
    <1>3. LoadFine(load', charges, clock)
        BY <1>1, <1>2 DEF LoadFine
    <1>4. Ahead(page', load', clock)
        BY <1>1, <1>2 DEF Ahead, Shows
    <1> QED
        BY <1>2, <1>3, <1>4, ViewMoves DEF ConsoleInv

LEMMA OpenLedgerKeeps ==
    ASSUME ConsoleInv, OpenLedger
    PROVE  ConsoleInv'
    <1>1. NoStamp \in Int /\ NoStamp <= clock
        BY TimeAssumption DEF ConsoleInv, NoStamp
    <1>2. Begin("list", EmptyLedger(FALSE, NoStamp, {}))
        BY DEF OpenLedger
    <1> DEFINE since == NoStamp
               before == {}
    <1>3. /\ since \in Int /\ since <= clock
          /\ \A t \in before : t \in DOMAIN charges /\ charges[t].createdAt <= since
          /\ Begin("list", EmptyLedger(FALSE, since, before))
        BY <1>1, <1>2
    <1> HIDE DEF since, before
    <1> QED
        BY <1>3, LedgerBegins

\* A poll remembers the rows on the page, all of them within the watermark.
LEMMA PollKeeps ==
    ASSUME ConsoleInv, Poll
    PROVE  ConsoleInv'
    <1>1. LedgerFine(page, charges, clock)
        BY DEF ConsoleInv, PageFine, Poll, Blank, ErrorPage, NotFoundPage
    <1> DEFINE before == page.before \cup TxIdsOf(page.rows)
    <1>2. \A t \in before : t \in DOMAIN charges /\ charges[t].createdAt <= page.since
        BY <1>1 DEF LedgerFine, TxIdsOf
    <1>3. page.since \in Int /\ page.since <= clock
        BY <1>1 DEF LedgerFine
    <1>4. Begin("list", EmptyLedger(TRUE, page.since, before))
        BY DEF Poll
    <1> HIDE DEF before
    <1> QED
        BY <1>2, <1>3, <1>4, LedgerBegins

LEMMA OpenChargeKeeps ==
    ASSUME ConsoleInv, NEW t, OpenCharge(t)
    PROVE  ConsoleInv'
    <1> DEFINE d == EmptyChargePage(t)
    <1>1. d.kind = "charge" /\ DOMAIN d = ChargeFields
        BY DEF EmptyChargePage, ChargeFields
    <1>2. load'.at = "stats" /\ load'.draft = d /\ UNCHANGED <<storeVars, clock, page>>
        BY DEF OpenCharge, Begin
    <1> HIDE DEF d
    <1>3. LoadFine(load', charges, clock)
        BY <1>1, <1>2 DEF LoadFine, CarriesCharge, CarriesStatus
    <1>4. Ahead(page', load', clock)
        BY <1>1, <1>2 DEF Ahead, CarriesCharge, CarriesStatus
    <1> QED
        BY <1>2, <1>3, <1>4, ViewMoves DEF ConsoleInv

LEMMA ShowKeeps ==
    ASSUME ConsoleInv, Show
    PROVE  ConsoleInv'
    <1>1. load.at = "show" /\ page' = load.draft /\ load' = Idle /\ UNCHANGED <<storeVars, clock>>
        BY DEF Show
    <1>2. PageFine(page', charges, clock)
        BY <1>1 DEF ConsoleInv, LoadFine, PageFine, CarriesStatus, Idle
    <1>3. LoadFine(load', charges, clock)
        BY <1>1 DEF LoadFine
    <1>4. Ahead(page', load', clock)
        BY <1>1 DEF Ahead, Idle, Blank
    <1> QED
        BY <1>1, <1>2, <1>3, <1>4, ViewMoves

LEMMA FailsKeeps ==
    ASSUME ConsoleInv, Fails
    PROVE  ConsoleInv'
    <1>1. /\ page' = page \/ page' = ErrorPage
          /\ load' = Idle /\ UNCHANGED <<storeVars, clock>>
        BY DEF Fails
    <1>2. PageFine(page', charges, clock)
        BY <1>1 DEF ConsoleInv, PageFine
    <1>3. LoadFine(load', charges, clock)
        BY <1>1 DEF LoadFine
    <1>4. Ahead(page', load', clock)
        BY <1>1 DEF Ahead, Idle, Blank
    <1> QED
        BY <1>1, <1>2, <1>3, <1>4, ViewMoves

-----------------------------------------------------------------------------
LEMMA ListKeeps ==
    ASSUME ConsoleInv, List
    PROVE  ConsoleInv'
    <1> DEFINE read == [t \in Listed |-> charges[t]]
               fields == [list |-> read]
               d == load'.draft
    <1>1. load.at = "list" /\ Filled("rows", fields) /\ UNCHANGED <<storeVars, clock, page>>
        BY DEF List
    <1>2. load.draft.kind = "ledger"
        BY <1>1, KindOfLoad
    <1>3. LedgerFine(load.draft, charges, clock) /\ load.draft.rows = {}
        BY <1>1, <1>2, LedgerLoad
    <1>4. DOMAIN load.draft = LedgerFields
        BY <1>3 DEF LedgerFine
    <1>5. DOMAIN fields = {"list"} /\ fields["list"] = read
        OBVIOUS
    <1>6. DOMAIN read \subseteq DOMAIN charges /\ \A t \in DOMAIN read : read[t] = charges[t]
        BY DEF Listed
    <1> HIDE DEF read, fields
    <1>7. /\ load'.at = "rows" /\ DOMAIN load'.draft = LedgerFields
          /\ \A f \in LedgerFields :
                load'.draft[f] = IF f \in DOMAIN fields THEN fields[f] ELSE load.draft[f]
        BY <1>1, <1>4, FilledIs
    <1> HIDE DEF d
    <1>8. /\ d.kind = "ledger" /\ d.polled = load.draft.polled /\ d.since = load.draft.since
          /\ d.before = load.draft.before /\ d.rows = {} /\ d.list = read /\ DOMAIN d = LedgerFields
        BY <1>2, <1>3, <1>5, <1>7 DEF LedgerFields, d
    <1>9. Told(d, charges, clock)
        BY <1>8 DEF Told, Shows
    <1>10. \A t \in DOMAIN d.list : Snapshot(d.list[t], t, charges)
        BY <1>6, <1>8 DEF Snapshot
    <1>11. LedgerFine(d, charges, clock)
        BY <1>3, <1>8, <1>9, <1>10 DEF LedgerFine
    <1>12. LoadFine(load', charges, clock)
        BY <1>7, <1>8, <1>11 DEF LoadFine, d
    <1>13. Ahead(page', load', clock)
        BY <1>1, <1>6, <1>8, PageTold DEF Ahead, Told, Shows, d
    <1> QED
        BY <1>1, <1>12, <1>13, ViewMoves DEF ConsoleInv

\* A row that is fresh is past the old watermark, which covers all that was shown;
\* the new one covers the rows.
LEMMA BuildRowsKeeps ==
    ASSUME ConsoleInv, BuildRows
    PROVE  ConsoleInv'
    <1> DEFINE list == load.draft.list
               since == load.draft.since
               newest == Max({since} \cup {list[t].createdAt : t \in DOMAIN list})
               rows == {[txid |-> t, status |-> EffectiveStatus(list[t], clock),
                         fresh |-> Fresh(list[t].createdAt, since)] : t \in DOMAIN list}
               fields == [list |-> NoCharge, rows |-> rows, since |-> newest]
               next == IF IsPoll THEN "show" ELSE "stats"
               d == load'.draft
    <1>1. load.at = "rows" /\ Filled(next, fields) /\ UNCHANGED <<storeVars, clock, page>>
        BY DEF BuildRows
    <1>2. load.draft.kind = "ledger"
        BY <1>1, KindOfLoad
    <1>3. LedgerFine(load.draft, charges, clock)
        BY <1>1, <1>2, LedgerLoad
    <1>4. /\ DOMAIN load.draft = LedgerFields /\ since \in Int /\ since <= clock
          /\ \A t \in DOMAIN list : Snapshot(list[t], t, charges)
          /\ \A t \in load.draft.before : t \in DOMAIN charges /\ charges[t].createdAt <= since
        BY <1>3 DEF LedgerFine
    <1>5. \A t \in DOMAIN charges : charges[t].createdAt \in Int /\ charges[t].createdAt <= clock
        BY TimeAssumption DEF ConsoleInv, TableInv, TypeOK, Typed, ChargeRow, CreatedPast
    <1>6. /\ newest \in Int /\ newest <= clock /\ since <= newest
          /\ \A t \in DOMAIN list : list[t].createdAt <= newest
        <2> DEFINE stamps == {since} \cup {list[t].createdAt : t \in DOMAIN list}
        <2>1. \A t \in DOMAIN list : list[t].createdAt \in Int /\ list[t].createdAt <= clock
            BY <1>4, <1>5 DEF Snapshot
        <2>2. stamps \subseteq Int /\ stamps # {} /\ \A x \in stamps : x <= clock
            BY <1>4, <2>1
        <2>3. clock \in Int
            BY TimeAssumption DEF ConsoleInv
        <2>4. since \in stamps /\ \A t \in DOMAIN list : list[t].createdAt \in stamps
            OBVIOUS
        <2>5. newest = Max(stamps)
            OBVIOUS
        <2> HIDE DEF stamps, newest, list, since
        <2>6. newest \in stamps /\ \A y \in stamps : newest >= y
            BY <2>2, <2>3, <2>5, MaxIs
        <2> QED
            BY <2>1, <2>2, <2>4, <2>6, <1>4
    <1>7. \A row \in rows : \E t \in DOMAIN list :
              /\ row.txid = t /\ row.status = EffectiveStatus(list[t], clock)
              /\ row.fresh => list[t].createdAt > since
        <2>1. ASSUME NEW row \in rows
              PROVE  \E t \in DOMAIN list :
                        /\ row.txid = t /\ row.status = EffectiveStatus(list[t], clock)
                        /\ row.fresh => list[t].createdAt > since
            <3>1. PICK t \in DOMAIN list :
                     row = [txid |-> t, status |-> EffectiveStatus(list[t], clock),
                            fresh |-> Fresh(list[t].createdAt, since)]
                BY <2>1
            <3>2. row.txid = t /\ row.status = EffectiveStatus(list[t], clock)
                BY <3>1
            <3>3. row.fresh = Fresh(list[t].createdAt, since)
                BY <3>1
            <3>4. row.fresh => list[t].createdAt > since
                BY <3>3 DEF Fresh
            <3> QED
                BY <3>2, <3>4
        <2> QED
            BY <2>1
    <1>8. /\ DOMAIN fields = {"list", "rows", "since"} /\ fields["list"] = <<>>
          /\ fields["rows"] = rows /\ fields["since"] = newest
        BY DEF NoCharge
    <1>9. next \in {"stats", "show"}
        OBVIOUS
    <1> HIDE DEF rows, newest, fields, next
    <1>10. /\ load'.at = next /\ DOMAIN load'.draft = LedgerFields
           /\ \A f \in LedgerFields :
                 load'.draft[f] = IF f \in DOMAIN fields THEN fields[f] ELSE load.draft[f]
        BY <1>1, <1>4, FilledIs
    <1> HIDE DEF d
    <1>11. /\ d.kind = "ledger" /\ d.polled = load.draft.polled /\ d.since = newest
           /\ d.before = load.draft.before /\ d.rows = rows /\ d.list = <<>>
           /\ DOMAIN d = LedgerFields
        BY <1>2, <1>8, <1>10 DEF LedgerFields, d
    <1>12. DOMAIN d.list = {}
        BY <1>11
    <1>13. ASSUME NEW t, NEW s, Shows(d, t, s)
           PROVE  /\ t \in DOMAIN list /\ s = EffectiveStatus(list[t], clock)
                  /\ t \in DOMAIN charges /\ Behind(s, EffectiveStatus(charges[t], clock))
        <2>1. t \in DOMAIN list /\ s = EffectiveStatus(list[t], clock)
            BY <1>7, <1>11, <1>13 DEF Shows
        <2>2. Snapshot(list[t], t, charges)
            BY <1>4, <2>1
        <2> QED
            BY <2>1, <2>2, SnapshotBehind DEF Snapshot
    <1>14. Told(d, charges, clock)
        BY <1>13 DEF Told
    <1>15. \A t \in d.before : t \in DOMAIN charges /\ charges[t].createdAt <= d.since
        <2>1. ASSUME NEW t \in d.before
              PROVE  t \in DOMAIN charges /\ charges[t].createdAt <= d.since
            <3>1. t \in DOMAIN charges /\ charges[t].createdAt <= since
                BY <1>4, <1>11
            <3>2. charges[t].createdAt \in Int
                BY <1>5, <3>1
            <3> HIDE DEF since
            <3> QED
                BY <1>4, <1>6, <1>11, <3>1, <3>2
        <2> QED
            BY <2>1
    <1>16. ASSUME NEW row \in d.rows
           PROVE  /\ row.txid \in DOMAIN charges /\ charges[row.txid].createdAt <= d.since
                  /\ row.fresh => row.txid \notin d.before
        <2>1. PICK t \in DOMAIN list :
                 row.txid = t /\ (row.fresh => list[t].createdAt > since)
            BY <1>7, <1>11
        <2>2. t \in DOMAIN charges /\ charges[t].createdAt = list[t].createdAt
            BY <1>4, <2>1 DEF Snapshot
        <2>3. charges[t].createdAt \in Int
            BY <1>5, <2>2
        <2>4. charges[t].createdAt <= d.since
            BY <1>6, <1>11, <2>2
        <2>5. row.fresh => t \notin d.before
            <3>1. t \in d.before => charges[t].createdAt <= since
                BY <1>4, <1>11
            <3>2. row.fresh => charges[t].createdAt > since
                BY <2>1, <2>2
            <3> HIDE DEF since
            <3> QED
                BY <1>4, <2>3, <3>1, <3>2
        <2> QED
            BY <2>1, <2>2, <2>4, <2>5
    <1>17. d.since \in Int /\ d.since <= clock /\ d.polled \in BOOLEAN
        BY <1>3, <1>6, <1>11 DEF LedgerFine
    <1>18. LedgerFine(d, charges, clock)
        BY <1>11, <1>12, <1>14, <1>15, <1>16, <1>17 DEF LedgerFine
    <1>19. LoadFine(load', charges, clock)
        BY <1>9, <1>10, <1>11, <1>12, <1>18 DEF LoadFine, d
    <1>20. Ahead(page', load', clock)
        <2>1. ASSUME NEW t, NEW s, Shows(page, t, s), NEW new, Shows(d, t, new)
              PROVE  Behind(s, new)
            BY <1>2, <1>13, <2>1 DEF ConsoleInv, Ahead
        <2> QED
            BY <1>1, <1>11, <1>12, <2>1 DEF Ahead, d
    <1> QED
        BY <1>1, <1>19, <1>20, ViewMoves DEF ConsoleInv
LEMMA StatsKeeps ==
    ASSUME ConsoleInv, Stats
    PROVE  ConsoleInv'
    <1> DEFINE d == load'.draft
    <1>1. load.at = "stats" /\ UNCHANGED <<storeVars, clock, page>>
        BY DEF Stats
    <1>2. CASE load.draft.kind = "ledger"
        <2>1. Filled("show", <<>>)
            BY <1>2 DEF Stats
        <2>2. /\ LedgerFine(load.draft, charges, clock) /\ DOMAIN load.draft.list = {}
              /\ DOMAIN load.draft = LedgerFields
            BY <1>1, <1>2, LedgerLoad DEF LedgerFine
        <2>3. /\ load'.at = "show" /\ DOMAIN load'.draft = LedgerFields
              /\ \A f \in LedgerFields : load'.draft[f] = load.draft[f]
            BY <2>1, <2>2, FilledIs
        <2> HIDE DEF d
        <2>4. /\ d.kind = "ledger" /\ d.polled = load.draft.polled /\ d.since = load.draft.since
              /\ d.before = load.draft.before /\ d.rows = load.draft.rows
              /\ d.list = load.draft.list /\ DOMAIN d = LedgerFields
            BY <1>2, <2>3 DEF LedgerFields, d
        <2>5. LedgerFine(d, charges, clock)
            BY <2>2, <2>4 DEF LedgerFine, Told, Shows
        <2>6. LoadFine(load', charges, clock)
            BY <2>2, <2>3, <2>4, <2>5 DEF LoadFine, d
        <2>7. Ahead(page', load', clock)
            BY <1>1, <1>2, <2>2, <2>4 DEF ConsoleInv, Ahead, Shows, d
        <2> QED
            BY <1>1, <2>6, <2>7, ViewMoves DEF ConsoleInv
    <1>3. CASE load.draft.kind # "ledger"
        <2>1. load.draft.kind = "charge"
            BY <1>1, <1>3, KindOfLoad
        <2>2. Filled("charge", <<>>)
            BY <1>1, <1>3 DEF Stats, FilledCharge, ChargeSteps
        <2>3. DOMAIN load.draft = ChargeFields
            BY <2>1, ChargeLoad
        <2>4. /\ load'.at = "charge" /\ DOMAIN load'.draft = ChargeFields
              /\ \A f \in ChargeFields : load'.draft[f] = load.draft[f]
            BY <2>2, <2>3, FilledIs
        <2> HIDE DEF d
        <2>5. d.kind = "charge" /\ DOMAIN d = ChargeFields
            BY <2>1, <2>4 DEF ChargeFields, d
        <2>6. LoadFine(load', charges, clock)
            BY <2>4, <2>5 DEF LoadFine, CarriesCharge, CarriesStatus, d
        <2>7. Ahead(page', load', clock)
            BY <2>4, <2>5 DEF Ahead, CarriesCharge, CarriesStatus, d
        <2> QED
            BY <1>1, <2>6, <2>7, ViewMoves DEF ConsoleInv
    <1> QED
        BY <1>2, <1>3

\* The charge is read: the page is not ahead of the store.
LEMMA GetChargeKeeps ==
    ASSUME ConsoleInv, GetCharge
    PROVE  ConsoleInv'
    <1> DEFINE txid == load.draft.txid
               fields == [charge |-> charges[txid]]
               d == load'.draft
    <1>1. load.at = "charge" /\ UNCHANGED <<storeVars, clock, page>>
        BY DEF GetCharge
    <1>2. load.draft.kind = "charge" /\ DOMAIN load.draft = ChargeFields
        BY <1>1, KindOfLoad, ChargeLoad
    <1>3. CASE txid \notin DOMAIN charges
        <2>1. load' = [at |-> "show", draft |-> NotFoundPage]
            BY <1>3 DEF GetCharge
        <2>2. load'.at = "show" /\ load'.draft = NotFoundPage
            BY <2>1
        <2>3. LoadFine(load', charges, clock)
            BY <2>2 DEF LoadFine
        <2>4. Ahead(page', load', clock)
            BY <2>2 DEF Ahead, NotFoundPage
        <2> QED
            BY <1>1, <2>3, <2>4, ViewMoves DEF ConsoleInv
    <1>4. CASE txid \in DOMAIN charges
        <2>1. Filled("settler", fields)
            BY <1>1, <1>4 DEF GetCharge, FilledCharge, ChargeSteps
        <2>2. DOMAIN fields = {"charge"} /\ fields["charge"] = charges[txid]
            OBVIOUS
        <2> HIDE DEF fields
        <2>3. /\ load'.at = "settler" /\ DOMAIN load'.draft = ChargeFields
              /\ \A f \in ChargeFields :
                    load'.draft[f] = IF f \in DOMAIN fields THEN fields[f] ELSE load.draft[f]
            BY <1>2, <2>1, FilledIs
        <2> HIDE DEF d
        <2>4. /\ d.kind = "charge" /\ DOMAIN d = ChargeFields /\ d.txid = txid
              /\ d.charge = charges[txid]
            BY <1>2, <2>2, <2>3 DEF ChargeFields, d
        <2>5. LoadFine(load', charges, clock)
            BY <1>4, <2>3, <2>4 DEF LoadFine, CarriesCharge, CarriesStatus, Snapshot, d
        <2>6. Ahead(page', load', clock)
            BY <1>1, <2>3, <2>4, PageTold DEF Ahead, CarriesCharge, CarriesStatus, Told, d
        <2> QED
            BY <1>1, <2>5, <2>6, ViewMoves DEF ConsoleInv
    <1> QED
        BY <1>3, <1>4

\* A read that leaves the charge and its status as the page has them.
LEMMA ChargeCarried ==
    ASSUME ConsoleInv, load.at \in {"settler", "timeline", "payment"}, NEW fields,
           DOMAIN fields \subseteq {"settler", "timeline", "payment"}, FilledCharge(fields),
           UNCHANGED <<storeVars, clock, page>>
    PROVE  ConsoleInv'
    <1> DEFINE d == load'.draft
               next == ChargeSteps[load.at]
    <1>1. load.draft.kind = "charge"
        BY KindOfLoad DEF CarriesCharge
    <1>2. /\ DOMAIN load.draft = ChargeFields
          /\ Snapshot(load.draft.charge, load.draft.txid, charges)
          /\ load.at = "payment" => Told(load.draft, charges, clock)
        BY <1>1, ChargeLoad DEF CarriesCharge, CarriesStatus
    <1>3. /\ next \in CarriesCharge
          /\ next \in CarriesStatus => load.at = "payment"
        BY DEF ChargeSteps, CarriesCharge, CarriesStatus
    <1>4. Filled(next, fields)
        BY DEF FilledCharge
    <1> HIDE DEF next
    <1>5. /\ load'.at = next /\ DOMAIN load'.draft = ChargeFields
          /\ \A f \in ChargeFields :
                load'.draft[f] = IF f \in DOMAIN fields THEN fields[f] ELSE load.draft[f]
        BY <1>2, <1>4, FilledIs
    <1> HIDE DEF d
    <1>6. /\ d.kind = "charge" /\ DOMAIN d = ChargeFields /\ d.txid = load.draft.txid
          /\ d.charge = load.draft.charge /\ d.status = load.draft.status
        BY <1>1, <1>5 DEF ChargeFields, d
    <1>7. next \in CarriesStatus => Told(d, charges, clock)
        BY <1>1, <1>2, <1>3, <1>6 DEF Told, Shows
    <1>8. LoadFine(load', charges, clock)
        BY <1>2, <1>3, <1>5, <1>6, <1>7 DEF LoadFine, d
    <1>9. Ahead(page', load', clock)
        <2>1. load.at \in CarriesCharge
            BY DEF CarriesCharge
        <2>2. load.at = "payment" => load.at \in CarriesStatus
            BY DEF CarriesStatus
        <2>3. ASSUME NEW t, NEW s, Shows(page, t, s), load.draft.txid = t
              PROVE  /\ Behind(s, EffectiveStatus(d.charge, clock))
                     /\ next \in CarriesStatus => Behind(s, d.status)
            BY <1>1, <1>3, <1>6, <2>1, <2>2, <2>3 DEF ConsoleInv, Ahead
        <2> QED
            BY <1>5, <1>6, <2>3 DEF Ahead, d
    <1> QED
        BY <1>8, <1>9, ViewMoves DEF ConsoleInv

LEMMA InferStatusKeeps ==
    ASSUME ConsoleInv, InferStatus
    PROVE  ConsoleInv'
    <1> DEFINE status == EffectiveStatus(load.draft.charge, clock)
               fields == [status |-> status]
               d == load'.draft
    <1>1. load.at = "status" /\ UNCHANGED <<storeVars, clock, page>>
        BY DEF InferStatus
    <1>2. load.draft.kind = "charge"
        BY <1>1, KindOfLoad DEF CarriesCharge
    <1>3. /\ DOMAIN load.draft = ChargeFields
          /\ Snapshot(load.draft.charge, load.draft.txid, charges)
        BY <1>1, <1>2, ChargeLoad DEF CarriesCharge
    <1>4. Filled("payment", fields)
        BY <1>1 DEF InferStatus, FilledCharge, ChargeSteps
    <1>5. DOMAIN fields = {"status"} /\ fields["status"] = status
        OBVIOUS
    <1>6. /\ load.draft.txid \in DOMAIN charges
          /\ Behind(status, EffectiveStatus(charges[load.draft.txid], clock))
        BY <1>3, SnapshotBehind DEF Snapshot
    <1>7. \A s : Shows(page, load.draft.txid, s) => Behind(s, status)
        BY <1>1, <1>2 DEF ConsoleInv, Ahead, CarriesCharge
    <1> HIDE DEF fields, status
    <1>8. /\ load'.at = "payment" /\ DOMAIN load'.draft = ChargeFields
          /\ \A f \in ChargeFields :
                load'.draft[f] = IF f \in DOMAIN fields THEN fields[f] ELSE load.draft[f]
        BY <1>3, <1>4, FilledIs
    <1> HIDE DEF d
    <1>9. /\ d.kind = "charge" /\ DOMAIN d = ChargeFields /\ d.txid = load.draft.txid
          /\ d.charge = load.draft.charge /\ d.status = status
        BY <1>2, <1>5, <1>8 DEF ChargeFields, d
    <1>10. Told(d, charges, clock)
        BY <1>6, <1>9 DEF Told, Shows
    <1>11. LoadFine(load', charges, clock)
        BY <1>3, <1>8, <1>9, <1>10 DEF LoadFine, CarriesCharge, d
    <1>12. Ahead(page', load', clock)
        BY <1>1, <1>7, <1>9 DEF Ahead, d, status
    <1> QED
        BY <1>1, <1>11, <1>12, ViewMoves DEF ConsoleInv

LEMMA ReadsKeep ==
    ASSUME ConsoleInv, TimelineSettler \/ TimelineEvents \/ PaymentByTxID
    PROVE  ConsoleInv'
    <1>1. ASSUME TimelineSettler
          PROVE  \E fields : /\ DOMAIN fields \subseteq {"settler", "timeline", "payment"}
                             /\ FilledCharge(fields)
        <2>1. CASE FilledCharge(<<>>)
            BY <2>1
        <2>2. ASSUME NEW e, FilledCharge([settler |-> <<e>>])
              PROVE  \E fields : /\ DOMAIN fields \subseteq {"settler", "timeline", "payment"}
                                 /\ FilledCharge(fields)
            <3>1. DOMAIN [settler |-> <<e>>] \subseteq {"settler", "timeline", "payment"}
                OBVIOUS
            <3> QED
                BY <2>2, <3>1
        <2> QED
            BY <1>1, <2>1, <2>2 DEF TimelineSettler
    <1>2. ASSUME TimelineEvents
          PROVE  \E fields : /\ DOMAIN fields \subseteq {"settler", "timeline", "payment"}
                             /\ FilledCharge(fields)
        <2> DEFINE told == {i \in DOMAIN events :
                               events[i].agg \in {ChargeAggregate(load.draft.txid)}
                                   \cup {PaymentAggregate(e) : e \in Range(load.draft.settler)}}
                   rows == [i \in told |-> events[i]]
                   fields == [settler |-> NoPayment, timeline |-> rows]
        <2>1. FilledCharge(fields)
            BY <1>2 DEF TimelineEvents
        <2> HIDE DEF rows
        <2>2. DOMAIN fields \subseteq {"settler", "timeline", "payment"}
            OBVIOUS
        <2> HIDE DEF fields
        <2> QED
            BY <2>1, <2>2
    <1>3. ASSUME PaymentByTxID
          PROVE  \E fields : /\ DOMAIN fields \subseteq {"settler", "timeline", "payment"}
                             /\ FilledCharge(fields)
        <2>1. CASE FilledCharge(<<>>)
            BY <2>1
        <2>2. ASSUME NEW e, FilledCharge([payment |-> payments[e]])
              PROVE  \E fields : /\ DOMAIN fields \subseteq {"settler", "timeline", "payment"}
                                 /\ FilledCharge(fields)
            <3>1. DOMAIN [payment |-> payments[e]] \subseteq {"settler", "timeline", "payment"}
                OBVIOUS
            <3> QED
                BY <2>2, <3>1
        <2> QED
            BY <1>3, <2>1, <2>2 DEF PaymentByTxID
    <1>4. /\ load.at \in {"settler", "timeline", "payment"}
          /\ UNCHANGED <<storeVars, clock, page>>
        BY DEF TimelineSettler, TimelineEvents, PaymentByTxID
    <1>5. PICK fields : /\ DOMAIN fields \subseteq {"settler", "timeline", "payment"}
                        /\ FilledCharge(fields)
        BY <1>1, <1>2, <1>3
    <1> QED
        BY <1>4, <1>5, ChargeCarried

-----------------------------------------------------------------------------
LEMMA WriteKeeps ==
    ASSUME ConsoleInv, Write
    PROVE  ConsoleInv'
    <1>1. PICK now \in Time : now <= clock /\ Transaction(now)
        BY DEF Write
    <1>2. UNCHANGED <<clock, page, load>>
        BY DEF Write, consoleVars
    <1>3. TableInv'
        BY <1>1, TablesStep DEF ConsoleInv, Next
    <1>4. /\ Grown(charges, charges')
          /\ \A t \in DOMAIN charges' \ DOMAIN charges : charges'[t].createdAt = now
        BY <1>1, ChargesGrow DEF ConsoleInv, TableInv
    <1>5. CreatedPast(charges', clock')
        BY <1>1, <1>2, <1>4 DEF ConsoleInv, CreatedPast, Grown, Snapshot
    <1>6. clock' \in Time /\ clock <= clock'
        BY <1>2, TimeAssumption DEF ConsoleInv
    <1> QED
        BY <1>2, <1>3, <1>4, <1>5, <1>6, WorldMoves

LEMMA TickKeeps ==
    ASSUME ConsoleInv, Tick
    PROVE  ConsoleInv'
    <1>1. clock' = clock + 1 /\ clock' \in Time /\ UNCHANGED <<storeVars, page, load>>
        BY DEF Tick
    <1>2. TableInv' /\ charges' = charges
        BY <1>1, TablesStep DEF ConsoleInv, storeVars
    <1>3. clock \in Nat /\ clock <= clock'
        BY <1>1, TimeAssumption DEF ConsoleInv
    <1>4. \A t \in DOMAIN charges : charges[t].createdAt \in Nat
        BY TimeAssumption DEF ConsoleInv, TableInv, TypeOK, Typed, ChargeRow
    <1>5. CreatedPast(charges', clock')
        BY <1>1, <1>2, <1>3, <1>4 DEF ConsoleInv, CreatedPast
    <1>6. Grown(charges, charges')
        BY <1>2 DEF Grown, Snapshot
    <1> QED
        BY <1>1, <1>2, <1>3, <1>5, <1>6, WorldMoves

LEMMA ConsoleStep ==
    ASSUME ConsoleInv, [ConsoleNext]_watchVars
    PROVE  ConsoleInv'
    <1>1. CASE UNCHANGED watchVars
        <2>1. UNCHANGED <<storeVars, clock, page, load>>
            BY <1>1 DEF watchVars, consoleVars
        <2> QED
            BY <2>1, ViewMoves DEF ConsoleInv
    <1>2. CASE Handler
        BY <1>2, ListKeeps, BuildRowsKeeps, StatsKeeps, GetChargeKeeps, ReadsKeep,
           InferStatusKeeps DEF Handler
    <1>3. CASE Browser
        BY <1>3, OpenLedgerKeeps, PollKeeps, ShowKeeps, FailsKeeps, OpenChargeKeeps DEF Browser
    <1> QED
        BY <1>1, <1>2, <1>3, WriteKeeps, TickKeeps DEF ConsoleNext

LEMMA ConsoleStarts ==
    ASSUME ConsoleInit
    PROVE  ConsoleInv
    <1>1. TableInv /\ DOMAIN charges = {}
        BY InitTables DEF ConsoleInit, Init, Empty
    <1>2. clock \in Time
        BY TxIdAssumption DEF ConsoleInit
    <1>3. page = Blank /\ load = Idle
        BY DEF ConsoleInit
    <1>4. Ahead(page, load, clock)
        BY <1>3 DEF Ahead, Shows, Blank
    <1> QED
        BY <1>1, <1>2, <1>3, <1>4 DEF ConsoleInv, CreatedPast, PageFine, LoadFine

\* What a page shows is never ahead of the store, what a handler holds is never
\* behind the page, and the watermark covers every row a ledger has shown.
THEOREM ConsoleCorrect == ConsoleSpec => []ConsoleInv
    <1>1. ConsoleInit => ConsoleInv
        BY ConsoleStarts
    <1>2. ConsoleInv /\ [ConsoleNext]_watchVars => ConsoleInv'
        BY ConsoleStep
    <1> QED
        BY <1>1, <1>2, PTL DEF ConsoleSpec

\* A row prints itself on at most once, however the watermark and the commits
\* interleave.
THEOREM RowsNewOnce == ConsoleSpec => []FreshIsNew
    <1>1. ConsoleInv => FreshIsNew
        BY DEF ConsoleInv, PageFine, LedgerFine, FreshIsNew, Blank, ErrorPage, NotFoundPage
    <1> QED
        BY <1>1, ConsoleCorrect, PTL

\* From one page to the next a charge never goes back to ATIVA, and a settled one
\* stays settled, whichever reads made the pages.
THEOREM NeverSeenBack == ConsoleSpec => NeverBackToActive
    <1> DEFINE Step == \A old \in Displayed(page), new \in Displayed(page') : old[1] = new[1] =>
                           /\ old[2] # "ATIVA" => new[2] # "ATIVA"
                           /\ old[2] = "CONCLUIDA" => new[2] = "CONCLUIDA"
    <1>1. ASSUME ConsoleInv, [ConsoleNext]_watchVars
          PROVE  [Step]_page
        <2>1. CASE page' = page
            BY <2>1
        <2>2. CASE Show
            <3>1. load.at = "show" /\ page' = load.draft
                BY <2>2 DEF Show
            <3>2. ASSUME NEW t, NEW s, NEW new, Shows(page, t, s), Shows(page', t, new)
                  PROVE  Behind(s, new)
                BY <1>1, <3>1, <3>2 DEF ConsoleInv, Ahead, Shows, CarriesStatus
            <3>3. ASSUME NEW old \in Displayed(page), NEW new \in Displayed(page'),
                         old[1] = new[1]
                  PROVE  Behind(old[2], new[2])
                <4>1. Shows(page, old[1], old[2])
                    BY DisplayedShows
                <4>2. Shows(page', new[1], new[2])
                    BY DisplayedShows
                <4> QED
                    BY <3>2, <3>3, <4>1, <4>2
            <3> QED
                BY <3>3 DEF Behind
        <2>3. CASE page' = ErrorPage
            <3>1. page'.kind # "ledger" /\ page'.kind # "charge"
                BY <2>3 DEF ErrorPage
            <3>2. \A t, s : ~Shows(page', t, s)
                BY <3>1 DEF Shows
            <3>3. \A new \in Displayed(page') : FALSE
                BY <3>2, DisplayedShows
            <3> QED
                BY <3>3
        <2>4. page' = page \/ Show \/ page' = ErrorPage
            BY <1>1 DEF watchVars, consoleVars, ConsoleNext, Handler, Browser, List, BuildRows,
               Stats, GetCharge, TimelineSettler, TimelineEvents, InferStatus, PaymentByTxID,
               OpenLedger, Poll, OpenCharge, Begin, Fails, Write, Tick
        <2> HIDE DEF Step
        <2> QED
            BY <2>1, <2>2, <2>3, <2>4
    <1> QED
        BY <1>1, ConsoleCorrect, PTL DEF ConsoleSpec, NeverBackToActive

-----------------------------------------------------------------------------
(***************************************************************************)
(* What a page is made of, read by read.  The reads of a charge page happen*)
(* at different moments; each part has to be borne out by what a later read*)
(* will find, whatever is written in between: a settled charge by its      *)
(* settler and its events, a timeline by the payment, refund by refund.  And*)
(* the rows a ledger lists never outgrow Limit.                            *)
(***************************************************************************)
Agrees(p) ==
    /\ p.status = "CONCLUIDA" => {"cob.settled", "pix.received"} \subseteq TypesOf(p.timeline)
    /\ "cob.settled" \in TypesOf(p.timeline) => p.payment # NoPayment
    /\ p.payment # NoPayment => p.payment.refunded >= ReturnedIn(p.timeline)

\* Whoever reads the payment of txid now, or later, finds what a timeline told.
Borne(txid, timeline, pa) ==
    LET owed == ReturnedIn(timeline)
        found == {e \in DOMAIN pa : pa[e].txid = txid}
    IN  /\ owed \in Nat
        /\ "cob.settled" \in TypesOf(timeline) => found # {}
        /\ owed = 0 \/ \E e \in found : owed <= pa[e].refunded

SettlementTold(p) ==
    p.charge.status = "CONCLUIDA" => {"cob.settled", "pix.received"} \subseteq TypesOf(p.timeline)

\* The charge page so far, at the step that comes next.
ChargeLoaded(at, p, pa) ==
    /\ ChargePageTyped(p)
    /\ at # "show" => p.payment = NoPayment
    /\ at \in {"stats", "charge", "settler"} => p.settler = NoPayment
    /\ at \in CarriesCharge => p.charge \in ChargeRow
    /\ at = "timeline" =>
          /\ p.charge.status = "CONCLUIDA" => p.settler # NoPayment
          /\ p.settler # NoPayment =>
                \E e \in DOMAIN pa : pa[e].txid = p.txid /\ p.settler = <<e>>
    /\ at \in {"status", "payment"} => Borne(p.txid, p.timeline, pa) /\ SettlementTold(p)
    /\ at \in CarriesStatus =>
          /\ p.status # "none"
          /\ p.status = "CONCLUIDA" => p.charge.status = "CONCLUIDA"
    /\ at = "show" => Agrees(p)

LedgerLoaded(at, p) ==
    /\ LedgerTyped(p)
    /\ at = "rows" => IsFiniteSet(DOMAIN p.list) /\ Cardinality(DOMAIN p.list) <= Limit

\* What the browser shows, and what the handler holds.
PageRight(p) ==
    /\ p.kind = "ledger" => LedgerTyped(p)
    /\ p.kind = "charge" =>
          ChargePageTyped(p) /\ Agrees(p) /\ p.status # "none" /\ p.charge # NoCharge

LoadRight(l, pa) ==
    /\ l.draft.kind = "ledger" => LedgerLoaded(l.at, l.draft)
    /\ l.draft.kind = "charge" => ChargeLoaded(l.at, l.draft, pa)

PagesInv ==
    /\ LogCounts(payments, events)
    /\ IsFiniteSet(DOMAIN charges)
    /\ PageRight(page)
    /\ LoadRight(load, payments)

-----------------------------------------------------------------------------
(***************************************************************************)
(* The rows listed.                                                        *)
(***************************************************************************)
LEMMA NewerOrders ==
    ASSUME TypeOK
    PROVE  \A t, u, v \in DOMAIN charges :
              /\ ~Newer(t, t)
              /\ Newer(t, u) /\ Newer(u, v) => Newer(t, v)
              /\ t = u \/ Newer(t, u) \/ Newer(u, t)
    <1>1. \A t \in DOMAIN charges : t \in Nat /\ charges[t].createdAt \in Nat
        BY TxIdAssumption, TimeAssumption DEF TypeOK, Typed, ChargeRow
    <1> QED
        BY <1>1 DEF Newer

\* Of the rows listed, the oldest has the others newer than it, and fewer than Limit.
LEMMA ListedFits ==
    ASSUME TypeOK, IsFiniteSet(DOMAIN charges)
    PROVE  IsFiniteSet(Listed) /\ Cardinality(Listed) <= Limit
    <1> DEFINE Above(t) == {u \in DOMAIN charges : Newer(u, t)}
    <1>1. IsFiniteSet(Listed) /\ Listed \subseteq DOMAIN charges
        BY FS_Subset DEF Listed
    <1>2. \A t : IsFiniteSet(Above(t)) /\ Cardinality(Above(t)) \in Nat
        BY FS_Subset, FS_CardinalityType
    <1>3. \A t \in Listed : Cardinality(Above(t)) < Limit
        BY DEF Listed
    <1>4. CASE Listed = {}
        BY <1>1, <1>4, FS_EmptySet, LimitAssumption
    <1>5. CASE Listed # {}
        <2> DEFINE sizes == {Cardinality(Above(t)) : t \in Listed}
        <2>1. PICK m \in Listed : \A t \in Listed : Cardinality(Above(t)) <= Cardinality(Above(m))
            <3>1. sizes \subseteq Int /\ sizes # {} /\ \A x \in sizes : x <= Limit
                <4> HIDE DEF Above
                <4> QED
                    BY <1>2, <1>3, <1>5, LimitAssumption
            <3>2. \A t \in Listed : Cardinality(Above(t)) \in sizes
                OBVIOUS
            <3>3. \A x \in sizes : \E t \in Listed : x = Cardinality(Above(t))
                OBVIOUS
            <3> HIDE DEF Above, sizes
            <3>4. Limit \in Int
                BY LimitAssumption
            <3>5. Max(sizes) \in sizes /\ \A x \in sizes : x <= Max(sizes)
                BY <3>1, <3>4, MaxIs
            <3> QED
                BY <3>2, <3>3, <3>5
        <2>2. ASSUME NEW u \in Listed, u # m, Newer(m, u)
              PROVE  FALSE
            <3>1. Above(m) \cup {m} \subseteq Above(u) /\ m \notin Above(m)
                BY <1>1, <2>2, NewerOrders
            <3> HIDE DEF Above
            <3>2. Cardinality(Above(m) \cup {m}) = Cardinality(Above(m)) + 1
                BY <1>2, <3>1, FS_AddElement
            <3>3. Cardinality(Above(m) \cup {m}) <= Cardinality(Above(u))
                BY <1>2, <3>1, FS_Subset
            <3> QED
                BY <1>2, <2>1, <3>2, <3>3
        <2>3. Listed \ {m} \subseteq Above(m)
            BY <1>1, <2>2, NewerOrders
        <2> HIDE DEF Above
        <2>4. Cardinality(Listed \ {m}) <= Cardinality(Above(m))
            BY <1>2, <2>3, FS_Subset
        <2>5. Cardinality(Listed \ {m}) = Cardinality(Listed) - 1
            BY <1>1, FS_RemoveElement
        <2>6. Cardinality(Listed) \in Nat
            BY <1>1, FS_CardinalityType
        <2> QED
            BY <1>1, <1>2, <1>3, <2>4, <2>5, <2>6, LimitAssumption
    <1> QED
        BY <1>4, <1>5

\* No transaction stores more than one charge.
LEMMA FiniteStep ==
    ASSUME IsFiniteSet(DOMAIN charges), [Next]_storeVars
    PROVE  IsFiniteSet(DOMAIN charges')
    <1>1. DOMAIN charges' = DOMAIN charges \/ \E t : DOMAIN charges' = DOMAIN charges \cup {t}
        <2>1. CASE UNCHANGED storeVars
            BY <2>1 DEF storeVars
        <2>2. ASSUME NEW txid, NEW cents, NEW chave, NEW window, NEW now,
                     CreateCharge(txid, cents, chave, window, now)
              PROVE  DOMAIN charges' = DOMAIN charges \cup {txid}
            BY <2>2 DEF CreateCharge, Insert
        <2>3. ASSUME NEW txid, NEW now, ExpireCharge(txid, now)
              PROVE  DOMAIN charges' = DOMAIN charges
            BY <2>3 DEF ExpireCharge
        <2>4. ASSUME NEW txid, NEW now, NEW rnd, SettleCharge(txid, now, rnd)
              PROVE  DOMAIN charges' = DOMAIN charges
            BY <2>4 DEF SettleCharge
        <2>5. ASSUME NEW e2e, NEW id, NEW cents, NEW now, NEW rnd,
                     CreateRefund(e2e, id, cents, now, rnd)
              PROVE  charges' = charges
            BY <2>5 DEF CreateRefund
        <2>6. ASSUME NEW chave, NEW url, NEW now, PutWebhook(chave, url, now)
              PROVE  charges' = charges
            BY <2>6 DEF PutWebhook
        <2>7. ASSUME NEW now, AppendNote(now)
              PROVE  charges' = charges
            BY <2>7 DEF AppendNote, AppendEvent, tables
        <2> QED
            BY <2>1, <2>2, <2>3, <2>4, <2>5, <2>6, <2>7 DEF Next, Transaction
    <1> QED
        BY <1>1, FS_AddElement

-----------------------------------------------------------------------------
(***************************************************************************)
(* The browser and the ledger, over a store that stays.                    *)
(***************************************************************************)
LEMMA PagesStay ==
    ASSUME PagesInv, UNCHANGED storeVars, PageRight(page'), LoadRight(load', payments)
    PROVE  PagesInv'
    BY DEF PagesInv, storeVars

\* A fragment nobody filled in yet.
LEMMA NoRows ==
    ASSUME NEW p, p.rows = {}
    PROVE  Cardinality(p.rows) <= Limit
    BY FS_EmptySet, LimitAssumption

\* What the browser asks for starts empty, and what it shows was ready or is an error.
LEMMA BrowserPages ==
    ASSUME ConsoleInv, PagesInv, Browser
    PROVE  PagesInv'
    <1>1. ASSUME NEW polled \in BOOLEAN, NEW since \in Time \cup {NoStamp},
                 NEW before \in SUBSET TxId, Begin("list", EmptyLedger(polled, since, before))
          PROVE  PagesInv'
        <2> DEFINE d == EmptyLedger(polled, since, before)
        <2>1. load'.at = "list" /\ load'.draft = d /\ UNCHANGED <<storeVars, page>>
            BY <1>1 DEF Begin
        <2>2. /\ d.kind = "ledger" /\ d.polled = polled /\ d.since = since /\ d.before = before
              /\ d.list = <<>> /\ d.rows = {}
            BY DEF EmptyLedger, NoCharge
        <2> HIDE DEF d
        <2>3. Typed(d.list, TxId, ChargeRow)
            BY <2>2 DEF Typed
        <2>4. LedgerTyped(d)
            BY <2>2, <2>3, NoRows DEF LedgerTyped
        <2>5. LoadRight(load', payments)
            BY <2>1, <2>2, <2>4 DEF LoadRight, LedgerLoaded
        <2> QED
            BY <2>1, <2>5, PagesStay DEF PagesInv
    <1>2. CASE OpenLedger
        <2>1. NoStamp \in Time \cup {NoStamp} /\ {} \in SUBSET TxId
            OBVIOUS
        <2> QED
            BY <1>1, <1>2, <2>1 DEF OpenLedger
    <1>3. CASE Poll
        <2>1. LedgerTyped(page)
            BY <1>3 DEF PagesInv, PageRight, Poll
        <2>2. page.before \cup TxIdsOf(page.rows) \in SUBSET TxId
            BY <2>1 DEF LedgerTyped, TxIdsOf, Row
        <2>3. page.since \in Time \cup {NoStamp}
            BY <2>1 DEF LedgerTyped
        <2> QED
            BY <1>1, <1>3, <2>2, <2>3 DEF Poll
    <1>4. ASSUME NEW t \in Watched, OpenCharge(t)
          PROVE  PagesInv'
        <2> DEFINE d == EmptyChargePage(t)
        <2>1. load'.at = "stats" /\ load'.draft = d /\ UNCHANGED <<storeVars, page>>
            BY <1>4 DEF OpenCharge, Begin
        <2>2. /\ d.kind = "charge" /\ d.txid = t /\ d.charge = NoCharge /\ d.settler = NoPayment
              /\ d.timeline = Empty /\ d.status = "none" /\ d.payment = NoPayment
            BY DEF EmptyChargePage
        <2> HIDE DEF d
        <2>3. Typed(Empty, Nat, Event) /\ NoPayment \in Seq(E2EId) /\ t \in TxId
            BY LimitAssumption DEF Typed, Empty, NoPayment
        <2>4. ChargePageTyped(d)
            BY <2>2, <2>3 DEF ChargePageTyped
        <2>5. LoadRight(load', payments)
            BY <2>1, <2>2, <2>4 DEF LoadRight, ChargeLoaded, CarriesCharge, CarriesStatus
        <2> QED
            BY <2>1, <2>5, PagesStay DEF PagesInv
    <1>5. PageRight(ErrorPage) /\ LoadRight(Idle, payments)
        BY DEF PageRight, LoadRight, ErrorPage, Idle, Blank
    <1>6. CASE Show
        <2>1. load.at = "show" /\ page' = load.draft /\ load' = Idle /\ UNCHANGED storeVars
            BY <1>6 DEF Show
        <2>2. PageRight(page')
            <3>1. CASE load.draft.kind = "ledger"
                BY <2>1, <3>1 DEF PagesInv, LoadRight, LedgerLoaded, PageRight
            <3>2. CASE load.draft.kind = "charge"
                <4>1. ChargeLoaded("show", load.draft, payments)
                    BY <2>1, <3>2 DEF PagesInv, LoadRight
                <4>2. load.draft.charge # NoCharge
                    BY <4>1 DEF ChargeLoaded, CarriesCharge, ChargeRow, NoCharge
                <4> QED
                    BY <2>1, <3>2, <4>1, <4>2 DEF ChargeLoaded, CarriesStatus, PageRight
            <3> QED
                BY <2>1, <3>1, <3>2 DEF PageRight
        <2> QED
            BY <1>5, <2>1, <2>2, PagesStay
    <1>7. CASE Fails
        <2>1. page' \in {page, ErrorPage} /\ load' = Idle /\ UNCHANGED storeVars
            BY <1>7 DEF Fails
        <2> QED
            BY <1>5, <2>1, PagesStay DEF PagesInv
    <1> QED
        BY <1>2, <1>3, <1>4, <1>6, <1>7 DEF Browser

\* A fragment has no more rows than the list it is built from.
LEMMA FewRows ==
    ASSUME NEW list, IsFiniteSet(DOMAIN list), Cardinality(DOMAIN list) <= Limit,
           NEW rows, NEW made \in Surjection(DOMAIN list, rows)
    PROVE  Cardinality(rows) <= Limit
    <1>1. IsFiniteSet(rows) /\ Cardinality(rows) <= Cardinality(DOMAIN list)
        BY FS_Surjection
    <1>2. Cardinality(rows) \in Nat /\ Cardinality(DOMAIN list) \in Nat
        BY <1>1, FS_CardinalityType
    <1> QED
        BY <1>1, <1>2, LimitAssumption

\* The rows are read: stored rows, no more than Limit.
LEMMA ListPages ==
    ASSUME ConsoleInv, PagesInv, List
    PROVE  PagesInv'
    <1> DEFINE read == [t \in Listed |-> charges[t]]
               fields == [list |-> read]
               d == load'.draft
    <1>1. load.at = "list" /\ Filled("rows", fields) /\ UNCHANGED <<storeVars, page>>
        BY DEF List
    <1>2. load.draft.kind = "ledger"
        BY <1>1, KindOfLoad
    <1>3. DOMAIN load.draft = LedgerFields /\ LedgerTyped(load.draft)
        BY <1>2, LedgerLoad DEF LedgerFine, PagesInv, LoadRight, LedgerLoaded
    <1>4. DOMAIN fields = {"list"} /\ fields["list"] = read
        OBVIOUS
    <1>5. /\ Typed(read, TxId, ChargeRow)
          /\ IsFiniteSet(DOMAIN read) /\ Cardinality(DOMAIN read) <= Limit
        <2>1. TypeOK /\ Listed \subseteq DOMAIN charges
            BY DEF ConsoleInv, TableInv, Listed
        <2>2. IsFiniteSet(Listed) /\ Cardinality(Listed) <= Limit
            BY <2>1, ListedFits DEF PagesInv
        <2> QED
            BY <2>1, <2>2 DEF TypeOK, Typed
    <1> HIDE DEF read, fields
    <1>6. /\ load'.at = "rows"
          /\ \A f \in LedgerFields :
                load'.draft[f] = IF f \in DOMAIN fields THEN fields[f] ELSE load.draft[f]
        BY <1>1, <1>3, FilledIs
    <1> HIDE DEF d
    <1>7. /\ d.kind = "ledger" /\ d.polled = load.draft.polled /\ d.since = load.draft.since
          /\ d.before = load.draft.before /\ d.rows = load.draft.rows /\ d.list = read
        BY <1>2, <1>4, <1>6 DEF LedgerFields, d
    <1>8. LoadRight(load', payments)
        BY <1>3, <1>5, <1>6, <1>7 DEF LoadRight, LedgerLoaded, LedgerTyped, d
    <1> QED
        BY <1>1, <1>8, PagesStay DEF PagesInv

\* They are printed: a status and a mark each, under a watermark that some row carries.
LEMMA BuildRowsPages ==
    ASSUME ConsoleInv, PagesInv, BuildRows
    PROVE  PagesInv'
    <1> DEFINE list == load.draft.list
               since == load.draft.since
               stamps == {since} \cup {list[t].createdAt : t \in DOMAIN list}
               row(t) == [txid |-> t, status |-> EffectiveStatus(list[t], clock),
                          fresh |-> Fresh(list[t].createdAt, since)]
               rows == {row(t) : t \in DOMAIN list}
               fields == [list |-> NoCharge, rows |-> rows, since |-> Max(stamps)]
               next == IF IsPoll THEN "show" ELSE "stats"
               d == load'.draft
    <1>1. load.at = "rows" /\ Filled(next, fields) /\ UNCHANGED <<storeVars, page>>
        BY DEF BuildRows
    <1>2. load.draft.kind = "ledger"
        BY <1>1, KindOfLoad
    <1>3. DOMAIN load.draft = LedgerFields /\ LedgerLoaded("rows", load.draft) /\ since <= clock
        BY <1>1, <1>2, LedgerLoad DEF LedgerFine, PagesInv, LoadRight
    <1>4. /\ DOMAIN list \subseteq TxId /\ IsFiniteSet(DOMAIN list)
          /\ Cardinality(DOMAIN list) <= Limit
          /\ \A t \in DOMAIN list : list[t] \in ChargeRow
          /\ since \in Time \cup {NoStamp}
        BY <1>3 DEF LedgerLoaded, LedgerTyped, Typed
    <1>5. \A t \in DOMAIN list : row(t) \in Row
        <2>1. \A t \in DOMAIN list : EffectiveStatus(list[t], clock) \in ChargeStatus
            BY <1>4 DEF EffectiveStatus, ChargeRow, ChargeStatus
        <2>2. \A t : Fresh(list[t].createdAt, since) \in BOOLEAN
            BY DEF Fresh
        <2> QED
            BY <1>4, <2>1, <2>2 DEF Row
    <1>6. Cardinality(rows) <= Limit
        <2> DEFINE made == [t \in DOMAIN list |-> row(t)]
        <2>1. made \in Surjection(DOMAIN list, rows)
            <3> HIDE DEF row, list
            <3> QED
                BY DEF Surjection
        <2> HIDE DEF made, rows, list
        <2> QED
            BY <1>4, <2>1, FewRows
    <1>7. Max(stamps) \in Time \cup {NoStamp}
        <2>1. \A t \in DOMAIN list : list[t].createdAt \in Time
            BY <1>4 DEF ChargeRow
        <2>2. stamps \subseteq Time \cup {NoStamp} /\ stamps # {}
            BY <1>4, <2>1
        <2>3. Time \cup {NoStamp} \subseteq Int /\ clock \in Int
            BY TimeAssumption DEF NoStamp, ConsoleInv
        <2>4. \A x \in stamps : x <= clock
            <3>1. \A t \in DOMAIN list : list[t].createdAt <= clock
                <4>1. \A t \in DOMAIN list : Snapshot(list[t], t, charges)
                    BY <1>2, LedgerLoad DEF LedgerFine
                <4> QED
                    BY <4>1 DEF Snapshot, ConsoleInv, CreatedPast
            <3> QED
                BY <1>3, <3>1
        <2> HIDE DEF stamps
        <2>5. stamps \subseteq Int
            BY <2>2, <2>3
        <2>6. Max(stamps) \in stamps
            BY <2>2, <2>3, <2>4, <2>5, MaxIs
        <2> QED
            BY <2>2, <2>6
    <1>8. /\ DOMAIN fields = {"list", "rows", "since"} /\ fields["list"] = <<>>
          /\ fields["rows"] = rows /\ fields["since"] = Max(stamps)
        BY DEF NoCharge
    <1>9. next \in {"stats", "show"}
        OBVIOUS
    <1>10. rows \subseteq Row
        <2> HIDE DEF row
        <2> QED
            BY <1>5
    <1> HIDE DEF rows, stamps, fields, next
    <1>11. /\ load'.at = next
           /\ \A f \in LedgerFields :
                 load'.draft[f] = IF f \in DOMAIN fields THEN fields[f] ELSE load.draft[f]
        BY <1>1, <1>3, FilledIs
    <1> HIDE DEF d
    <1>12. /\ d.kind = "ledger" /\ d.polled = load.draft.polled /\ d.since = Max(stamps)
           /\ d.before = load.draft.before /\ d.rows = rows /\ d.list = <<>>
        BY <1>2, <1>8, <1>11 DEF LedgerFields, d
    <1>13. Typed(d.list, TxId, ChargeRow)
        BY <1>12 DEF Typed
    <1>14. LedgerTyped(d)
        BY <1>3, <1>6, <1>7, <1>10, <1>12, <1>13 DEF LedgerLoaded, LedgerTyped
    <1>15. LoadRight(load', payments)
        BY <1>9, <1>11, <1>12, <1>14 DEF LoadRight, LedgerLoaded, d
    <1> QED
        BY <1>1, <1>15, PagesStay DEF PagesInv

-----------------------------------------------------------------------------
(***************************************************************************)
(* The reads of a charge page.                                             *)
(***************************************************************************)
\* The page of a charge after the handler's next step.
LEMMA ChargeFilledIs ==
    ASSUME ConsoleInv, load.draft.kind = "charge", NEW next, NEW fields, Filled(next, fields)
    PROVE  /\ load'.at = next
           /\ \A f \in ChargeFields :
                 load'.draft[f] = IF f \in DOMAIN fields THEN fields[f] ELSE load.draft[f]
    <1>1. DOMAIN load.draft = ChargeFields
        BY ChargeLoad
    <1> QED
        BY <1>1, FilledIs

\* The margin is read: the page stays as it was.
LEMMA StatsPages ==
    ASSUME ConsoleInv, PagesInv, Stats
    PROVE  PagesInv'
    <1>1. load.at = "stats" /\ UNCHANGED <<storeVars, page>>
        BY DEF Stats
    <1>2. CASE load.draft.kind = "ledger"
        <2>1. Filled("show", <<>>)
            BY <1>2 DEF Stats
        <2>2. DOMAIN load.draft = LedgerFields /\ DOMAIN <<>> = {}
            BY <1>2, LedgerLoad DEF LedgerFine
        <2>3. load'.at = "show" /\ \A f \in LedgerFields : load'.draft[f] = load.draft[f]
            BY <2>1, <2>2, FilledIs
        <2>4. /\ load'.draft.kind = "ledger" /\ load'.draft.polled = load.draft.polled
              /\ load'.draft.since = load.draft.since /\ load'.draft.before = load.draft.before
              /\ load'.draft.rows = load.draft.rows /\ load'.draft.list = load.draft.list
            BY <1>2, <2>3 DEF LedgerFields
        <2>5. LedgerTyped(load.draft)
            BY <1>2 DEF PagesInv, LoadRight, LedgerLoaded
        <2>6. LedgerTyped(load'.draft)
            BY <2>4, <2>5 DEF LedgerTyped
        <2>7. LoadRight(load', payments)
            BY <2>3, <2>4, <2>6 DEF LoadRight, LedgerLoaded
        <2> QED
            BY <1>1, <2>7, PagesStay DEF PagesInv
    <1>3. CASE load.draft.kind = "charge"
        <2>1. Filled("charge", <<>>)
            BY <1>1, <1>3 DEF Stats, FilledCharge, ChargeSteps
        <2>2. DOMAIN <<>> = {}
            OBVIOUS
        <2>3. load'.at = "charge" /\ \A f \in ChargeFields : load'.draft[f] = load.draft[f]
            BY <1>3, <2>1, <2>2, ChargeFilledIs
        <2>4. /\ load'.draft.kind = "charge" /\ load'.draft.txid = load.draft.txid
              /\ load'.draft.charge = load.draft.charge /\ load'.draft.status = load.draft.status
              /\ load'.draft.settler = load.draft.settler
              /\ load'.draft.timeline = load.draft.timeline
              /\ load'.draft.payment = load.draft.payment
            BY <1>3, <2>3 DEF ChargeFields
        <2>5. ChargeLoaded("stats", load.draft, payments)
            BY <1>1, <1>3 DEF PagesInv, LoadRight
        <2>6. ChargeLoaded("charge", load'.draft, payments)
            BY <2>4, <2>5 DEF ChargeLoaded, ChargePageTyped, CarriesCharge, CarriesStatus
        <2>7. LoadRight(load', payments)
            BY <2>3, <2>4, <2>6 DEF LoadRight
        <2> QED
            BY <1>1, <2>7, PagesStay DEF PagesInv
    <1> QED
        BY <1>1, <1>2, <1>3, KindOfLoad

\* The charge is read, or there is none to show.
LEMMA GetChargePages ==
    ASSUME ConsoleInv, PagesInv, GetCharge
    PROVE  PagesInv'
    <1> DEFINE txid == load.draft.txid
               fields == [charge |-> charges[txid]]
               d == load'.draft
    <1>1. load.at = "charge" /\ UNCHANGED <<storeVars, page>>
        BY DEF GetCharge
    <1>2. load.draft.kind = "charge" /\ ChargeLoaded("charge", load.draft, payments)
        BY <1>1, KindOfLoad DEF PagesInv, LoadRight
    <1>3. CASE txid \notin DOMAIN charges
        <2>1. load'.draft = NotFoundPage
            BY <1>3 DEF GetCharge
        <2>2. LoadRight(load', payments)
            BY <2>1 DEF LoadRight, NotFoundPage
        <2> QED
            BY <1>1, <2>2, PagesStay DEF PagesInv
    <1>4. CASE txid \in DOMAIN charges
        <2>1. Filled("settler", fields)
            BY <1>1, <1>4 DEF GetCharge, FilledCharge, ChargeSteps
        <2>2. DOMAIN fields = {"charge"} /\ fields["charge"] = charges[txid]
            OBVIOUS
        <2>3. charges[txid] \in ChargeRow
            BY <1>4 DEF ConsoleInv, TableInv, TypeOK, Typed
        <2> HIDE DEF fields
        <2>4. /\ load'.at = "settler"
              /\ \A f \in ChargeFields :
                    load'.draft[f] = IF f \in DOMAIN fields THEN fields[f] ELSE load.draft[f]
            BY <1>2, <2>1, ChargeFilledIs
        <2> HIDE DEF d
        <2>5. /\ d.kind = "charge" /\ d.txid = txid /\ d.charge = charges[txid]
              /\ d.status = load.draft.status /\ d.settler = load.draft.settler
              /\ d.timeline = load.draft.timeline /\ d.payment = load.draft.payment
            BY <1>2, <2>2, <2>4 DEF ChargeFields, d
        <2>6. ChargeLoaded("settler", d, payments)
            BY <1>2, <2>3, <2>5 DEF ChargeLoaded, ChargePageTyped, CarriesStatus
        <2>7. LoadRight(load', payments)
            BY <2>4, <2>5, <2>6 DEF LoadRight, d
        <2> QED
            BY <1>1, <2>7, PagesStay DEF PagesInv
    <1> QED
        BY <1>3, <1>4

\* A settled charge has its settler by then: the row was read earlier.
LEMMA SettlerPages ==
    ASSUME ConsoleInv, PagesInv, TimelineSettler
    PROVE  PagesInv'
    <1> DEFINE d == load'.draft
    <1>1. load.at = "settler" /\ UNCHANGED <<storeVars, page>>
        BY DEF TimelineSettler
    <1>2. load.draft.kind = "charge" /\ ChargeLoaded("settler", load.draft, payments)
        BY <1>1, KindOfLoad DEF PagesInv, LoadRight, CarriesCharge
    <1>3. Snapshot(load.draft.charge, load.draft.txid, charges)
        BY <1>1, <1>2, ChargeLoad DEF CarriesCharge
    <1>4. load.draft.charge.status = "CONCLUIDA" => SettlerOf(load.draft.txid) # {}
        BY <1>3 DEF Snapshot, ConsoleInv, TableInv, SettledOnce, SettlerOf
    <1>5. PICK settler :
             /\ \/ SettlerOf(load.draft.txid) = {} /\ settler = NoPayment
                \/ \E e \in SettlerOf(load.draft.txid) : settler = <<e>>
             /\ load'.at = "timeline"
             /\ \A f \in ChargeFields :
                   load'.draft[f] = IF f = "settler" THEN settler ELSE load.draft[f]
        <2>1. ASSUME FilledCharge(<<>>)
              PROVE  /\ load'.at = "timeline"
                     /\ \A f \in ChargeFields :
                           load'.draft[f] = IF f = "settler" THEN NoPayment ELSE load.draft[f]
            <3>1. Filled("timeline", <<>>) /\ DOMAIN <<>> = {}
                BY <1>1, <2>1 DEF FilledCharge, ChargeSteps
            <3>2. load'.at = "timeline" /\ \A f \in ChargeFields : load'.draft[f] = load.draft[f]
                BY <1>2, <3>1, ChargeFilledIs
            <3>3. load.draft["settler"] = NoPayment
                BY <1>2 DEF ChargeLoaded
            <3> QED
                BY <3>2, <3>3
        <2>2. ASSUME NEW e \in SettlerOf(load.draft.txid), FilledCharge([settler |-> <<e>>])
              PROVE  /\ load'.at = "timeline"
                     /\ \A f \in ChargeFields :
                           load'.draft[f] = IF f = "settler" THEN <<e>> ELSE load.draft[f]
            <3> DEFINE fields == [settler |-> <<e>>]
            <3>1. Filled("timeline", fields)
                BY <1>1, <2>2 DEF FilledCharge, ChargeSteps
            <3>2. DOMAIN fields = {"settler"} /\ fields["settler"] = <<e>>
                OBVIOUS
            <3> HIDE DEF fields
            <3> QED
                BY <1>2, <3>1, <3>2, ChargeFilledIs
        <2>3. CASE SettlerOf(load.draft.txid) = {} /\ FilledCharge(<<>>)
            <3> WITNESS NoPayment
            <3> QED
                BY <2>1, <2>3
        <2>4. ASSUME NEW e \in SettlerOf(load.draft.txid), FilledCharge([settler |-> <<e>>])
              PROVE  \E settler :
                        /\ \/ SettlerOf(load.draft.txid) = {} /\ settler = NoPayment
                           \/ \E g \in SettlerOf(load.draft.txid) : settler = <<g>>
                        /\ load'.at = "timeline"
                        /\ \A f \in ChargeFields :
                              load'.draft[f] = IF f = "settler" THEN settler ELSE load.draft[f]
            <3> WITNESS <<e>>
            <3> QED
                BY <2>2, <2>4
        <2> QED
            BY <2>3, <2>4 DEF TimelineSettler
    <1> HIDE DEF d
    <1>6. /\ d.kind = "charge" /\ d.txid = load.draft.txid /\ d.charge = load.draft.charge
          /\ d.status = load.draft.status /\ d.settler = settler
          /\ d.timeline = load.draft.timeline /\ d.payment = load.draft.payment
        BY <1>2, <1>5 DEF ChargeFields, d
    <1>7. settler \in Seq(E2EId)
        <2>1. SettlerOf(load.draft.txid) \subseteq E2EId
            BY DEF SettlerOf, ConsoleInv, TableInv, TypeOK, Typed
        <2>2. <<>> \in Seq(E2EId) /\ \A e \in E2EId : <<e>> \in Seq(E2EId)
            OBVIOUS
        <2> QED
            BY <1>5, <2>1, <2>2 DEF NoPayment
    <1>8. d.settler # NoPayment <=> SettlerOf(d.txid) # {}
        <2>1. \A e : <<e>> # <<>>
            OBVIOUS
        <2> QED
            BY <1>5, <1>6, <2>1 DEF NoPayment
    <1>9. d.settler # NoPayment =>
             \E e \in DOMAIN payments : payments[e].txid = d.txid /\ d.settler = <<e>>
        BY <1>5, <1>6 DEF SettlerOf
    <1>10. ChargeLoaded("timeline", d, payments)
        BY <1>2, <1>4, <1>6, <1>7, <1>8, <1>9
           DEF ChargeLoaded, ChargePageTyped, CarriesCharge, CarriesStatus
    <1>11. LoadRight(load', payments)
        BY <1>5, <1>6, <1>10 DEF LoadRight, d
    <1> QED
        BY <1>1, <1>11, PagesStay DEF PagesInv

\* The status is inferred: CONCLUIDA only of a charge read as settled.
LEMMA InferStatusPages ==
    ASSUME ConsoleInv, PagesInv, InferStatus
    PROVE  PagesInv'
    <1> DEFINE status == EffectiveStatus(load.draft.charge, clock)
               fields == [status |-> status]
               d == load'.draft
    <1>1. load.at = "status" /\ UNCHANGED <<storeVars, page>>
        BY DEF InferStatus
    <1>2. load.draft.kind = "charge" /\ ChargeLoaded("status", load.draft, payments)
        BY <1>1, KindOfLoad DEF PagesInv, LoadRight, CarriesCharge
    <1>3. Filled("payment", fields)
        BY <1>1 DEF InferStatus, FilledCharge, ChargeSteps
    <1>4. DOMAIN fields = {"status"} /\ fields["status"] = status
        OBVIOUS
    <1>5. /\ status \in ChargeStatus /\ status # "none"
          /\ status = "CONCLUIDA" => load.draft.charge.status = "CONCLUIDA"
        <2>1. load.draft.charge.status \in ChargeStatus
            BY <1>2 DEF ChargeLoaded, CarriesCharge, ChargeRow
        <2> QED
            BY <2>1 DEF EffectiveStatus, ChargeStatus
    <1> HIDE DEF fields, status
    <1>6. /\ load'.at = "payment"
          /\ \A f \in ChargeFields :
                load'.draft[f] = IF f \in DOMAIN fields THEN fields[f] ELSE load.draft[f]
        BY <1>2, <1>3, ChargeFilledIs
    <1> HIDE DEF d
    <1>7. /\ d.kind = "charge" /\ d.txid = load.draft.txid /\ d.charge = load.draft.charge
          /\ d.status = status /\ d.settler = load.draft.settler
          /\ d.timeline = load.draft.timeline /\ d.payment = load.draft.payment
        BY <1>2, <1>4, <1>6 DEF ChargeFields, d
    <1>8. ChargeLoaded("payment", d, payments)
        BY <1>2, <1>5, <1>7
           DEF ChargeLoaded, ChargePageTyped, SettlementTold, CarriesCharge, CarriesStatus
    <1>9. LoadRight(load', payments)
        BY <1>6, <1>7, <1>8 DEF LoadRight, d
    <1> QED
        BY <1>1, <1>9, PagesStay DEF PagesInv

\* The events about a charge and about its payment, if it has one.
ToldOf(txid, settler) ==
    LET aggregates == {ChargeAggregate(txid)} \cup {PaymentAggregate(e) : e \in Range(settler)}
    IN  {i \in DOMAIN events : events[i].agg \in aggregates}

\* Which events a timeline has, by whether its charge had a settler.
LEMMA ToldAggregates ==
    ASSUME NEW txid, NEW i \in DOMAIN events
    PROVE  /\ i \in ToldOf(txid, <<>>) <=> events[i].agg = ChargeAggregate(txid)
           /\ \A e : i \in ToldOf(txid, <<e>>) <=>
                 events[i].agg \in {ChargeAggregate(txid), PaymentAggregate(e)}
    <1>1. Range(<<>>) = {} /\ \A e : Range(<<e>>) = {e}
        BY DEF Range
    <1> QED
        BY <1>1 DEF ToldOf

\* The events of a charge alone tell of no refund, and of a settlement only when
\* there is a payment by now.
LEMMA ChargeIsTold ==
    ASSUME StoreLogInv, NEW txid \in TxId, NEW tl,
           tl = [i \in ToldOf(txid, <<>>) |-> events[i]]
    PROVE  Borne(txid, tl, payments)
    <1>1. \A i \in DOMAIN tl : /\ i \in DOMAIN events /\ tl[i] = events[i]
                               /\ tl[i].agg = ChargeAggregate(txid) /\ tl[i].agg[1] = "cob"
        <2>1. ToldOf(txid, <<>>) \subseteq DOMAIN events /\ ChargeAggregate(txid)[1] = "cob"
            BY DEF ToldOf, ChargeAggregate
        <2> QED
            BY <2>1, ToldAggregates
    <1>2. \A i \in DOMAIN tl : tl[i].type \in CobTypes
        BY <1>1 DEF StoreLogInv, OwnersStored
    <1>3. SettledReturns(tl) = {}
        BY <1>2 DEF SettledReturns, CobTypes
    <1>4. ReturnedIn(tl) = 0
        <2>1. ReturnedIn(tl) = Cents(Bodies(tl), {})
            BY <1>3 DEF ReturnedIn, Cents
        <2> QED
            BY <2>1, CentsOfNone
    <1>5. ASSUME "cob.settled" \in TypesOf(tl)
          PROVE  \E e \in DOMAIN payments : payments[e].txid = txid
        <2>1. Has(events, ChargeAggregate(txid), "cob.settled")
            BY <1>1, <1>5 DEF Has, TypesOf
        <2>2. Stored(txid, "CONCLUIDA")
            BY <2>1 DEF StoreLogInv, LogAgrees
        <2> QED
            BY <2>2 DEF Stored, StoreLogInv, TableInv, SettledOnce
    <1> QED
        BY <1>4, <1>5 DEF Borne

\* With one, both events of the settlement and every refund of it so far.
LEMMA SettlementIsTold ==
    ASSUME StoreLogInv, LogCounts(payments, events), NEW e \in DOMAIN payments, NEW txid,
           payments[e].txid = txid, NEW tl, tl = [i \in ToldOf(txid, <<e>>) |-> events[i]]
    PROVE  /\ Borne(txid, tl, payments)
           /\ {"cob.settled", "pix.received"} \subseteq TypesOf(tl)
    <1>1. /\ DOMAIN tl \subseteq DOMAIN events /\ \A i \in DOMAIN tl : tl[i] = events[i]
          /\ \A i \in DOMAIN events :
                i \in DOMAIN tl <=> events[i].agg \in {ChargeAggregate(txid), PaymentAggregate(e)}
        BY ToldAggregates DEF ToldOf
    <1>2. txid \in TxId /\ Stored(txid, "CONCLUIDA")
        BY DEF StoreLogInv, TableInv, TypeOK, Typed, SettledOnce, Stored, PaymentRow
    <1>3. /\ Has(events, ChargeAggregate(txid), "cob.settled")
          /\ Has(events, PaymentAggregate(e), "pix.received")
        BY <1>2 DEF StoreLogInv, LogAgrees, ReceiptsLogged
    <1>4. {"cob.settled", "pix.received"} \subseteq TypesOf(tl)
        BY <1>1, <1>3 DEF Has, TypesOf
    <1>5. events \in Seq(Event) /\ \A i \in DOMAIN events : Worded(events[i])
        BY DEF StoreLogInv, TableInv, TypeOK, LogCounts
    <1>6. SettledReturns(tl) = ReturnsOf(events, e)
        <2>1. \A i \in DOMAIN events : events[i].agg = ChargeAggregate(txid) =>
                                          events[i].type # "pix.devolucao.settled"
            BY DEF StoreLogInv, OwnersStored, ChargeAggregate, CobTypes
        <2> QED
            BY <1>1, <2>1 DEF SettledReturns, ReturnsOf
    <1>7. ReturnedIn(tl) = payments[e].refunded
        <2> DEFINE S == ReturnsOf(events, e)
        <2>1. /\ IsFiniteSet(S)
              /\ \A k \in S : k \in DOMAIN events /\ Bodies(events)[k].cents \in Nat
            BY <1>5, ReturnsTyped
        <2>2. \A k \in S : k \in DOMAIN tl
            BY <1>1, <2>1 DEF ReturnsOf
        <2>3. \A k \in S : Bodies(tl)[k].cents = Bodies(events)[k].cents
            BY <1>1, <2>1, <2>2 DEF Bodies
        <2>4. ReturnedIn(tl) = Cents(Bodies(tl), S)
            BY <1>6 DEF ReturnedIn, Cents
        <2> HIDE DEF S
        <2>5. Cents(Bodies(tl), S) = Cents(Bodies(events), S)
            BY <2>1, <2>3, CentsSame
        <2> QED
            BY <2>4, <2>5 DEF LogCounts, S
    <1>8. payments[e].refunded \in Nat
        BY DEF StoreLogInv, TableInv, TypeOK, Typed, PaymentRow
    <1> QED
        BY <1>4, <1>7, <1>8 DEF Borne

\* The events are read: the settlement is told of a charge read as settled.
LEMMA TimelinePages ==
    ASSUME ConsoleInv, StoreLogInv, PagesInv, TimelineEvents
    PROVE  PagesInv'
    <1> DEFINE txid == load.draft.txid
               settler == load.draft.settler
               tl == [i \in ToldOf(txid, settler) |-> events[i]]
               fields == [settler |-> NoPayment, timeline |-> tl]
               d == load'.draft
    <1>1. load.at = "timeline" /\ FilledCharge(fields) /\ UNCHANGED <<storeVars, page>>
        BY DEF TimelineEvents, ToldOf
    <1>2. load.draft.kind = "charge" /\ ChargeLoaded("timeline", load.draft, payments)
        BY <1>1, KindOfLoad DEF PagesInv, LoadRight, CarriesCharge
    <1>3. Typed(tl, Nat, Event)
        <2>1. DOMAIN events \subseteq Nat /\ \A i \in DOMAIN events : events[i] \in Event
            BY DEF StoreLogInv, TableInv, TypeOK
        <2> QED
            BY <2>1 DEF Typed, ToldOf
    <1>4. /\ Borne(txid, tl, payments)
          /\ load.draft.charge.status = "CONCLUIDA" =>
                {"cob.settled", "pix.received"} \subseteq TypesOf(tl)
        <2>1. LogCounts(payments, events) /\ txid \in TxId
            BY <1>2 DEF PagesInv, ChargeLoaded, ChargePageTyped
        <2>2. CASE settler = NoPayment
            BY <1>2, <2>1, <2>2, ChargeIsTold DEF NoPayment, ChargeLoaded
        <2>3. CASE settler # NoPayment
            <3>1. PICK e \in DOMAIN payments : payments[e].txid = txid /\ settler = <<e>>
                BY <1>2, <2>3 DEF ChargeLoaded
            <3> QED
                BY <2>1, <3>1, SettlementIsTold
        <2> QED
            BY <2>2, <2>3
    <1>5. DOMAIN fields = {"settler", "timeline"} /\ fields["settler"] = NoPayment
          /\ fields["timeline"] = tl
        OBVIOUS
    <1> HIDE DEF fields, tl
    <1>6. Filled("status", fields)
        BY <1>1 DEF FilledCharge, ChargeSteps
    <1>7. /\ load'.at = "status"
          /\ \A f \in ChargeFields :
                load'.draft[f] = IF f \in DOMAIN fields THEN fields[f] ELSE load.draft[f]
        BY <1>2, <1>6, ChargeFilledIs
    <1> HIDE DEF d
    <1>8. /\ d.kind = "charge" /\ d.txid = txid /\ d.charge = load.draft.charge
          /\ d.status = load.draft.status /\ d.settler = NoPayment /\ d.timeline = tl
          /\ d.payment = load.draft.payment
        BY <1>2, <1>5, <1>7 DEF ChargeFields, d
    <1>9. NoPayment \in Seq(E2EId)
        BY DEF NoPayment
    <1>10. ChargeLoaded("status", d, payments)
        BY <1>2, <1>3, <1>4, <1>8, <1>9
           DEF ChargeLoaded, ChargePageTyped, SettlementTold, CarriesCharge, CarriesStatus
    <1>11. LoadRight(load', payments)
        BY <1>7, <1>8, <1>10 DEF LoadRight, d
    <1> QED
        BY <1>1, <1>11, PagesStay DEF PagesInv

\* The payment is read last: it has at least what the timeline told.
LEMMA PaymentPages ==
    ASSUME ConsoleInv, PagesInv, PaymentByTxID
    PROVE  PagesInv'
    <1> DEFINE d == load'.draft
               txid == load.draft.txid
               owed == ReturnedIn(load.draft.timeline)
    <1>1. load.at = "payment" /\ UNCHANGED <<storeVars, page>>
        BY DEF PaymentByTxID
    <1>2. load.draft.kind = "charge" /\ ChargeLoaded("payment", load.draft, payments)
        BY <1>1, KindOfLoad DEF PagesInv, LoadRight, CarriesCharge
    <1>3. /\ owed \in Nat
          /\ "cob.settled" \in TypesOf(load.draft.timeline) => SettlerOf(txid) # {}
          /\ owed = 0 \/ \E e \in SettlerOf(txid) : owed <= payments[e].refunded
        BY <1>2 DEF ChargeLoaded, Borne, SettlerOf
    <1>4. /\ \A e \in SettlerOf(txid) : payments[e] \in PaymentRow
          /\ \A e, f \in SettlerOf(txid) : e = f
        BY DEF SettlerOf, ConsoleInv, TableInv, SettledOnce, TypeOK, Typed
    <1>5. ASSUME NEW payment,
                 \/ SettlerOf(txid) = {} /\ payment = NoPayment
                 \/ \E e \in SettlerOf(txid) : payment = payments[e],
                 load'.at = "show",
                 \A f \in ChargeFields :
                    load'.draft[f] = IF f = "payment" THEN payment ELSE load.draft[f]
          PROVE  PagesInv'
        <2>1. \A e \in SettlerOf(txid) : payments[e] # NoPayment /\ payments[e].refunded \in Nat
            BY <1>4 DEF PaymentRow, NoPayment
        <2> HIDE DEF d
        <2>2. /\ d.kind = "charge" /\ d.txid = txid /\ d.charge = load.draft.charge
              /\ d.status = load.draft.status /\ d.settler = load.draft.settler
              /\ d.timeline = load.draft.timeline /\ d.payment = payment
            BY <1>2, <1>5 DEF ChargeFields, d
        <2>3. payment \in PaymentRow \cup {NoPayment}
            BY <1>4, <1>5
        <2>4. ReturnedIn(d.timeline) = owed
            BY <2>2
        <2> HIDE DEF owed
        <2>5. payment # NoPayment => payment.refunded >= owed
            BY <1>3, <1>4, <1>5, <2>1
        <2>6. Agrees(d)
            BY <1>2, <1>3, <1>5, <2>1, <2>2, <2>4, <2>5
               DEF Agrees, ChargeLoaded, SettlementTold, CarriesStatus
        <2>7. ChargeLoaded("show", d, payments)
            BY <1>2, <2>2, <2>3, <2>6
               DEF ChargeLoaded, ChargePageTyped, CarriesCharge, CarriesStatus
        <2>8. LoadRight(load', payments)
            BY <1>5, <2>2, <2>7 DEF LoadRight, d
        <2> QED
            BY <1>1, <2>8, PagesStay DEF PagesInv
    <1>6. CASE SettlerOf(txid) = {} /\ FilledCharge(<<>>)
        <2>1. Filled("show", <<>>) /\ DOMAIN <<>> = {}
            BY <1>1, <1>6 DEF FilledCharge, ChargeSteps
        <2>2. load'.at = "show" /\ \A f \in ChargeFields : load'.draft[f] = load.draft[f]
            BY <1>2, <2>1, ChargeFilledIs
        <2>3. load.draft["payment"] = NoPayment
            BY <1>2 DEF ChargeLoaded
        <2> QED
            BY <1>5, <1>6, <2>2, <2>3
    <1>7. ASSUME NEW e \in SettlerOf(txid), FilledCharge([payment |-> payments[e]])
          PROVE  PagesInv'
        <2> DEFINE fields == [payment |-> payments[e]]
        <2>1. Filled("show", fields)
            BY <1>1, <1>7 DEF FilledCharge, ChargeSteps
        <2>2. DOMAIN fields = {"payment"} /\ fields["payment"] = payments[e]
            OBVIOUS
        <2> HIDE DEF fields
        <2>3. /\ load'.at = "show"
              /\ \A f \in ChargeFields :
                    load'.draft[f] = IF f = "payment" THEN payments[e] ELSE load.draft[f]
            BY <1>2, <2>1, <2>2, ChargeFilledIs
        <2> QED
            BY <1>5, <2>3
    <1> QED
        BY <1>6, <1>7 DEF PaymentByTxID

\* The API writes on: what a page was told stays true.
LEMMA WritePages ==
    ASSUME ConsoleInv, StoreLogInv, PagesInv, [Next]_storeVars, UNCHANGED <<page, load>>
    PROVE  PagesInv'
    <1>1. LogCounts(payments', events')
        BY CountsStep DEF PagesInv
    <1>2. IsFiniteSet(DOMAIN charges')
        BY FiniteStep DEF PagesInv
    <1>3. \A e \in DOMAIN payments :
             /\ e \in DOMAIN payments' /\ payments'[e].txid = payments[e].txid
             /\ payments[e].refunded <= payments'[e].refunded
             /\ payments[e].refunded \in Nat /\ payments'[e].refunded \in Nat
        <2>1. TypeOK /\ TypeOK'
            BY TablesStep DEF ConsoleInv, TableInv
        <2>2. \A e \in DOMAIN payments : payments[e].refunded \in Nat
            BY <2>1 DEF TypeOK, Typed, PaymentRow
        <2>3. \A e \in DOMAIN payments' : payments'[e].refunded \in Nat
            BY <2>1 DEF TypeOK, Typed, PaymentRow
        <2> QED
            BY <2>1, <2>2, <2>3, PaymentsKept
    <1>4. ASSUME NEW txid, NEW tl, Borne(txid, tl, payments)
          PROVE  Borne(txid, tl, payments')
        BY <1>3, <1>4 DEF Borne
    <1>5. \A at, p : ChargeLoaded(at, p, payments) => ChargeLoaded(at, p, payments')
        BY <1>3, <1>4 DEF ChargeLoaded
    <1>6. LoadRight(load', payments')
        BY <1>5 DEF PagesInv, LoadRight
    <1> QED
        BY <1>1, <1>2, <1>6 DEF PagesInv

\* Every step keeps what the parts of a page say of each other.
LEMMA PagesStep ==
    ASSUME ConsoleInv, StoreLogInv, PagesInv, [ConsoleNext]_watchVars
    PROVE  StoreLogInv' /\ PagesInv'
    <1>1. [Next]_storeVars
        BY DEF watchVars, consoleVars, ConsoleNext, Handler, Browser, List, BuildRows, Stats,
           GetCharge, TimelineSettler, TimelineEvents, InferStatus, PaymentByTxID, OpenLedger,
           Poll, OpenCharge, Begin, Show, Fails, Write, Tick, Next
    <1>2. StoreLogInv'
        BY <1>1, LogStep
    <1>3. CASE UNCHANGED <<page, load>>
        BY <1>1, <1>2, <1>3, WritePages
    <1>4. CASE Handler
        BY <1>2, <1>4, ListPages, BuildRowsPages, StatsPages, GetChargePages, SettlerPages,
           TimelinePages, InferStatusPages, PaymentPages DEF Handler
    <1>5. Handler \/ Browser \/ UNCHANGED <<page, load>>
        BY DEF watchVars, consoleVars, ConsoleNext, Write, Tick
    <1> QED
        BY <1>2, <1>3, <1>4, <1>5, BrowserPages

\* Nothing is stored, shown or asked for.
LEMMA PagesStart ==
    ASSUME ConsoleInit
    PROVE  StoreLogInv /\ PagesInv
    <1>1. Init
        BY DEF ConsoleInit
    <1>2. StoreLogInv
        BY <1>1, LogStarts
    <1>3. LogCounts(payments, events) /\ IsFiniteSet(DOMAIN charges)
        BY <1>1, FS_EmptySet DEF Init, Empty, LogCounts
    <1>4. PageRight(page) /\ LoadRight(load, payments)
        BY DEF ConsoleInit, PageRight, LoadRight, Idle, Blank
    <1> QED
        BY <1>2, <1>3, <1>4 DEF PagesInv

-----------------------------------------------------------------------------
\* What the handler holds is borne out, read by read, and what the browser shows was.
THEOREM PagesCorrect == ConsoleSpec => [](ConsoleInv /\ StoreLogInv /\ PagesInv)
    <1>1. ConsoleInit => ConsoleInv /\ StoreLogInv /\ PagesInv
        BY ConsoleStarts, PagesStart
    <1>2. /\ ConsoleInv /\ StoreLogInv /\ PagesInv /\ [ConsoleNext]_watchVars
          => (ConsoleInv /\ StoreLogInv /\ PagesInv)'
        BY ConsoleStep, PagesStep
    <1> QED
        BY <1>1, <1>2, PTL DEF ConsoleSpec

\* A charge page is torn in one direction only: what it says at the top, and in its
\* timeline, is accounted for by the payment read last.
THEOREM PagesAgree == ConsoleSpec => []PageAgrees
    <1>1. PagesInv => PageAgrees
        BY DEF PagesInv, PageRight, Agrees, PageAgrees
    <1> QED
        BY <1>1, PagesCorrect, PTL

\* Every page is well-formed: rows of stored charges, never more of them than Limit.
THEOREM PagesTyped == ConsoleSpec => []ConsoleTypeOK
    <1>1. ASSUME ConsoleInv, PagesInv
          PROVE  ConsoleTypeOK
        <2>1. PageTyped(page)
            BY <1>1 DEF ConsoleInv, PageFine, LedgerFine, PagesInv, PageRight, PageTyped
        <2>2. load.draft = Blank \/ load.draft = NotFoundPage
              \/ load.draft.kind \in {"ledger", "charge"}
            BY <1>1 DEF ConsoleInv, LoadFine, LedgerFine, Idle
        <2>3. PageTyped(load.draft)
            BY <1>1, <2>2 DEF PagesInv, LoadRight, LedgerLoaded, ChargeLoaded, PageTyped
        <2>4. load = Idle \/ load.at \in Steps
            BY <1>1 DEF ConsoleInv, LoadFine, CarriesCharge, Steps
        <2> QED
            BY <1>1, <2>1, <2>3, <2>4 DEF ConsoleInv, PagesInv, PageRight, ConsoleTypeOK
    <1> QED
        BY <1>1, PagesCorrect, PTL
=============================================================================
