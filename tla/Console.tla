------------------------------- MODULE Console -------------------------------
(***************************************************************************)
(* web/console: one browser watching the store while the API writes it.    *)
(*                                                                         *)
(* A page is put together from several reads of the store and a reading of *)
(* the wall clock; load is the handler doing that, page is what the        *)
(* browser shows.  The ledger asks for its rows again every two seconds,   *)
(* carrying the newest creation instant it has seen.  Nothing here writes, *)
(* and viewers share nothing, so one of them is enough.                    *)
(*                                                                         *)
(* The counts in the margin, the labels and the markup are left out: Stats *)
(* is a read that takes time and can fail.                                 *)
(***************************************************************************)
EXTENDS PixStore, Functions

CONSTANTS
    Limit,      \* DefaultLimit, the rows of the ledger
    Watched     \* bound: the charges whose page this viewer opens

ASSUME LimitAssumption == Limit \in Nat \ {0} /\ Watched \subseteq TxId

\* The ledger's order ends with txid DESC, so txids are comparable.
ASSUME TxIdAssumption == TxId \subseteq Nat /\ 0 \in Time

VARIABLES
    clock,     \* the wall clock
    page,      \* what the browser shows
    load       \* the handler at work, if any: its next step and the page so far

consoleVars == <<clock, page, load>>
watchVars == <<storeVars, consoleVars>>

NoStamp == -1      \* the empty `since`
NoCharge == <<>>
NoPayment == <<>>

(***************************************************************************)
(* Pages.  `before` is not on the page: it remembers every txid this       *)
(* ledger has shown since it was opened, for the properties.               *)
(***************************************************************************)
Blank == [kind |-> "blank"]
ErrorPage == [kind |-> "error"]
NotFoundPage == [kind |-> "notFound"]

EmptyLedger(polled, since, before) ==
    [kind |-> "ledger", polled |-> polled, since |-> since, before |-> before,
     list |-> NoCharge, rows |-> {}]

EmptyChargePage(txid) ==
    [kind |-> "charge", txid |-> txid, charge |-> NoCharge, settler |-> NoPayment,
     timeline |-> Empty, status |-> "none", payment |-> NoPayment]

Steps == {"list", "rows", "stats", "charge", "settler", "timeline", "status", "payment", "show"}

Idle == [at |-> "idle", draft |-> Blank]

\* mutant: the payment is read first
ChargeStepsPaymentFirst ==
    [stats |-> "payment", payment |-> "charge", charge |-> "settler", settler |-> "timeline",
     timeline |-> "status", status |-> "show"]

\* handleCharge, in order; settler and timeline are the two reads of ChargeTimeline.
ChargeSteps ==
    [stats |-> "charge", charge |-> "settler", settler |-> "timeline", timeline |-> "status",
     status |-> "payment", payment |-> "show"]

\* The handler has done its step and filled in some of the page.
Filled(next, fields) ==
    load' = [at |-> next,
             draft |-> [f \in DOMAIN load.draft |->
                           IF f \in DOMAIN fields THEN fields[f] ELSE load.draft[f]]]

FilledCharge(fields) == Filled(ChargeSteps[load.at], fields)

-----------------------------------------------------------------------------
(***************************************************************************)
(* The browser.                                                            *)
(***************************************************************************)
Begin(at, draft) ==
    /\ load = Idle
    /\ load' = [at |-> at, draft |-> draft]
    /\ UNCHANGED <<storeVars, clock, page>>

OpenLedger == Begin("list", EmptyLedger(FALSE, NoStamp, {}))

OpenCharge(t) == Begin("stats", EmptyChargePage(t))

TxIdsOf(rows) == {row.txid : row \in rows}

\* htmx asks again, with the watermark the last fragment carried.
Poll ==
    /\ page.kind = "ledger"
    /\ Begin("list", EmptyLedger(TRUE, page.since, page.before \cup TxIdsOf(page.rows)))

\* The answer replaces the page, or for a poll the rows of it.
Show ==
    /\ load.at = "show"
    /\ page' = load.draft
    /\ load' = Idle
    /\ UNCHANGED <<storeVars, clock>>

IsPoll == load.draft.kind = "ledger" /\ load.draft.polled

\* A read fails or the answer is lost: a poll leaves its rows where they are.
Fails ==
    /\ load # Idle
    /\ page' = IF IsPoll THEN page ELSE ErrorPage
    /\ load' = Idle
    /\ UNCHANGED <<storeVars, clock>>

-----------------------------------------------------------------------------
(***************************************************************************)
(* rows: handleLedger and handleRows.                                      *)
(***************************************************************************)
Newer(t, u) ==
    \/ charges[t].createdAt > charges[u].createdAt
    \/ charges[t].createdAt = charges[u].createdAt /\ t > u

\* mutant: the LIMIT keeps one too many
ListedOneMore ==
    {t \in DOMAIN charges : Cardinality({u \in DOMAIN charges : Newer(u, t)}) <= Limit}

\* mutant: a poll lists only what its watermark has not seen
ListedSince ==
    {t \in DOMAIN charges : charges[t].createdAt > load.draft.since}

\* ORDER BY created_at DESC, txid DESC LIMIT ?
Listed == {t \in DOMAIN charges : Cardinality({u \in DOMAIN charges : Newer(u, t)}) < Limit}

List ==
    /\ load.at = "list"
    /\ Filled("rows", [list |-> [t \in Listed |-> charges[t]]])
    /\ UNCHANGED <<storeVars, clock, page>>

\* mutant: the watermark itself counts as new
FreshFrom(stamp, since) == since # NoStamp /\ stamp >= since

Fresh(stamp, since) == since # NoStamp /\ stamp > since

BuildRows ==
    LET list == load.draft.list
        since == load.draft.since
    IN  /\ load.at = "rows"
        /\ Filled(IF IsPoll THEN "show" ELSE "stats",
               [list |-> NoCharge,
                rows |-> {[txid |-> t, status |-> EffectiveStatus(list[t], clock),
                           fresh |-> Fresh(list[t].createdAt, since)] : t \in DOMAIN list},
                since |-> Max({since} \cup {list[t].createdAt : t \in DOMAIN list})])
        /\ UNCHANGED <<storeVars, clock, page>>

Stats ==
    /\ load.at = "stats"
    /\ IF load.draft.kind = "ledger" THEN Filled("show", <<>>) ELSE FilledCharge(<<>>)
    /\ UNCHANGED <<storeVars, clock, page>>

-----------------------------------------------------------------------------
(***************************************************************************)
(* handleCharge.                                                           *)
(***************************************************************************)
GetCharge ==
    /\ load.at = "charge"
    /\ IF load.draft.txid \in DOMAIN charges
       THEN FilledCharge([charge |-> charges[load.draft.txid]])
       ELSE load' = [at |-> "show", draft |-> NotFoundPage]
    /\ UNCHANGED <<storeVars, clock, page>>

\* PaymentByTxID; its identifier, or nothing.
SettlerOf(txid) == {e \in DOMAIN payments : payments[e].txid = txid}

TimelineSettler ==
    /\ load.at = "settler"
    /\ \/ SettlerOf(load.draft.txid) = {} /\ FilledCharge(<<>>)
       \/ \E e \in SettlerOf(load.draft.txid) : FilledCharge([settler |-> <<e>>])
    /\ UNCHANGED <<storeVars, clock, page>>

\* The events by their ids, which is the order they are printed in.
TimelineEvents ==
    LET aggregates == {ChargeAggregate(load.draft.txid)}
                      \cup {PaymentAggregate(e) : e \in Range(load.draft.settler)}
        told == {i \in DOMAIN events : events[i].agg \in aggregates}
    IN  /\ load.at = "timeline"
        /\ FilledCharge([settler |-> NoPayment, timeline |-> [i \in told |-> events[i]]])
        /\ UNCHANGED <<storeVars, clock, page>>

\* mutant: the page prints the status as stored, the ledger as it infers it
PrintStoredStatus ==
    /\ load.at = "status"
    /\ FilledCharge([status |-> load.draft.charge.status])
    /\ UNCHANGED <<storeVars, clock, page>>

InferStatus ==
    /\ load.at = "status"
    /\ FilledCharge([status |-> EffectiveStatus(load.draft.charge, clock)])
    /\ UNCHANGED <<storeVars, clock, page>>

PaymentByTxID ==
    /\ load.at = "payment"
    /\ \/ SettlerOf(load.draft.txid) = {} /\ FilledCharge(<<>>)
       \/ \E e \in SettlerOf(load.draft.txid) : FilledCharge([payment |-> payments[e]])
    /\ UNCHANGED <<storeVars, clock, page>>

-----------------------------------------------------------------------------
\* The API goes on writing, with readings of the clock that may be old.
Write ==
    /\ \E now \in Time : now <= clock /\ Transaction(now)
    /\ UNCHANGED consoleVars

Tick ==
    /\ clock' = clock + 1 /\ clock' \in Time
    /\ UNCHANGED <<storeVars, page, load>>

ConsoleInit == Init /\ clock = 0 /\ page = Blank /\ load = Idle

Handler ==
    \/ List \/ BuildRows \/ Stats
    \/ GetCharge \/ TimelineSettler \/ TimelineEvents \/ InferStatus \/ PaymentByTxID

Browser ==
    \/ OpenLedger \/ Poll \/ Show \/ Fails
    \/ \E t \in Watched : OpenCharge(t)

ConsoleNext == Handler \/ Browser \/ Write \/ Tick

ConsoleSpec == ConsoleInit /\ [][ConsoleNext]_watchVars

\* Handlers answer, a ledger keeps polling, and not every poll is refused.
ConsoleLive ==
    /\ ConsoleSpec
    /\ WF_watchVars(Handler \/ Show) /\ WF_watchVars(Poll)
    /\ SF_watchVars(List) /\ SF_watchVars(BuildRows) /\ SF_watchVars(Show)

-----------------------------------------------------------------------------
(***************************************************************************)
(* Properties.                                                             *)
(***************************************************************************)
Row == [txid : TxId, status : ChargeStatus, fresh : BOOLEAN]

LedgerTyped(p) ==
    /\ p.polled \in BOOLEAN /\ p.since \in Time \cup {NoStamp} /\ p.before \subseteq TxId
    /\ p.rows \subseteq Row /\ Cardinality(p.rows) <= Limit
    /\ Typed(p.list, TxId, ChargeRow)

ChargePageTyped(p) ==
    /\ p.txid \in TxId /\ p.status \in ChargeStatus \cup {"none"}
    /\ p.charge \in ChargeRow \cup {NoCharge} /\ p.payment \in PaymentRow \cup {NoPayment}
    /\ p.settler \in Seq(E2EId) /\ Typed(p.timeline, Nat, Event)

PageTyped(p) ==
    \/ p \in {Blank, ErrorPage, NotFoundPage}
    \/ p.kind = "ledger" /\ LedgerTyped(p)
    \/ p.kind = "charge" /\ ChargePageTyped(p)

ConsoleTypeOK ==
    /\ clock \in Time
    /\ PageTyped(page) /\ PageTyped(load.draft)
    /\ load = Idle \/ load.at \in Steps
    /\ page.kind = "charge" => page.status # "none" /\ page.charge # NoCharge

\* A row prints itself on at most once: one marked as just arrived was never on
\* this ledger before, however the watermark and the commits interleave.
FreshIsNew ==
    page.kind = "ledger" => \A row \in page.rows : row.fresh => row.txid \notin page.before

Displayed(p) ==
    CASE p.kind = "ledger" -> {<<row.txid, row.status>> : row \in p.rows}
      [] p.kind = "charge" -> {<<p.txid, p.status>>}
      [] OTHER -> {}

\* From one page to the next, whichever reads made them, a charge never goes back
\* to ATIVA and a settled one stays settled.
NeverBackToActive ==
    [][\A old \in Displayed(page), new \in Displayed(page') : old[1] = new[1] =>
          /\ old[2] # "ATIVA" => new[2] # "ATIVA"
          /\ old[2] = "CONCLUIDA" => new[2] = "CONCLUIDA"]_page

TypesOf(timeline) == {timeline[i].type : i \in DOMAIN timeline}

ReturnedIn(timeline) ==
    LET body == Bodies(timeline)
    IN  MapThenSumSet(LAMBDA i : body[i].cents, SettledReturns(timeline))

\* A charge page read while the API writes is torn in one direction only: each
\* read is at least as new as the ones above it.  A settled charge has its payment
\* and both events, a settlement in the timeline has its payment, and the payment
\* accounts for every refund the timeline tells.
PageAgrees ==
    page.kind = "charge" =>
        /\ page.status = "CONCLUIDA" =>
              {"cob.settled", "pix.received"} \subseteq TypesOf(page.timeline)
        /\ "cob.settled" \in TypesOf(page.timeline) => page.payment # NoPayment
        /\ page.payment # NoPayment => page.payment.refunded >= ReturnedIn(page.timeline)

\* An open ledger comes to show every charge, unless Limit newer ones crowd it out.
Crowded(t) ==
    t \in DOMAIN charges /\ Cardinality({u \in DOMAIN charges : Newer(u, t)}) >= Limit

ChargeAppears ==
    \A t \in TxId :
        (page.kind = "ledger" /\ t \in DOMAIN charges)
            ~> (page.kind = "ledger" => t \in TxIdsOf(page.rows) \/ Crowded(t))
=============================================================================
