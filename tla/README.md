# pix-sandbox-pay in TLA+

The sandbox emulates the receiving side of Pix: a caller creates a charge (`cob`),
a simulated payer pays it, the payee may return it (`devolucao`), and each of these
is announced to the payee's webhook. One process, one SQLite file, an append-only
event log. This directory models it and says what was checked and what was proved.

## The system

| Part | State | Operations | Hard part |
|---|---|---|---|
| `internal/core` | none | statuses, expiry, refundable amount, identifiers, amounts | the instant of expiry, the width of a sequence |
| `internal/store` | tables `charges`, `payments`, `refunds`, `webhooks`; log `events` | CreateCharge, ExpireCharge, SettleCharge, CreateRefund, PutWebhook, AppendEvent; reads | every state change and its event commit together; numbers drawn as MAX + 1; callers bring their own reading of the clock |
| `internal/api` | none of its own; the locals of running handlers | create / read / pay / return / register, as several store calls each | what a handler read before another request's transaction, and uses after it; cancellation; a second reading of the clock |
| `internal/webhook` | the delivery goroutines, `closed`, `closing`, a cancellable context, a wait group | Deliver, retry, record, Close | Deliver racing Close, lost answers, the shutdown budget |
| `internal/rng` | position in the seeded stream | String, Bytes | restarts at boot while the database does not |
| `internal/store/migrate.go` | `user_version`, the schema, the stamps of `charges` | Open: apply what is missing, rewrite legacy stamps | a boot cut short between two statements; two boots on one file; the cursor and the one connection |
| `cmd/pix-sandbox` | the process | boot, signal, Shutdown, Close, the store's Close, exit | one budget for all of it; what is lost when the process dies, or when Shutdown overruns |
| `web/console` | none (the viewer carries a watermark) | ledger, polled rows, charge page | pages made of several reads |
| `internal/emv`, `core/money` | none | a charge's amount and BR Code, and its verification | the widest amount, the longest key, a description cut between runes |
| `internal/buildinfo` | none | the version string | none |

Handlers reach the store through one connection, so its transactions are totally
ordered; between two calls of a handler anything may happen. A handler hands a
callback to the dispatcher after its transaction committed; the dispatcher writes
its verdict back to the log on its own. Nothing remembers a callback between the
commit and the hand-over.

What makes each part correct: the store, that the log and the tables tell one
story (INV-3), that a charge settles once (INV-2) and refunds stay inside it
(INV-4); the handlers, that what they answer is what the store holds however they
interleave; the dispatcher, that each callback it takes ends once, with a verdict
its attempts earned, before Close returns; the process, that it drains what it
accepted before the database closes, and still ends; the migrations, that a
database is never counted as more, or less, than it is; the codec, that a request
the API accepts has a code and the code carries that request.

## Modules

| Module | Models | Kind |
|---|---|---|
| `PixDomain` | `internal/core`: statuses, expiry, refundable amount, identifiers | pure operators |
| `PixLifecycle` | what is promised of a charge, with no tables and no log | abstract specification |
| `PixStore` | `internal/store`: one action per mutating method | specification; implements `PixLifecycle` |
| `StoreTx` | the same methods statement by statement, over one connection, with errors and crashes | specification; implements `PixStore` |
| `PixReplay` | the log replayed into tables | reference definition |
| `PixApi` | `internal/api` over `PixStore`, with crash and reboot | composition |
| `PixCallbacks` | what is promised of a callback | abstract specification |
| `Dispatcher` | `internal/webhook` and the budget `main` gives Close | specification; implements `PixCallbacks` |
| `Process` | `cmd/pix-sandbox` from serving to the exit, over `Dispatcher` | composition |
| `Migrate` | `internal/store/migrate.go` and SQLite's transactions | specification |
| `Money`, `BRCode` | `core/money`, `internal/emv`, and the damage a reader must notice | pure operators; a code and its reader |
| `Console` | `web/console` and its reads, over `PixStore` | composition |
| `PixStoreProofs` | the inductive invariant of `PixStore`; sums of refunds; that it implements `PixLifecycle` | proofs |
| `PixLogProofs` | the event log against the tables, and replayed into them; windows | proofs, over `PixStoreProofs` |
| `StoreTxProofs` | `StoreTx` implements `PixStore`; what a torn read says | proofs, over `PixStoreProofs` |
| `PixApiProofs` | what the handlers answer and post | proofs, over `PixLogProofs` |
| `ProcessProofs` | the dispatcher, that it implements `PixCallbacks`, and the order of a shutdown | proofs |
| `MigrateProofs` | types and lock of a boot; boots that do not overlap | proofs |
| `ConsoleProofs` | what a viewer is shown, page after page and read by read | proofs, over `PixLogProofs` |
| `BRCodeProofs` | what a code carries to its reader, and what its CRC tells of damage | proofs |
| `MCPixStore`, `MCPixApi`, `MCDispatcher`, `MCBRCode` | small instances | model checking |

### PixStore

A table is a function from its primary key to the rest of the row; `events` is a
sequence whose positions are the ids. `CreateCharge`, `ExpireCharge`,
`SettleCharge`, `CreateRefund`, `PutWebhook` and `AppendEvent` carry the names of
the methods. The early returns of a method are guards; a method that returns an
error or the row it found changes nothing and has no action. The constraints of
the schema are guards too (`PaymentAccepted`, `RefundAccepted`), so the model can
tell whether the code or only the constraint prevents a state. `now` is a
parameter taken from `Time` in any order: a handler reads its clock before its
transaction gets the connection, so later transactions may carry earlier readings.

Left out: free text, payer documents, the BR Code. The BR Code is the one column
the log does not carry: `cob.created` has no field for it, so a rebuild must render
it again from the key, the txid, the amount and the merchant's configuration.
`ReplayAgrees` covers every other column.

### StoreTx

`call[c]` is the method a goroutine is in: `waits` for the pool's connection, holds
it (`tx` for a transaction, `exec` and `query` for a statement over the pool), has
`writes` left, or sits `between` the two queries of `PaymentWithRefunds`. The
SELECTs that open a transaction are one step, since nobody else can write while
the connection is held; every INSERT and UPDATE after them is a step on `work`, a
private copy, which `Commit` publishes. `WaitFails`, `WriteFails` and `ReadFails`
stand for an error of SQLite and for a context cancelled there; `Crash` is the end
of the process anywhere. `StoreRefined` is `PixStore`'s own `Spec`, on the same
variables: a method that is cut short is a stutter.

### Migrate

`proc[p]` is where a process is in `Open`: reading `user_version`, applying a file,
bumping the version, committing, scanning for legacy stamps, rewriting them. A
transaction is SQLite's deferred one: it sees the file as it was at its first
statement, takes the write lock at its first write, and a write over a file that
changed since then fails. A stamp is the text of the column, since the order of
texts is what the rewrite is for; one digit stands for the seconds and all before
them. `Database` is what a boot may find: nothing, what any earlier version of the
files left, or a file of a later build. `Overlap` tells whether two processes may
boot at once: with it off, as in `migrate`, one boots while the other serves or is
down.

### PixApi

`req[r]` is one request: what the client sent, the step its handler is at (`pc`),
and the handler's locals. A step is one store call, or what the handler does
between two. `clock` is the sandbox clock; a handler reads it somewhere between
its previous step and the one that uses the reading (`Readings`), so a reading
may be stale by the time it is used. Requests arrive validated; a rejection for
form reads no state. `Cancel` is a client that hangs up, or the router's 30
seconds; `NotifyFails` a detached read that fails; `Crash` loses every handler
and puts the seeded stream back to its start. `Stream` gives the txids the source
yields by the number of draws since boot: draws for identifiers count as one each,
whatever their width, which is all the re-mint loop can tell.

Reads that change nothing (`GET /pix`, `GET /webhook`, the QR Code) and the
verdicts the dispatcher appends are not steps of `PixApi`.

### Dispatcher

A job is one call of `Deliver` and its goroutine; `closer` is where the single
call of `Close` is (`main` makes one; a second returns at once, without waiting).
`Counted` is where the wait group counts a job, `Signalled` when the channel
`closing` is closed, `cancelled` when the context is. `PayeeAnswers` belongs to
the environment: the request reached the payee; whether the answer comes back is
`AnswerArrives` or `TransportFails`. Timers have no length; when a timer and
`closing` are both ready, `select` may pick either, as in Go.

### Process

`handler[j]` is the request that delivers job `j`, if it gets that far; `main` is
where `run()` is. `ShutdownReturns` needs every handler to be idle, as net/http
promises; `ShutdownOverruns` is the end of its ten seconds, after which `run()`
returns without Close. `StoreCloses` is the deferred call: from then on a verdict
can only fail to be recorded. `Exit` stops everything, wherever it is. A panic and
a kill are `PixApi`'s `Crash`.

### BRCode and Money

A text is a sequence of bytes and a number the sequence of its digits, so amounts
are checked at their full twelve digits and not in TLC's integers. `Payload` is
the code `buildCharge` stores; the CRC register is the set of its one bits.
`Smudge` and `Swap` are what happens to a code that is typed or printed: one
character read as any other byte, or two neighbours exchanged. `MCBRCode` also assumes, and TLC
evaluates, the check value of CRC-16/CCITT-FALSE that the tests of `emv` quote:
`DamageShows` alone could not tell a wrong polynomial from the right one.
Two of the 23 accented letters stand for the table of `sanitize`. `buildCharge` gives
a charge no description (`cob.go:229-235`), so what `CodeCarries` says of one is about
the API of `emv` itself.

### Console

`load` is the one handler a browser has at work and the page it is filling in,
step by step: `List`, `BuildRows`, `Stats` for the ledger; `Stats`, `GetCharge`,
`TimelineSettler`, `TimelineEvents`, `InferStatus`, `PaymentByTxID` for a charge
page, whose timeline is the events it shows by their ids. `Show` replaces what the
browser displays; a failed poll leaves its rows in place, any other failure gives
an error page. `Write` is any transaction of the store, by a caller whose reading
of the clock is not ahead of it. Txids are numbers here, because the ledger's
order ends with them. `before` is kept for the properties only.

## Runs

| Run | Configuration | Shows |
|---|---|---|
| `store` | 2 txids, 2 refund ids, amounts 1-2, windows 1-2, instants 0-2, sequences to 2; or 1 txid, 2 keys, 2 URLs, 2 registrations, 1 note | types, single settlement, refund cap and its sum, dense numbers, ends of windows, log against tables in content and order, refunds and REFUNDED included, replay, refinement of `PixLifecycle` |
| `storetx` | 2 callers, 4 calls, 1 txid, 2 refund ids, 2 amounts, 1 registration, 1 note, crashes | refinement of `PixStore`, `RefundsCoverCount`, `CallsEnd` |
| `api` | 2 requests of create / mint / get / pay, 3 txids, instants 0-2; or 3 of pay / refund / hook; 1 earlier charge, 1 crash | `OneWinner`, `PayAnswersTrue`, `MintServesItsOwn`, `RefundAnswersTrue`, `CallbackOwed`, `Answered` |
| `api_expiry_shown` | 2 reads across the end of a window | violation: see below |
| `api_refusal_stale` | a payment and a read across the end of a window | violation: see below |
| `console` | 2 txids, one watched, a ledger of 1, one refund, instants 0-1 | `FreshIsNew`, `PageAgrees`, `NeverBackToActive`, `ChargeAppears` |
| `dispatcher` | 2 jobs, 2 retries, answers 200 / 404 / 429 / 500 | `VerdictEarned`, `AbortsOnlyPastBudget`, `QuietAfterClose`, refinement of `PixCallbacks` |
| `process` | 2 requests with a callback each, 1 retry, answers 200 / 404 / 500 | `NothingRefused`, `StoreOutlivesWork`, `VerdictComes`, `ExitComes` |
| `shutdown_overrun` | 1 request, 1 retry, answer 200 | violation: see below |
| `migrate` | 2 processes that do not boot together, 3 files, 2 charges, 3 instants, crashes | `AppliedCount`, `ReadyIsWhole`, `BootEnds`, the lock |
| `migrate_race` | the same, booting together | violation: see below |
| `codec` | the edges of each field, one at a time; each other byte in every place of one code, every two neighbours of two codes swapped | `CodeCarries`, `DamageShows` |

Two runs explore alternatives rather than a product. In `store` a behaviour is
about charges or about registrations and notes (`focus`), which share no table;
in `api` it is about the life of charges while the clock moves, or about one
payment, its refunds and its callbacks (`crowd`). The requests of the other kind
stay away; the actions are the same.

Why the bounds are enough. Two charges make every clash of numbers, identifiers
and payments possible; sequences end at 2 so that the limit is met with both used.
Two amounts and two refund ids give a partial refund, a second refund that fits
and one that does not. Instants 0-2 with windows 1-2 put a reading before, at and
past the end of each window. Three requests are a payment and two that race after
it, whether refunds, a registration or a second payment. In `storetx` four calls create, pay and
return twice, and two callers are all that one connection can set against each
other: one holds it, one waits. The dispatcher's jobs meet only at `Close`, so two
of them show every race between one that has ended and one that has not; two
retries give a first, a middle and a last attempt, and one is enough where only
the end matters. Three files give a first, a last, and the one (0002) that cannot
run twice; the instants are a whole second, a tenth and a hundredth past it, so
that zeros are trimmed to each width and every pair of widths is compared. The codes
of `codec` take each length from below to past its limit; a changed byte is tried
on one code, that of a key of 36 characters, and proved to show in any (`DamageTold`). `CHECK_DEADLOCK FALSE` everywhere: clients
may stop asking, clocks stop at the bound, a process that ended and a dispatcher
that closed are meant to stop. Symmetry is over interchangeable txids, refund ids
or jobs, in `store` and `dispatcher`, which check no liveness.

Named bounds: `MaxIDSeq` and `Limit` (of the code, reduced), `Watched`,
`MaxRegistrations`, `MaxNotes`, `MaxCalls`, `MaxCrashes`, `Time`, and the number
of requests, callers, processes and jobs.

### Fairness

`PixApi` assumes weak fairness of each handler's next step: each call is bounded by
the request's 30 seconds or the detached 5. Nothing makes a client send, hang up,
or the clock move. `StoreTx` assumes it of a goroutine that can go on; that is
enough because the calls are bounded, while under a load that never ends nothing
in the code promises a waiter its turn. `Process` assumes it of each goroutine of the
dispatcher (every attempt is bounded by the client's 10 seconds, each wait by its
timer, each record by 5 seconds), of `run()` and of the budget of ten seconds; a
handler may stay busy, a payee silent and the signal away for ever. `Migrate`
assumes that `Open` runs, and nothing of starts, crashes or writes. `Console`
assumes that a handler finishes or fails, that an open ledger keeps polling (htmx
does, every two seconds), and, strongly, that polls are not refused for ever.

### Where the code and its comments differ

- `api_expiry_shown`: a response takes its status from `EffectiveStatus` at a
  second reading of the clock. If the window ends between the two readings it
  says EXPIRADA though the log does not; `cob.go:143-145` says this never happens.
- `api_refusal_stale`: a payment refused because another request expired the
  charge in between is told that the charge "is ATIVA and cannot be paid";
  `pix.go:83-84` says the refusal is honest. What `PayAnswersTrue` does show is
  that the expiry is in the log whenever a payment is refused as unpayable.
- `migrate_race`: `user_version` is read once, before the transactions that apply
  the files. Of two processes that boot on one new file, the slower runs 0001 again,
  which passes, and sets the version back to 1 over a schema that has all three
  files; its 0002 fails, there and at every later boot. `migrate.go:14-16` says the
  count is that of the files applied. With one boot at a time it is (`AppliedCount`
  in `migrate`).
- `shutdown_overrun`: when Shutdown overruns, `run()` returns without Close, and
  the callbacks at work end without an event; `main.go:129-130` says they are
  drained, `dispatcher.go:236-237` that shutdown swallows no last event.
  `StoreOutlivesWork` and `VerdictComes` are what holds on the other paths.

Others have no run, being shown by what their properties leave out:

- The console prints `EffectiveStatus` at the wall clock, so EXPIRADA may be
  nowhere in the log; `DESIGN.md:119` says it "never" shows "inferred state". A
  caller with an earlier reading may even settle the charge afterwards;
  `NeverBackToActive` is what remains true.
- A payment between the two reads of `ChargeTimeline` gives a list with
  `cob.settled` and no `pix.received`; `internal/store/console.go:62-64` calls it
  the whole story. `PageAgrees` is what the order of the reads ensures.
- `Fresh` marks "a charge this viewer had not seen on the previous poll"
  (`console.go:177`), but one that commits after a poll with a stamp at or before
  the watermark is not marked. `FreshIsNew` is the other direction;
  `ChargeAppears` says that the row itself is shown.

`PaymentWithRefunds` is torn the same way, and in one direction: a refund committed
between its two queries is listed and not yet counted, never counted and not
listed (`RefundsCoverCount`). What `CallbackOwed` says is conditional on purpose: a
callback is handed over unless the handler that owes it was killed or its detached
read failed. There is no outbox, and an unconditional promise would be false.

## Proofs

Every theorem holds for all values of the constants, whatever the number of txids,
requests, callers, jobs, processes or clock readings; the runs check the same
properties on the instances above, and checked each inductive invariant before it
was proved. The assumptions are the named `ASSUME`s of the modules:

- amounts and windows are positive, since `buildCharge` refuses others, instants are
  naturals, minutes have a length (`PixDomain`, `PixStore`);
- the database an earlier run left has its charges once each, and an amount, a
  window and a key to have made them with (`PixApi`, `EarlierAssumption`);
- the stream of txids is a sequence, retries are a natural, answers are final HTTP
  statuses, stamps have at most three digits, the ledger shows at least one row,
  txids have an order (`PixApi`, `Dispatcher`, `Migrate`, `Console`);
- the texts of a request are bytes, and a description starts with a rune, since
  `encoding/json` replaces what is not UTF-8 (`BRCode`, `RequestAssumption`).

None orders the readings of the clock, and none bounds how requests interleave.

### The store

`PixStoreProofs`: `TypeCorrect`, `SettlesOnce`, `RefundsCapped`,
`NumbersStayDense`. The inductive invariant is `TableInv`, the conjunction of the
four. None of its parts is inductive alone: that a charge has one payment needs the
types to read a row, that numbers do not clash needs them to be dense (MAX + 1 is
new only if MAX is an upper bound), and the refund cap needs the counter to be a
number. The argument goes method by method (`CreateTables`, `ExpireTables`,
`SettleTables`, `RefundTables`, `OtherTables`), each over a lemma for the types of
what the method writes; `DenseAfterNext` is the fact about MAX + 1 they share.

`CountersSum`, in the same module, says that the counter `CreateRefund` adds to is the
sum of the refund rows of that payment. The sum is `MapThenSumSet`, a recursive choice
over a finite set, and the provers have no induction for it. So a sum is characterised
first: `Totals(total, n, S)` holds of a function that gives every subset of `S` its
total, whichever element is taken out. Such functions exist (`TotalsExist`) because a
nonempty family of subsets of a finite set has a smallest member (`SmallestSet`, from
well-founded sets instead of induction), and the community operator, expanded, is one
of them (`SumsAreTotals`, `CentsTotal`). The three facts the invariant needs follow: no
rows sum to nothing, rows that did not change sum to the same, one more row adds its
cents. `BalanceStep` then goes method by method.

`StoreImplementsLifecycle`, also there, is the refinement. The mapping shows
a charge's payment as the one that names it, which only means something because
`SettledOnce` says there is at most one (`PaymentOfIs`). Then one lemma per method:
`CreateMaps`, `ExpireMaps`, `SettleMaps`, `RefundMaps` give the step of
`PixLifecycle` it is, and the others leave charges and payments alone. So the guard
of a refund in the abstract specification, that what goes back stays within what was
paid, is never what stops a refund the store makes.

`PixLogProofs`: `StatesLogged`, `LogOrdered` (INV-3), `WindowKept` (before the end of the
window; not after its start, since readings may go back). The invariant
`StoreLogInv` adds to `TableInv` that status and log agree both ways (`LogAgrees`),
that each payment has its `pix.received` (`ReceiptsLogged`), and that no event has
an owner missing from the tables (`OwnersStored`). The last is what makes it
inductive: a new txid or end-to-end id has no event yet, so the first one written
opens its log. For refunds `StatesLogged` takes two invariants more: `RefundsTrailed`,
that each refund has its two events and each such event its refund, by the same argument
from new ids (`TrailsMore`), and `LogCounts`, that what the log says went back of a
payment comes to its counter (`CountsStep`), so that REFUNDED can be read off the log.

`LogReplays`, in the same module, is the other half of INV-3: the tables are what the
log, replayed from nothing, gives. `FoldLeft` is recursive too, so `Rebuilds` states
what is meant without it: a function from sets of ids to databases, each the one
without the last id with that event applied (`Replays`), exists, and every such
function comes to these tables. An empty log has one, and a log with one more event has
one that goes on from it (`ReplayOfOneMore`), so each method only has to show that applying
its one or two events to the old tables gives the new ones.

`StoreTxProofs`: `TxImplementsStore` and `AnswersCover`. The invariant is `TxInv`: `TableInv`, and of
each call that has passed its SELECTs that its private copy, once what is left to
write is written, is what some one-step method would make of the committed tables
(`Landings`). That stays true because nobody commits while the call holds the one
connection. `Commit` is then a step of `PixStore`, and every other step, the errors
and the crash included, a stutter. `AnswersCover` is about the one method that is not
atomic, `PaymentWithRefunds`. Between its queries the counter it read is at most the
stored one, as counters only rise (`PaymentsKept`), and the stored one is what the rows
the second query finds come to (`Balanced`, the invariant behind `CountersSum`): what is
listed covers what was counted.

### The handlers

`PixApiProofs`: `ApiTyped`, `OnlyOneWins` (INV-2), `PayersToldTruth`, `MintsOwn`,
`RefundersToldTruth` and `CallbacksPosted`. `ApiInv` says, for each request, what its
locals imply of the tables: that a 201 has its row, that a refusal as unpayable has
its expiry on the log, that what is shown was found under that very charge. A
handler acts on what it read some steps ago, so each of these facts has to survive
every transaction of every other handler. They do, because of one lemma: transactions
only grow the tables (`Grown`: no row goes, a terminal state stays, a payment that
was returned whole stays so), and each fact is stable under growth. `PayFine` holds
the detail that matters: `PayExpire` and `PaySettle` use one reading of the clock,
so a charge that goes on to settlement was not past its window at that reading.
`CallbacksPosted` has an invariant of its own, `CallInv`, which follows what each
handler still owes (`OwedPayments`, `OwedRefunds`) from the commit to `Deliver`.

### Dispatcher and process

`ProcessProofs`: `DispatcherTyped`, `VerdictsEarned`, `AbortsPastBudget`,
`NothingAfterClose`, and the refinement `CallbacksImplemented`. `DispatcherInv` ties
where a goroutine is to what it has tried (`Disciplined`: it goes on only after
attempts worth another one), each record to the goroutine that has ended with it, and
the context to the stage of `Close`. An attempt may only be cut short because the
channel was closed or the context cancelled, and only `Close` does either.

For the process, `ProcessRunsDispatcher` shows that every step of the process is one
of the dispatcher's or leaves it alone, so the theorems above hold inside `run()` as
they stand. `NoneRefused` and `StoreOutlives` follow from `ShutdownInv`, the order in
which `run()` stops its parts: `Close` begins only once no handler is active, and the
store closes only once `Close` has returned.

### Migrations

`MigrateProofs`: `MigrateTyped` holds whether boots overlap or not, the write lock
included. `CountsApplied` and `ReadiesWhole` are stated under `~Overlap`, and must be:
`migrate_race` refutes `AppliedCount` without it. `MigrateInv` says that one process
boots at a time, that the file being applied is the one after `user_version`, and
that a rewrite holds fixes for the stamps that still need one. That a database is
then in order rests on what a stamp is: a rewritten one has full length
(`FormatIs`), is read back as the instant it was written for (`ReadsBack`), and
texts of full length sort as their instants do (`InOrder`, `SortsByInstant`).

### Console

`ConsoleProofs`: `RowsNewOnce` and `NeverSeenBack`. `ConsoleInv` has three layers, the
store, the handler at work and the page it will replace, and says that each is not
behind the next: whatever was told of a charge may still be told after (`Behind`).
The clock only rises and states are terminal, so this survives commits and ticks.
That a row marked new was never shown needs the watermark to be no lower than the
`createdAt` of any row listed; it is a MAX, whose least upper bound is `MaxIs`.

`PagesAgree` and `PagesTyped` are about the parts of one page, read at different
moments. `PagesInv` says of the handler, step by step, what the reads still to come are
bound to find: once the timeline is read, that a payment exists if it tells of a
settlement, and has counted at least what it says went back (`Borne`). Transactions keep
that, because payments stay and their counters only rise. What links counter and
timeline is `LogCounts` of `PixLogProofs`: the log accounts, event by event, for every
cent a payment has returned, and the timeline of a charge whose settler was found has all of those events.
If the order of the reads in `handleCharge` changed, `TimelinePages` or `PaymentPages`
would have nothing to stand on. `PagesTyped` needs the ledger's rows to be at most
`Limit`: of those listed, the oldest has all the others newer (`ListedFits`), by a
count of finite sets rather than by sorting.

### BR Code

`BRCodeProofs`: `CodeCarried`, `ParseInverts` and `DamageTold`, for texts of any length.

`ParseInverts`: what `EncodeAll` joins, `Parse` takes apart again, for any number of
fields of at most 99 bytes. One step of the parser at the start of an encoded field
reads that field and lands on the start of the next (`ReadsField`), so the suffixes of
the fields are read from the last one forward (`ParseJoined`). It is used three times:
on the eleven fields of a payload, the CRC's among them (`PayloadReads`), on the key and
description inside field 26 (`AccountReads`) and on the txid inside field 62
(`AdditionalReads`). `CodeCarried` needs two more facts. An amount that `ParseAmount`
took, printed by `FormatAmount`, parses to the same cents in at most 13 characters
(`AmountCarries`: printing pads with zeros and parsing drops them, `NumberPadded`). And
what `sanitize` makes of any text is a clean name (`SanitizeClean`): `Tidy` is kept by
every character the loop takes and by every prefix, and `TrimRight` ends it well; the
second `TrimRight`, after the cut, is the one that is easily forgotten. That a code is
always issued without a description is a count: 22 characters and a key of 77 are the 99
that field 26 can hold (`AlwaysRenders`).

`DamageTold`: a clock of the register is linear
and one to one, and so are the eight clocks of a byte (`FedKeepsApart`): after the same
byte different registers stay different, and from the same register different bytes
make different registers. So a changed byte shows in the register and goes on showing to
the end of the text (`ApartFromThere`, `ChangedByteShows`). Neighbours that change
places are harder, since the second byte could undo what the first did; it could only
if eight clocks left a byte where it was, and none is left there (`NoByteStays`,
`SwappedBytesShow`). The four digits of a CRC tell it, whatever their case
(`ChecksumTells`); damage to the digits themselves, or to the field that
announces them, is told apart position by position (`SmudgeTold`, `SwapTold`).

`CodecInv` says that what was issued is sealed by its CRC and what is read is at most one
damage away (`PayloadSealed`); `CarryInv`, that what was issued is the code of the request.

`Through` and `Parse` are each a choice of a function that meets an equation. That there
is one is proved without induction: two that agree up to a place agree further
(`Recursion`, and `Backwards` for the parser, whose steps are of any length), one exists
for every length (`RecursionExists`, `BackwardsExists`), and a property that goes from
each place to the next holds everywhere (`Ladder`), because a set of naturals has a
least member.

### Only model-checked

No invariant and no action property. `VerdictComes`, `ExitComes`, `CallsEnd`,
`Answered`, `ChargeAppears` and `BootEnds` are liveness under fairness, which is out of
the prover's reach.

## Not modelled, and next

- Flags and environment of the process; `internal/buildinfo`; the health check and
  the wording of problem documents; the templates and static files, with the counts
  in the console's margin, which are outside the polled fragment and stay as they
  were when the page was opened. They have no steps that could meet.
- The order in which a payee hears of a payment and of its refund: two goroutines
  with retries each, and the code promises none. Nor does it promise that stamps
  rise with the ids of the log.
- The form of a txid, a document, a refund id and a URL (`Validate...`): requests
  arrive well formed. The lock of the seeded source: a draw is atomic, and nothing
  reads the random half of an identifier.
- SQLite, database/sql and net/http are external: what the code relies on is stated
  where it is used (snapshots and the write lock in `Migrate`, the pool in
  `StoreTx`, Shutdown in `Process`).
- Chaos API, virtual clock, SPI, DICT and workflow engine: named by the design,
  without code at this commit.
