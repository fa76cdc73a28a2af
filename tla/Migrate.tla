-------------------------------- MODULE Migrate --------------------------------
(***************************************************************************)
(* internal/store/migrate.go: what Open does to the database file before   *)
(* the process serves, statement by statement, with crashes, failing       *)
(* statements and other processes on the same file.                        *)
(*                                                                         *)
(* A transaction is SQLite's deferred one in WAL mode: it reads the file   *)
(* as it was at its first statement, takes the write lock at its first     *)
(* write, and a write over a file changed since its snapshot fails.        *)
(*                                                                         *)
(* A stamp is the text of the column, as a sequence of ASCII codes; one    *)
(* digit stands for the seconds and all before, two for the nine of the    *)
(* fraction.                                                               *)
(***************************************************************************)
EXTENDS Naturals, Sequences, FiniteSets

CONSTANTS
    Proc,       \* processes that may open the file
    Overlap,    \* TRUE when two may boot at the same time
    Txid,       \* charges
    Instant,    \* hundredths of a second, below 1000
    NoOne, NoCharge

ASSUME MigrateAssumption ==
    /\ Overlap \in BOOLEAN
    /\ Instant \subseteq 0..999
    /\ NoOne \notin Proc

\* 0001_init, 0002_charge_fields, 0003_payments.
Files == 3
File == 1..Files

\* CREATE ... IF NOT EXISTS throughout; 0002 is ALTER TABLE charges ADD COLUMN.
Rerunnable == {1, 3}

Applies(f, schema) ==
    /\ f \in Rerunnable \/ f \notin schema
    /\ f = 2 => 1 \in schema

-----------------------------------------------------------------------------
Code(digit) == 48 + digit
Dot == 46
Zulu == 90

Seconds(t) == <<Code(t \div 100)>>
Fraction(t) == <<(t \div 10) % 10, t % 10>>

Text(t, width) ==
    Seconds(t)
    \o (IF width = 0 THEN <<>> ELSE <<Dot>> \o [d \in 1..width |-> Code(Fraction(t)[d])])
    \o <<Zulu>>

\* SortableTime, and the RFC3339Nano of older builds, without its trailing zeros.
formatTime(t) == Text(t, 2)

Trimmed(t) ==
    Text(t, CHOOSE w \in 0..2 : /\ \A d \in (w + 1)..2 : Fraction(t)[d] = 0
                                /\ w > 0 => Fraction(t)[w] # 0)

parseTime(text) == CHOOSE t \in Instant : text \in {formatTime(t), Trimmed(t)}

sortableTimeLen == 5

Stamp == {formatTime(t) : t \in Instant} \cup {Trimmed(t) : t \in Instant}

\* How ORDER BY compares two texts.
Before(a, b) ==
    \E n \in 0..Len(a) :
        /\ n < Len(b)
        /\ \A i \in 1..n : a[i] = b[i]
        /\ n = Len(a) \/ a[n + 1] < b[n + 1]

-----------------------------------------------------------------------------
VARIABLES
    disk,    \* what is committed: user_version, the files applied, the charges
    lock,    \* the process that holds SQLite's write lock
    proc     \* per process: where Open is, and what it holds in memory

vars == <<disk, lock, proc>>

Disk == [version : 0..(Files + 1), schema : SUBSET (1..(Files + 1)),
         charges : [Txid -> Stamp \cup {NoCharge}]]

\* The file no build has opened, one any earlier build left, or a later build's.
Empty == [x \in Txid |-> NoCharge]

Database ==
    {d \in Disk : /\ d.schema = 1..d.version
                  /\ d.version = 0 => d.charges = Empty}

Down(d) ==
    [pc |-> "down", file |-> 0, seen |-> d, work |-> d, rows |-> {}, fixes |-> {}]

Init ==
    /\ disk \in Database
    /\ lock = NoOne
    /\ proc = [p \in Proc |-> Down(disk)]

InTx == {"apply", "bump", "commit", "update"}
Booting == {"version", "files", "scan", "normalize"} \cup InTx

\* mutant: a path that leaves the transaction without Rollback
StillLocked(p) == lock

Unlocked(p) == IF lock = p THEN NoOne ELSE lock

Writable(p) == lock \in {NoOne, p}

Goto(p, pc) == proc' = [proc EXCEPT ![p].pc = pc]

-----------------------------------------------------------------------------
(***************************************************************************)
(* migrate.                                                                *)
(***************************************************************************)
Start(p) ==
    /\ proc[p].pc = "down"
    /\ Overlap \/ \A q \in Proc : proc[q].pc \notin Booting
    /\ Goto(p, "version")
    /\ UNCHANGED <<disk, lock>>

ReadVersion(p) ==
    /\ proc[p].pc = "version"
    /\ \/ /\ disk.version > Files
          /\ Goto(p, "failed")
       \/ /\ disk.version <= Files
          /\ proc' = [proc EXCEPT ![p].pc = "files", ![p].file = disk.version + 1]
    /\ UNCHANGED <<disk, lock>>

Begin(p) ==
    /\ proc[p].pc = "files"
    /\ proc[p].file <= Files
    /\ Goto(p, "apply")
    /\ UNCHANGED <<disk, lock>>

\* The file's statements: over a schema that has them all they write nothing.
Apply(p) ==
    LET f == proc[p].file IN
    /\ proc[p].pc = "apply"
    /\ Applies(f, disk.schema)
    /\ f \notin disk.schema => Writable(p)
    /\ lock' = IF f \in disk.schema THEN lock ELSE p
    /\ proc' = [proc EXCEPT ![p].pc = "bump", ![p].seen = disk,
                            ![p].work = [disk EXCEPT !.schema = @ \cup {f}]]
    /\ UNCHANGED disk

\* mutant: the loop counter without its + 1
BumpedBehind(p) == proc[p].file - 1

Bumped(p) == proc[p].file

Bump(p) ==
    /\ proc[p].pc = "bump"
    /\ Writable(p)
    /\ proc[p].seen = disk
    /\ lock' = p
    /\ proc' = [proc EXCEPT ![p].pc = "commit", ![p].work.version = Bumped(p)]
    /\ UNCHANGED disk

Commit(p) ==
    /\ proc[p].pc = "commit"
    /\ disk' = proc[p].work
    /\ lock' = Unlocked(p)
    /\ proc' = [proc EXCEPT ![p].pc = "files", ![p].file = @ + 1]

-----------------------------------------------------------------------------
(***************************************************************************)
(* normalizeChargeStamps.                                                  *)
(***************************************************************************)
\* mutant: the length is compared with that of a stamp without any fraction
OnlyWithoutFraction(text) == Len(text) = 2

Legacy(text) == Len(text) # sortableTimeLen

Scan(p) ==
    /\ proc[p].pc = "files"
    /\ proc[p].file > Files
    /\ proc' = [proc EXCEPT
          ![p].pc = "scan", ![p].fixes = {},
          ![p].rows = {x \in Txid : disk.charges[x] # NoCharge /\ Legacy(disk.charges[x])},
          ![p].seen = disk]
    /\ UNCHANGED <<disk, lock>>

ScanRow(p) ==
    /\ proc[p].pc = "scan"
    /\ \E x \in proc[p].rows :
          proc' = [proc EXCEPT ![p].rows = @ \ {x},
                               ![p].fixes = @ \cup {<<x, formatTime(parseTime(proc[p].seen.charges[x]))>>}]
    /\ UNCHANGED <<disk, lock>>

\* mutant: each row is rewritten as it is read, its cursor still open
AnyRowRead(p) == proc[p].fixes # {} \/ proc[p].rows = {}

AllRowsRead(p) == proc[p].rows = {}

ScanEnds(p) ==
    /\ proc[p].pc = "scan"
    /\ AllRowsRead(p)
    /\ Goto(p, IF proc[p].fixes = {} THEN "ready" ELSE "normalize")
    /\ UNCHANGED <<disk, lock>>

\* The pool's one connection is the cursor's until its last row is read.
BeginFixes(p) ==
    /\ proc[p].pc = "normalize"
    /\ proc[p].rows = {}
    /\ Goto(p, "update")
    /\ UNCHANGED <<disk, lock>>

Update(p) ==
    /\ proc[p].pc = "update"
    /\ Writable(p)
    /\ \E fix \in proc[p].fixes :
          LET base == IF lock = p THEN proc[p].work ELSE disk IN
          proc' = [proc EXCEPT ![p].fixes = @ \ {fix},
                               ![p].work = [base EXCEPT !.charges[fix[1]] = fix[2]]]
    /\ lock' = p
    /\ UNCHANGED disk

CommitFixes(p) ==
    /\ proc[p].pc = "update"
    /\ proc[p].fixes = {}
    /\ disk' = proc[p].work
    /\ lock' = Unlocked(p)
    /\ Goto(p, "ready")

-----------------------------------------------------------------------------
\* A statement that fails, its wait for the lock included: Rollback, and Open
\* returns the error.
Fails(p) ==
    /\ proc[p].pc \in InTx
    /\ lock' = Unlocked(p)
    /\ Goto(p, "failed")
    /\ UNCHANGED disk

\* The process ends, wherever it is; SQLite drops what was not committed.
Crash(p) ==
    /\ proc[p].pc # "down"
    /\ lock' = Unlocked(p)
    /\ proc' = [proc EXCEPT ![p] = Down(disk)]
    /\ UNCHANGED disk

\* CreateCharge of a process that serves.
WriteCharge(p) ==
    /\ proc[p].pc = "ready"
    /\ lock = NoOne
    /\ \E x \in Txid, t \in Instant :
          /\ disk.charges[x] = NoCharge
          /\ disk' = [disk EXCEPT !.charges[x] = formatTime(t)]
    /\ UNCHANGED <<lock, proc>>

Open(p) ==
    \/ ReadVersion(p) \/ Begin(p) \/ Apply(p) \/ Bump(p) \/ Commit(p)
    \/ Scan(p) \/ ScanRow(p) \/ ScanEnds(p) \/ BeginFixes(p) \/ Update(p)
    \/ CommitFixes(p) \/ Fails(p)

Next == \E p \in Proc : Start(p) \/ Open(p) \/ Crash(p) \/ WriteCharge(p)

\* Open runs; nothing need start, stop or write.
Spec == Init /\ [][Next]_vars /\ \A p \in Proc : WF_vars(Open(p))

-----------------------------------------------------------------------------
\* Every variable keeps its type, and the write lock belongs to a transaction that
\* is still open: none of the ways out of one leaves it behind.
MigrateTypeOK ==
    /\ disk \in Disk
    /\ lock \in Proc \cup {NoOne}
    /\ \A p \in Proc :
          /\ proc[p].pc \in Booting \cup {"down", "failed", "ready"}
          /\ proc[p].file \in 0..(Files + 1)
    /\ lock # NoOne => proc[lock].pc \in InTx

\* migrate.go:14: every migration the database has not seen is applied, and the
\* applied count lives in user_version, wherever a boot was cut short.
AppliedCount == disk.schema = 1..disk.version

\* A process that serves finds every file applied, and its ORDER BY of the charges
\* is chronological, those that older builds stamped included.
Chronological(charges) ==
    \A x, y \in {z \in Txid : charges[z] # NoCharge} :
        parseTime(charges[x]) < parseTime(charges[y]) => Before(charges[x], charges[y])

ReadyIsWhole ==
    \A p \in Proc :
        proc[p].pc = "ready" => disk.schema = File /\ Chronological(disk.charges)

\* Open returns: it waits neither for its own connection nor for a lock of its own.
BootEnds == \A p \in Proc : proc[p].pc \in Booting ~> proc[p].pc \notin Booting
=============================================================================
