----------------------------- MODULE MigrateProofs -----------------------------
(***************************************************************************)
(* What Open leaves in the database file, for every set of processes,      *)
(* charges and stamps: the types and the write lock whoever boots, and,    *)
(* when boots do not overlap, the applied count and a whole file under a   *)
(* process that serves.                                                    *)
(***************************************************************************)
EXTENDS Migrate, SequenceTheorems, TLAPS

Locals ==
    [pc : Booting \cup {"down", "failed", "ready"}, file : 0..(Files + 1),
     seen : Disk, work : Disk, rows : SUBSET Txid, fixes : SUBSET (Txid \X Stamp)]

InFile == {"apply", "bump", "commit"}

\* The loop counter is on a file while one is applied, and a row that waits to be
\* parsed holds a stamp.
Sound(q) ==
    /\ q \in Locals
    /\ q.pc = "files" => q.file \in 1..(Files + 1)
    /\ q.pc \in InFile => q.file \in File
    /\ q.pc = "scan" => \A x \in q.rows : q.seen.charges[x] # NoCharge

TypeInv ==
    /\ disk \in Disk
    /\ lock \in Proc \cup {NoOne}
    /\ proc \in [Proc -> Locals]
    /\ \A p \in Proc : Sound(proc[p])
    /\ lock # NoOne => proc[lock].pc \in InTx

Sortable == {formatTime(t) : t \in Instant}

Unsorted(charges) == {x \in Txid : charges[x] # NoCharge /\ charges[x] \notin Sortable}

Fixed(q) == {x \in Txid : \E fix \in q.fixes : fix[1] = x}

\* What a boot knows of the file. It applies the file after the last one, so none
\* serves while it does; it rewrites a file that has them all, and every row that is
\* not sortable yet is still before it.
Applying(q, d) ==
    /\ q.pc \in {"files"} \cup InFile => q.file = d.version + 1
    /\ q.pc \in {"bump", "commit"} => q.work.schema = 1..q.file
    /\ q.pc = "commit" => q.work.version = q.file

Rewriting(p, q, d, holder) ==
    /\ q.pc \in {"scan", "normalize", "update"} =>
          /\ d.version = Files
          /\ \A fix \in q.fixes : fix[2] \in Sortable
    /\ q.pc = "scan" => Unsorted(d.charges) \subseteq q.rows \cup Fixed(q)
    /\ q.pc = "normalize" => Unsorted(d.charges) \subseteq Fixed(q) /\ q.fixes # {}
    /\ q.pc = "update" /\ holder # p =>
          Unsorted(d.charges) \subseteq Fixed(q) /\ q.fixes # {}
    /\ q.pc = "update" /\ holder = p =>
          /\ Unsorted(q.work.charges) \subseteq Fixed(q)
          /\ q.work.version = Files /\ q.work.schema = File

Whole(d) == d.version = Files /\ Unsorted(d.charges) = {}

\* One process boots at a time.
OneBoots ==
    \A p, q \in Proc : proc[p].pc \in Booting /\ proc[q].pc \in Booting => p = q

BootInv ==
    /\ OneBoots
    /\ AppliedCount
    /\ \A p \in Proc : /\ Applying(proc[p], disk)
                       /\ Rewriting(p, proc[p], disk, lock)
                       /\ proc[p].pc = "ready" => Whole(disk)

MigrateInv == TypeInv /\ BootInv

-----------------------------------------------------------------------------
(***************************************************************************)
(* Stamps. One of full length is sortable, a sortable one is read back as  *)
(* it was written, and the order of their texts is the order of instants.  *)
(***************************************************************************)
Hundreds(t) == t \div 100
Tens(t) == (t \div 10) % 10
Units(t) == t % 10
Value(h, m, l) == 100 * h + 10 * m + l

LEMMA Digits ==
    ASSUME NEW t \in Instant
    PROVE  /\ t \in Nat
           /\ Hundreds(t) \in 0..9 /\ Tens(t) \in 0..9 /\ Units(t) \in 0..9
           /\ t = Value(Hundreds(t), Tens(t), Units(t))
    <1>1. t \in 0..999
        BY MigrateAssumption
    <1> QED
        BY <1>1 DEF Hundreds, Tens, Units, Value

Body(t, width) == [d \in 1..width |-> Code(Fraction(t)[d])]

LEMMA BodyIs ==
    ASSUME NEW t \in Instant, NEW w \in 0..2
    PROVE  /\ Body(t, w) \in Seq(Nat) /\ Len(Body(t, w)) = w
           /\ w = 2 => Body(t, w)[1] = 48 + Tens(t) /\ Body(t, w)[2] = 48 + Units(t)
    <1>1. \A d \in 1..w : d = 1 \/ d = 2
        OBVIOUS
    <1>2. Code(Fraction(t)[1]) = 48 + Tens(t) /\ Code(Fraction(t)[2]) = 48 + Units(t)
        BY DEF Fraction, Code, Tens, Units
    <1>3. \A d \in 1..w : Code(Fraction(t)[d]) \in Nat
        BY <1>1, <1>2, Digits
    <1> QED
        BY <1>2, <1>3 DEF Body

LEMMA Joined ==
    ASSUME NEW a \in Seq(Nat), NEW b \in Seq(Nat)
    PROVE  /\ a \o b \in Seq(Nat)
           /\ Len(a \o b) = Len(a) + Len(b)
           /\ \A i \in 1..Len(a) : (a \o b)[i] = a[i]
           /\ \A i \in 1..Len(b) : (a \o b)[Len(a) + i] = b[i]
    OBVIOUS

\* The same, of the lengths a stamp is made of.
LEMMA OneAndTwo ==
    ASSUME NEW a \in Seq(Nat), NEW b \in Seq(Nat), Len(a) = 1, Len(b) = 2
    PROVE  /\ a \o b \in Seq(Nat) /\ Len(a \o b) = 3
           /\ (a \o b)[1] = a[1]
           /\ (a \o b)[2] = b[1] /\ (a \o b)[3] = b[2]
    <1> DEFINE both == a \o b
    <1>1. /\ both \in Seq(Nat) /\ Len(both) = Len(a) + Len(b)
          /\ \A i \in 1..Len(a) : both[i] = a[i]
          /\ \A i \in 1..Len(b) : both[Len(a) + i] = b[i]
        BY Joined
    <1> HIDE DEF both
    <1>2. /\ both \in Seq(Nat) /\ Len(both) = 3
          /\ \A i \in 1..1 : both[i] = a[i]
          /\ \A i \in 1..2 : both[1 + i] = b[i]
        BY <1>1
    <1>3. /\ both[1] = a[1]
          /\ both[2] = b[1] /\ both[3] = b[2]
        BY <1>2
    <1> QED
        BY <1>2, <1>3 DEF both

LEMMA OneAndThree ==
    ASSUME NEW a \in Seq(Nat), NEW b \in Seq(Nat), Len(a) = 1, Len(b) = 3
    PROVE  /\ a \o b \in Seq(Nat) /\ Len(a \o b) = 4
           /\ (a \o b)[1] = a[1]
           /\ (a \o b)[2] = b[1] /\ (a \o b)[3] = b[2] /\ (a \o b)[4] = b[3]
    <1> DEFINE both == a \o b
    <1>1. /\ both \in Seq(Nat) /\ Len(both) = Len(a) + Len(b)
          /\ \A i \in 1..Len(a) : both[i] = a[i]
          /\ \A i \in 1..Len(b) : both[Len(a) + i] = b[i]
        BY Joined
    <1> HIDE DEF both
    <1>2. /\ both \in Seq(Nat) /\ Len(both) = 4
          /\ \A i \in 1..1 : both[i] = a[i]
          /\ \A i \in 1..3 : both[1 + i] = b[i]
        BY <1>1
    <1>3. /\ both[1] = a[1]
          /\ both[2] = b[1] /\ both[3] = b[2] /\ both[4] = b[3]
        BY <1>2
    <1> QED
        BY <1>2, <1>3 DEF both

LEMMA FourAndOne ==
    ASSUME NEW a \in Seq(Nat), NEW b \in Seq(Nat), Len(a) = 4, Len(b) = 1
    PROVE  /\ a \o b \in Seq(Nat) /\ Len(a \o b) = 5
           /\ (a \o b)[1] = a[1] /\ (a \o b)[2] = a[2] /\ (a \o b)[3] = a[3] /\ (a \o b)[4] = a[4]
           /\ (a \o b)[5] = b[1]
    <1> DEFINE both == a \o b
    <1>1. /\ both \in Seq(Nat) /\ Len(both) = Len(a) + Len(b)
          /\ \A i \in 1..Len(a) : both[i] = a[i]
          /\ \A i \in 1..Len(b) : both[Len(a) + i] = b[i]
        BY Joined
    <1> HIDE DEF both
    <1>2. /\ both \in Seq(Nat) /\ Len(both) = 5
          /\ \A i \in 1..4 : both[i] = a[i]
          /\ \A i \in 1..1 : both[4 + i] = b[i]
        BY <1>1
    <1>3. /\ both[1] = a[1] /\ both[2] = a[2] /\ both[3] = a[3] /\ both[4] = a[4]
          /\ both[5] = b[1]
        BY <1>2
    <1> QED
        BY <1>2, <1>3 DEF both

LEMMA TextIs ==
    ASSUME NEW t \in Instant, NEW w \in 0..2
    PROVE  Len(Text(t, w)) = IF w = 0 THEN 2 ELSE w + 3
    <1> DEFINE first == Seconds(t)
               dot == <<Dot>>
               body == Body(t, w)
               last == <<Zulu>>
    <1>1. /\ first \in Seq(Nat) /\ Len(first) = 1
          /\ dot \in Seq(Nat) /\ Len(dot) = 1
          /\ last \in Seq(Nat) /\ Len(last) = 1
        BY Digits DEF Seconds, Code, Hundreds, Dot, Zulu
    <1>2. body \in Seq(Nat) /\ Len(body) = w
        BY BodyIs
    <1>3. w = 0 => Text(t, w) = first \o last
        <2>1. w = 0 => Text(t, w) = first \o <<>> \o last
            BY DEF Text
        <2> QED
            BY <1>1, <2>1, ConcatEmptySeq
    <1>4. w # 0 => Text(t, w) = first \o (dot \o body) \o last
        BY DEF Text, Body
    <1> HIDE DEF first, dot, body, last
    <1>5. Len(first \o last) = Len(first) + Len(last)
        BY <1>1, Joined
    <1>6. dot \o body \in Seq(Nat) /\ Len(dot \o body) = Len(dot) + Len(body)
        BY <1>1, <1>2, Joined
    <1>7. /\ first \o (dot \o body) \in Seq(Nat)
          /\ Len(first \o (dot \o body)) = Len(first) + Len(dot \o body)
        BY <1>1, <1>6, Joined
    <1>8. Len(first \o (dot \o body) \o last) = Len(first \o (dot \o body)) + Len(last)
        BY <1>1, <1>7, Joined
    <1>9. Len(first \o last) = 2 /\ Len(first \o (dot \o body) \o last) = w + 3
        BY <1>1, <1>2, <1>5, <1>6, <1>7, <1>8
    <1>10. CASE w = 0
        BY <1>3, <1>9, <1>10
    <1>11. CASE w # 0
        BY <1>4, <1>9, <1>11
    <1> QED
        BY <1>10, <1>11

LEMMA FormatIs ==
    ASSUME NEW t \in Instant
    PROVE  /\ formatTime(t)[1] = 48 + Hundreds(t)
           /\ formatTime(t)[2] = 46
           /\ formatTime(t)[3] = 48 + Tens(t)
           /\ formatTime(t)[4] = 48 + Units(t)
    <1> DEFINE first == Seconds(t)
               dot == <<Dot>>
               body == Body(t, 2)
               end == <<Zulu>>
               text == formatTime(t)
               rest == dot \o body
               both == first \o rest
    <1>1. text = both \o end
        BY DEF Text, Body, formatTime
    <1>2. first \in Seq(Nat) /\ Len(first) = 1 /\ first[1] = 48 + Hundreds(t)
        BY Digits DEF Seconds, Code, Hundreds
    <1>3. dot \in Seq(Nat) /\ Len(dot) = 1 /\ dot[1] = 46
        BY DEF Dot
    <1>4. body \in Seq(Nat) /\ Len(body) = 2 /\ body[1] = 48 + Tens(t) /\ body[2] = 48 + Units(t)
        BY BodyIs
    <1>5. end \in Seq(Nat) /\ Len(end) = 1
        BY DEF Zulu
    <1> HIDE DEF first, dot, body, end, text
    <1>6. /\ rest \in Seq(Nat) /\ Len(rest) = 3
          /\ rest[1] = dot[1] /\ rest[2] = body[1] /\ rest[3] = body[2]
        BY <1>3, <1>4, OneAndTwo
    <1> HIDE DEF rest
    <1>7. /\ both \in Seq(Nat) /\ Len(both) = 4
          /\ both[1] = first[1] /\ both[2] = rest[1] /\ both[3] = rest[2] /\ both[4] = rest[3]
        BY <1>2, <1>6, OneAndThree
    <1> HIDE DEF both
    <1>8. text[1] = both[1] /\ text[2] = both[2] /\ text[3] = both[3] /\ text[4] = both[4]
        BY <1>1, <1>5, <1>7, FourAndOne
    <1> QED
        BY <1>2, <1>3, <1>4, <1>6, <1>7, <1>8 DEF text

\* Trimmed writes as many digits as the fraction needs.
LEMMA TrimmedIs ==
    ASSUME NEW t \in Instant
    PROVE  \E w \in 0..2 : Trimmed(t) = Text(t, w)
    <1> DEFINE Enough(w) == /\ \A d \in (w + 1)..2 : Fraction(t)[d] = 0
                            /\ w > 0 => Fraction(t)[w] # 0
    <1>1. \E w \in 0..2 : Enough(w)
        <2>1. CASE Fraction(t)[2] # 0
            BY <2>1
        <2>2. CASE Fraction(t)[2] = 0 /\ Fraction(t)[1] # 0
            <3>1. \A d \in 2..2 : d = 2
                OBVIOUS
            <3>2. Enough(1)
                BY <2>2, <3>1
            <3> QED
                BY <3>2
        <2>3. CASE Fraction(t)[2] = 0 /\ Fraction(t)[1] = 0
            <3>1. \A d \in 1..2 : d = 1 \/ d = 2
                OBVIOUS
            <3>2. Enough(0)
                BY <2>3, <3>1
            <3> QED
                BY <3>2
        <2> QED
            BY <2>1, <2>2, <2>3
    <1>2. Trimmed(t) = Text(t, CHOOSE w \in 0..2 : Enough(w))
        BY DEF Trimmed
    <1> HIDE DEF Enough
    <1> QED
        BY <1>1, <1>2

LEMMA FullLength ==
    ASSUME NEW s \in Stamp, ~Legacy(s)
    PROVE  s \in Sortable
    <1>1. Len(s) = 5
        BY DEF Legacy, sortableTimeLen
    <1>2. ASSUME NEW t \in Instant, s = Trimmed(t)
          PROVE  s = formatTime(t)
        <2>1. PICK w \in 0..2 : Trimmed(t) = Text(t, w)
            BY TrimmedIs
        <2>2. w = 2
            BY <1>1, <1>2, <2>1, TextIs
        <2> QED
            BY <1>2, <2>1, <2>2 DEF formatTime
    <1> QED
        BY <1>2 DEF Stamp, Sortable

LEMMA ReadsBack ==
    ASSUME NEW t \in Instant
    PROVE  parseTime(formatTime(t)) = t
    <1>1. ASSUME NEW u \in Instant, formatTime(t) = formatTime(u)
          PROVE  t = u
        <2>1. /\ Hundreds(t) = Hundreds(u)
              /\ Tens(t) = Tens(u)
              /\ Units(t) = Units(u)
            <3>1. /\ formatTime(t)[1] = formatTime(u)[1]
                  /\ formatTime(t)[3] = formatTime(u)[3]
                  /\ formatTime(t)[4] = formatTime(u)[4]
                BY <1>1
            <3>2. /\ 48 + Hundreds(t) = 48 + Hundreds(u)
                  /\ 48 + Tens(t) = 48 + Tens(u)
                  /\ 48 + Units(t) = 48 + Units(u)
                BY <3>1, FormatIs
            <3> QED
                BY <3>2, Digits
        <2> QED
            BY <2>1, Digits
    <1>2. ASSUME NEW u \in Instant, formatTime(t) = Trimmed(u)
          PROVE  t = u
        <2>1. PICK w \in 0..2 : Trimmed(u) = Text(u, w)
            BY TrimmedIs
        <2>2. Len(formatTime(t)) = 5
            BY TextIs DEF formatTime
        <2>3. w = 2
            BY <1>2, <2>1, <2>2, TextIs
        <2> QED
            BY <1>1, <1>2, <2>1, <2>3 DEF formatTime
    <1>3. \A u \in Instant : formatTime(t) \in {formatTime(u), Trimmed(u)} => u = t
        BY <1>1, <1>2
    <1> QED
        BY <1>3 DEF parseTime

LEMMA DigitsInOrder ==
    ASSUME NEW a \in 0..9, NEW b \in 0..9, NEW c \in 0..9,
           NEW x \in 0..9, NEW y \in 0..9, NEW z \in 0..9,
           Value(a, b, c) < Value(x, y, z)
    PROVE  a < x \/ (a = x /\ b < y) \/ (a = x /\ b = y /\ c < z)
    BY DEF Value

LEMMA InOrder ==
    ASSUME NEW t \in Instant, NEW u \in Instant, t < u
    PROVE  Before(formatTime(t), formatTime(u))
    <1> DEFINE a == formatTime(t)
               b == formatTime(u)
    <1>1. Len(a) = 5 /\ Len(b) = 5
        BY TextIs DEF formatTime
    <1>2. /\ a[1] = 48 + Hundreds(t) /\ a[2] = 46 /\ a[3] = 48 + Tens(t) /\ a[4] = 48 + Units(t)
          /\ b[1] = 48 + Hundreds(u) /\ b[2] = 46 /\ b[3] = 48 + Tens(u) /\ b[4] = 48 + Units(u)
        BY FormatIs
    <1>3. /\ a[1] \in Nat /\ a[3] \in Nat /\ a[4] \in Nat
          /\ b[1] \in Nat /\ b[3] \in Nat /\ b[4] \in Nat
        BY <1>2, Digits
    <1>4. \/ Hundreds(t) < Hundreds(u)
          \/ Hundreds(t) = Hundreds(u) /\ Tens(t) < Tens(u)
          \/ Hundreds(t) = Hundreds(u) /\ Tens(t) = Tens(u) /\ Units(t) < Units(u)
        <2>1. /\ Hundreds(t) \in 0..9 /\ Tens(t) \in 0..9 /\ Units(t) \in 0..9
              /\ t = Value(Hundreds(t), Tens(t), Units(t))
            BY Digits
        <2>2. /\ Hundreds(u) \in 0..9 /\ Tens(u) \in 0..9 /\ Units(u) \in 0..9
              /\ u = Value(Hundreds(u), Tens(u), Units(u))
            BY Digits
        <2>3. Value(Hundreds(t), Tens(t), Units(t))
                 < Value(Hundreds(u), Tens(u), Units(u))
            BY <2>1, <2>2
        <2> QED
            BY <2>1, <2>2, <2>3, DigitsInOrder
    <1>5. \/ a[1] < b[1]
          \/ a[1] = b[1] /\ a[3] < b[3]
          \/ a[1] = b[1] /\ a[3] = b[3] /\ a[4] < b[4]
        BY <1>2, <1>4, Digits
    <1> HIDE DEF a, b
    <1>6. Before(a, b)
        <2>1. CASE a[1] < b[1]
            <3>1. 0 \in 0..Len(a) /\ 0 < Len(b) /\ a[0 + 1] < b[0 + 1]
                BY <1>1, <2>1
            <3> QED
                BY <3>1 DEF Before
        <2>2. CASE a[1] = b[1] /\ a[3] < b[3]
            <3>1. \A i \in 1..2 : a[i] = b[i]
                <4>1. \A i \in 1..2 : i = 1 \/ i = 2
                    OBVIOUS
                <4> QED
                    BY <1>2, <2>2, <4>1
            <3>2. 2 \in 0..Len(a) /\ 2 < Len(b) /\ a[2 + 1] < b[2 + 1]
                BY <1>1, <2>2
            <3> QED
                BY <3>1, <3>2 DEF Before
        <2>3. CASE a[1] = b[1] /\ a[3] = b[3] /\ a[4] < b[4]
            <3>1. \A i \in 1..3 : a[i] = b[i]
                <4>1. \A i \in 1..3 : i = 1 \/ i = 2 \/ i = 3
                    OBVIOUS
                <4> QED
                    BY <1>2, <2>3, <4>1
            <3>2. 3 \in 0..Len(a) /\ 3 < Len(b) /\ a[3 + 1] < b[3 + 1]
                BY <1>1, <2>3
            <3> QED
                BY <3>1, <3>2 DEF Before
        <2> QED
            BY <1>5, <2>1, <2>2, <2>3
    <1> QED
        BY <1>6 DEF a, b

\* A file without legacy stamps lists its charges in the order of their instants.
LEMMA SortsByInstant ==
    ASSUME NEW charges, Unsorted(charges) = {}
    PROVE  Chronological(charges)
    <1>1. ASSUME NEW x \in Txid, charges[x] # NoCharge
          PROVE  \E t \in Instant : charges[x] = formatTime(t) /\ parseTime(charges[x]) = t
        BY <1>1, ReadsBack DEF Unsorted, Sortable
    <1> QED
        BY <1>1, InOrder DEF Chronological

-----------------------------------------------------------------------------
(***************************************************************************)
(* Types, and who holds the write lock.                                    *)
(***************************************************************************)
LEMMA StampsParse ==
    ASSUME NEW s \in Stamp
    PROVE  parseTime(s) \in Instant /\ formatTime(parseTime(s)) \in Stamp \cap Sortable
    <1>1. \E t \in Instant : s \in {formatTime(t), Trimmed(t)}
        BY DEF Stamp
    <1>2. parseTime(s) \in Instant
        BY <1>1 DEF parseTime
    <1> QED
        BY <1>2 DEF Stamp, Sortable

LEMMA TypeFollows ==
    ASSUME TypeInv, NEW p \in Proc, NEW q, Sound(q),
           proc' = [proc EXCEPT ![p] = q], disk' \in Disk,
           \/ lock' = lock /\ (lock = p => q.pc \in InTx)
           \/ lock' = p /\ q.pc \in InTx
           \/ lock' = Unlocked(p)
    PROVE  TypeInv'
    <1> USE MigrateAssumption DEF TypeInv
    <1>1. proc' \in [Proc -> Locals]
        BY DEF Sound
    <1>2. proc'[p] = q /\ \A o \in Proc \ {p} : proc'[o] = proc[o]
        OBVIOUS
    <1>3. lock' \in Proc \cup {NoOne}
        BY DEF Unlocked
    <1>4. \A o \in Proc : Sound(proc'[o])
        BY <1>2
    <1>5. lock' # NoOne => proc'[lock'].pc \in InTx
        BY <1>2, <1>3 DEF Unlocked
    <1> QED
        BY <1>1, <1>3, <1>4, <1>5

\* A step that only moves on.
LEMMA GotoSound ==
    ASSUME TypeInv, NEW p \in Proc, NEW pc, Goto(p, pc), disk' \in Disk,
           pc \in {"version", "normalize", "update", "failed", "ready"},
           \/ lock' = lock /\ (lock = p => pc \in InTx)
           \/ lock' = Unlocked(p)
    PROVE  TypeInv'
    <1> DEFINE q == [proc[p] EXCEPT !.pc = pc]
    <1>1. proc[p] \in Locals
        BY DEF TypeInv
    <1>2. q \in Locals /\ q.pc = pc
        BY <1>1 DEF Locals, Booting, InTx
    <1>3. proc' = [proc EXCEPT ![p] = q]
        BY DEF Goto
    <1> HIDE DEF q
    <1>4. Sound(q)
        BY <1>2 DEF Sound, InFile
    <1> QED
        BY <1>2, <1>3, <1>4, TypeFollows

LEMMA TypeInit ==
    Init => TypeInv
    <1> SUFFICES ASSUME Init PROVE TypeInv
        OBVIOUS
    <1>1. disk \in Disk
        BY DEF Init, Database
    <1>2. Down(disk) \in Locals /\ Down(disk).pc = "down"
        BY <1>1 DEF Down, Locals, Files
    <1>3. \A p \in Proc : proc[p] = Down(disk)
        BY DEF Init
    <1> QED
        BY <1>1, <1>2, <1>3 DEF Init, TypeInv, Sound, InFile

\* What the types say of one process.
LEMMA ProcIs ==
    ASSUME TypeInv, NEW p \in Proc
    PROVE  /\ proc[p] \in Locals /\ Sound(proc[p])
           /\ proc[p].pc \in Booting \cup {"down", "failed", "ready"}
           /\ proc[p].file \in 0..4 /\ proc[p].seen \in Disk /\ proc[p].work \in Disk
           /\ proc[p].rows \subseteq Txid /\ proc[p].fixes \subseteq Txid \X Stamp
           /\ disk \in Disk /\ lock \in Proc \cup {NoOne}
           /\ lock = p => proc[p].pc \in InTx
    BY MigrateAssumption DEF TypeInv, Locals, Files

LEMMA VersionTypes ==
    ASSUME TypeInv, NEW p \in Proc, ReadVersion(p)
    PROVE  TypeInv'
    <1>1. lock # p
        BY ProcIs DEF ReadVersion, InTx
    <1>2. CASE disk.version > Files /\ Goto(p, "failed")
        BY <1>1, <1>2, ProcIs, GotoSound DEF ReadVersion
    <1>3. CASE disk.version <= Files
               /\ proc' = [proc EXCEPT ![p].pc = "files", ![p].file = disk.version + 1]
        <2> DEFINE next == disk.version + 1
                   q == [proc[p] EXCEPT !.pc = "files", !.file = next]
        <2>1. proc' = [proc EXCEPT ![p] = q] /\ UNCHANGED <<disk, lock>>
            BY <1>3 DEF ReadVersion
        <2>2. next \in 1..(Files + 1) /\ next \in 0..(Files + 1)
            BY <1>3, ProcIs DEF Disk, Files
        <2> HIDE DEF next
        <2>3. q \in Locals /\ q.pc = "files" /\ q.file = next
            BY <2>2, ProcIs DEF Locals, Booting
        <2> HIDE DEF q
        <2>4. Sound(q)
            BY <2>2, <2>3 DEF Sound, InFile
        <2> QED
            BY <1>1, <2>1, <2>4, ProcIs, TypeFollows
    <1> QED
        BY <1>2, <1>3 DEF ReadVersion

LEMMA BeginTypes ==
    ASSUME TypeInv, NEW p \in Proc, Begin(p)
    PROVE  TypeInv'
    <1> DEFINE q == [proc[p] EXCEPT !.pc = "apply"]
    <1>1. proc' = [proc EXCEPT ![p] = q] /\ UNCHANGED <<disk, lock>> /\ lock # p
        BY ProcIs DEF Begin, Goto, InTx
    <1>2. q \in Locals /\ q.pc = "apply" /\ q.file = proc[p].file
        BY ProcIs DEF Locals, Booting, InTx
    <1>3. proc[p].file \in File
        BY ProcIs DEF Begin, Sound, File, Files
    <1> HIDE DEF q
    <1>4. Sound(q)
        BY <1>2, <1>3 DEF Sound
    <1> QED
        BY <1>1, <1>4, ProcIs, TypeFollows

LEMMA ApplyTypes ==
    ASSUME TypeInv, NEW p \in Proc, Apply(p)
    PROVE  TypeInv'
    <1> DEFINE copy == [disk EXCEPT !.schema = @ \cup {proc[p].file}]
               q == [proc[p] EXCEPT !.pc = "bump", !.seen = disk, !.work = copy]
    <1>1. proc' = [proc EXCEPT ![p] = q] /\ UNCHANGED disk
        BY DEF Apply
    <1>2. proc[p].file \in File
        BY ProcIs DEF Apply, Sound, InFile
    <1>3. copy \in Disk
        BY <1>2, ProcIs DEF Disk, File, Files
    <1> HIDE DEF copy
    <1>4. q \in Locals /\ q.pc = "bump" /\ q.file = proc[p].file
        BY <1>3, ProcIs DEF Locals, Booting, InTx
    <1> HIDE DEF q
    <1>5. Sound(q)
        BY <1>2, <1>4 DEF Sound
    <1>6. lock' = lock \/ lock' = p
        BY DEF Apply
    <1>7. q.pc \in InTx
        BY <1>4 DEF InTx
    <1> QED
        BY <1>1, <1>5, <1>6, <1>7, ProcIs, TypeFollows

LEMMA BumpTypes ==
    ASSUME TypeInv, NEW p \in Proc, Bump(p)
    PROVE  TypeInv'
    <1> DEFINE copy == [proc[p].work EXCEPT !.version = proc[p].file]
               q == [proc[p] EXCEPT !.pc = "commit", !.work = copy]
    <1>1. proc' = [proc EXCEPT ![p] = q] /\ UNCHANGED disk /\ lock' = p
        BY DEF Bump, Bumped
    <1>2. proc[p].file \in File
        BY ProcIs DEF Bump, Sound, InFile
    <1>3. copy \in Disk
        <2>1. proc[p].file \in 0..(Files + 1)
            BY <1>2 DEF File, Files
        <2>2. proc[p].work \in Disk
            BY ProcIs
        <2> QED
            BY <2>1, <2>2 DEF Disk
    <1> HIDE DEF copy
    <1>4. q \in Locals /\ q.pc = "commit" /\ q.file = proc[p].file
        BY <1>3, ProcIs DEF Locals, Booting, InTx
    <1> HIDE DEF q
    <1>5. Sound(q)
        BY <1>2, <1>4 DEF Sound
    <1>6. q.pc \in InTx
        BY <1>4 DEF InTx
    <1> QED
        BY <1>1, <1>5, <1>6, ProcIs, TypeFollows

LEMMA CommitTypes ==
    ASSUME TypeInv, NEW p \in Proc, Commit(p)
    PROVE  TypeInv'
    <1> DEFINE next == proc[p].file + 1
               q == [proc[p] EXCEPT !.pc = "files", !.file = next]
    <1>1. /\ proc' = [proc EXCEPT ![p] = q]
          /\ disk' = proc[p].work /\ lock' = Unlocked(p)
        BY DEF Commit
    <1>2. next \in 1..(Files + 1) /\ next \in 0..(Files + 1)
        BY ProcIs DEF Commit, Sound, InFile, File, Files
    <1> HIDE DEF next
    <1>3. q \in Locals /\ q.pc = "files" /\ q.file = next
        BY <1>2, ProcIs DEF Locals, Booting
    <1> HIDE DEF q
    <1>4. Sound(q)
        BY <1>2, <1>3 DEF Sound, InFile
    <1> QED
        BY <1>1, <1>4, ProcIs, TypeFollows

LEMMA ScanTypes ==
    ASSUME TypeInv, NEW p \in Proc, Scan(p)
    PROVE  TypeInv'
    <1> DEFINE legacy == {x \in Txid : disk.charges[x] # NoCharge /\ Legacy(disk.charges[x])}
               q == [proc[p] EXCEPT !.pc = "scan", !.fixes = {}, !.rows = legacy, !.seen = disk]
    <1>1. proc' = [proc EXCEPT ![p] = q] /\ UNCHANGED <<disk, lock>> /\ lock # p
        BY ProcIs DEF Scan, InTx
    <1>2. legacy \subseteq Txid /\ \A x \in legacy : disk.charges[x] # NoCharge
        OBVIOUS
    <1> HIDE DEF legacy
    <1>3. q \in Locals /\ q.pc = "scan" /\ q.rows = legacy /\ q.seen = disk
        <2>1. proc[p] \in Locals /\ disk \in Disk
            BY ProcIs
        <2>2. "scan" \in Booting
            BY DEF Booting
        <2> QED
            BY <1>2, <2>1, <2>2 DEF Locals
    <1> HIDE DEF q
    <1>4. Sound(q)
        BY <1>2, <1>3 DEF Sound, InFile
    <1> QED
        BY <1>1, <1>4, ProcIs, TypeFollows

LEMMA ScanRowTypes ==
    ASSUME TypeInv, NEW p \in Proc, ScanRow(p)
    PROVE  TypeInv'
    <1>1. PICK x \in proc[p].rows :
             proc' = [proc EXCEPT
                        ![p].rows = @ \ {x},
                        ![p].fixes = @ \cup {<<x, formatTime(parseTime(proc[p].seen.charges[x]))>>}]
        BY DEF ScanRow
    <1> DEFINE stamp == formatTime(parseTime(proc[p].seen.charges[x]))
               q == [proc[p] EXCEPT !.rows = @ \ {x}, !.fixes = @ \cup {<<x, stamp>>}]
    <1>2. proc' = [proc EXCEPT ![p] = q] /\ UNCHANGED <<disk, lock>> /\ lock # p
        BY <1>1, ProcIs DEF ScanRow, InTx
    <1>3. x \in Txid /\ proc[p].seen.charges[x] \in Stamp
        BY ProcIs DEF ScanRow, Sound, Disk
    <1>4. stamp \in Stamp
        BY <1>3, StampsParse
    <1> HIDE DEF stamp
    <1> DEFINE left == proc[p].rows \ {x}
               wanted == proc[p].fixes \cup {<<x, stamp>>}
    <1>9. left \subseteq Txid /\ wanted \subseteq Txid \X Stamp
        BY <1>3, <1>4, ProcIs
    <1> HIDE DEF left, wanted
    <1>5. /\ q \in Locals /\ q.pc = proc[p].pc
          /\ q.rows = proc[p].rows \ {x} /\ q.seen = proc[p].seen
        BY <1>9, ProcIs DEF Locals, left, wanted
    <1>6. proc[p].pc = "scan" /\ \A y \in proc[p].rows : proc[p].seen.charges[y] # NoCharge
        BY ProcIs DEF ScanRow, Sound
    <1> HIDE DEF q
    <1>7. Sound(q)
        BY <1>5, <1>6 DEF Sound, InFile
    <1> QED
        BY <1>2, <1>7, ProcIs, TypeFollows

LEMMA UpdateTypes ==
    ASSUME TypeInv, NEW p \in Proc, Update(p)
    PROVE  TypeInv'
    <1> DEFINE base == IF lock = p THEN proc[p].work ELSE disk
    <1>1. PICK fix \in proc[p].fixes :
             proc' = [proc EXCEPT ![p].fixes = @ \ {fix},
                                  ![p].work = [base EXCEPT !.charges[fix[1]] = fix[2]]]
        BY DEF Update
    <1> DEFINE copy == [base EXCEPT !.charges[fix[1]] = fix[2]]
               q == [proc[p] EXCEPT !.fixes = @ \ {fix}, !.work = copy]
    <1>2. proc' = [proc EXCEPT ![p] = q] /\ UNCHANGED disk /\ lock' = p
        BY <1>1 DEF Update
    <1>3. base \in Disk
        BY ProcIs
    <1>4. fix[1] \in Txid /\ fix[2] \in Stamp
        BY ProcIs
    <1> HIDE DEF base
    <1>5. copy \in Disk
        BY <1>3, <1>4 DEF Disk
    <1> HIDE DEF copy
    <1>6. q \in Locals /\ q.pc = proc[p].pc /\ proc[p].pc = "update"
        BY <1>5, ProcIs DEF Locals, Update
    <1> HIDE DEF q
    <1>7. Sound(q) /\ q.pc \in InTx
        BY <1>6 DEF Sound, InFile, InTx
    <1> QED
        BY <1>2, <1>7, ProcIs, TypeFollows

LEMMA TypeStep ==
    ASSUME TypeInv, [Next]_vars
    PROVE  TypeInv'
    <1>1. CASE UNCHANGED vars
        BY <1>1 DEF vars, TypeInv
    <1>2. ASSUME NEW p \in Proc, Start(p)
          PROVE  TypeInv'
        BY <1>2, ProcIs, GotoSound DEF Start, InTx
    <1>3. ASSUME NEW p \in Proc, ScanEnds(p)
          PROVE  TypeInv'
        BY <1>3, ProcIs, GotoSound DEF ScanEnds, InTx
    <1>4. ASSUME NEW p \in Proc, BeginFixes(p)
          PROVE  TypeInv'
        BY <1>4, ProcIs, GotoSound DEF BeginFixes, InTx
    <1>5. ASSUME NEW p \in Proc, CommitFixes(p)
          PROVE  TypeInv'
        BY <1>5, ProcIs, GotoSound DEF CommitFixes
    <1>6. ASSUME NEW p \in Proc, Fails(p)
          PROVE  TypeInv'
        BY <1>6, ProcIs, GotoSound DEF Fails
    <1>7. ASSUME NEW p \in Proc, Crash(p)
          PROVE  TypeInv'
        <2>1. Down(disk) \in Locals /\ Down(disk).pc = "down"
            BY <1>7, ProcIs DEF Down, Locals, Files
        <2>2. Sound(Down(disk))
            BY <2>1 DEF Sound, InFile
        <2> QED
            BY <1>7, <2>2, ProcIs, TypeFollows DEF Crash
    <1>8. ASSUME NEW p \in Proc, WriteCharge(p)
          PROVE  TypeInv'
        <2>1. disk' \in Disk
            BY <1>8, ProcIs DEF WriteCharge, Disk, Stamp
        <2> QED
            BY <1>8, <2>1 DEF WriteCharge, TypeInv
    <1> QED
        BY <1>1, <1>2, <1>3, <1>4, <1>5, <1>6, <1>7, <1>8, VersionTypes, BeginTypes, ApplyTypes,
           BumpTypes, CommitTypes, ScanTypes, ScanRowTypes, UpdateTypes DEF Next, Open

\* Every variable keeps its type, and the write lock belongs to a transaction that
\* is still open, whether boots overlap or not.
THEOREM MigrateTyped == Spec => []MigrateTypeOK
    <1>1. Init => TypeInv
        BY TypeInit
    <1>2. TypeInv /\ [Next]_vars => TypeInv'
        BY TypeStep
    <1>3. TypeInv => MigrateTypeOK
        BY ProcIs DEF TypeInv, MigrateTypeOK, Files
    <1> QED
        BY <1>1, <1>2, <1>3, PTL DEF Spec

-----------------------------------------------------------------------------
(***************************************************************************)
(* One boot at a time.                                                     *)
(***************************************************************************)
\* A process that does not boot holds nothing the file could contradict.
LEMMA IdleKnows ==
    ASSUME NEW p, NEW q, NEW d, NEW holder, q.pc \notin Booting
    PROVE  Applying(q, d) /\ Rewriting(p, q, d, holder)
    BY DEF Applying, Rewriting, Booting, InTx, InFile

\* A step of p that leaves the file.
LEMMA BootFollows ==
    ASSUME TypeInv, BootInv, NEW p \in Proc, NEW q, proc' = [proc EXCEPT ![p] = q],
           disk' = disk, q.pc \in Booting => proc[p].pc \in Booting,
           \A o \in Proc \ {p} : lock' = o <=> lock = o,
           Applying(q, disk), Rewriting(p, q, disk, lock'), q.pc = "ready" => Whole(disk)
    PROVE  BootInv'
    <1>1. proc'[p] = q /\ \A o \in Proc \ {p} : proc'[o] = proc[o]
        BY DEF TypeInv
    <1>2. OneBoots'
        BY <1>1 DEF BootInv, OneBoots
    <1>3. AppliedCount'
        BY DEF BootInv, AppliedCount
    <1>4. ASSUME NEW o \in Proc \ {p}
          PROVE  Rewriting(o, proc[o], disk, lock')
        BY <1>4 DEF BootInv, Rewriting
    <1> QED
        BY <1>1, <1>2, <1>3, <1>4 DEF BootInv

\* A step of p that writes the file: the others do not boot, and those that serve
\* must not notice.
LEMMA BootWrites ==
    ASSUME TypeInv, BootInv, NEW p \in Proc, NEW q, proc' = [proc EXCEPT ![p] = q],
           proc[p].pc \in Booting, disk'.schema = 1..disk'.version,
           Applying(q, disk'), Rewriting(p, q, disk', lock'), q.pc = "ready" => Whole(disk'),
           \A o \in Proc : proc[o].pc = "ready" => Whole(disk')
    PROVE  BootInv'
    <1>1. proc'[p] = q /\ \A o \in Proc \ {p} : proc'[o] = proc[o]
        BY DEF TypeInv
    <1>2. \A o \in Proc \ {p} : proc[o].pc \notin Booting
        BY DEF BootInv, OneBoots
    <1>3. OneBoots'
        BY <1>1, <1>2 DEF OneBoots
    <1>4. AppliedCount'
        BY DEF AppliedCount
    <1> QED
        BY <1>1, <1>2, <1>3, <1>4, IdleKnows DEF BootInv

LEMMA LocksOfOthers ==
    ASSUME TypeInv, NEW p \in Proc,
           \/ lock' = lock
           \/ lock' = p /\ Writable(p)
           \/ lock' = Unlocked(p)
    PROVE  \A o \in Proc \ {p} : lock' = o <=> lock = o
    BY MigrateAssumption DEF TypeInv, Writable, Unlocked

LEMMA GotoBoots ==
    ASSUME TypeInv, BootInv, NEW p \in Proc, NEW pc, Goto(p, pc), disk' = disk,
           pc \in {"version", "apply", "failed", "ready", "normalize", "update"},
           pc \in Booting => proc[p].pc \in Booting,
           lock' = lock \/ lock' = Unlocked(p),
           pc = "apply" => proc[p].file = disk.version + 1,
           pc \in {"normalize", "update"} =>
              /\ lock' # p /\ disk.version = Files
              /\ \A fix \in proc[p].fixes : fix[2] \in Sortable
              /\ Unsorted(disk.charges) \subseteq Fixed(proc[p]) /\ proc[p].fixes # {},
           pc = "ready" => Whole(disk)
    PROVE  BootInv'
    <1> DEFINE q == [proc[p] EXCEPT !.pc = pc]
    <1>1. proc' = [proc EXCEPT ![p] = q]
        BY DEF Goto
    <1>2. q.pc = pc /\ q.file = proc[p].file /\ q.fixes = proc[p].fixes
        BY ProcIs DEF Locals
    <1> HIDE DEF q
    <1>3. Fixed(q) = Fixed(proc[p])
        BY <1>2 DEF Fixed
    <1>4. Applying(q, disk)
        BY <1>2 DEF Applying, InFile
    <1>5. Rewriting(p, q, disk, lock')
        BY <1>2, <1>3 DEF Rewriting
    <1>6. \A o \in Proc \ {p} : lock' = o <=> lock = o
        BY LocksOfOthers
    <1> QED
        BY <1>1, <1>2, <1>4, <1>5, <1>6, BootFollows

\* The file after the last one applied, and nobody serves before the third.
LEMMA WhileApplying ==
    ASSUME TypeInv, BootInv, NEW p \in Proc, proc[p].pc \in InFile
    PROVE  /\ proc[p].file = disk.version + 1 /\ disk.version \in 0..2
           /\ disk.schema = 1..disk.version
           /\ \A o \in Proc : proc[o].pc # "ready"
    <1>1. proc[p].file = disk.version + 1 /\ disk.schema = 1..disk.version
        BY DEF BootInv, Applying, AppliedCount
    <1>2. proc[p].file \in 1..3 /\ disk.version \in 0..4
        BY ProcIs DEF Sound, File, Files, Disk
    <1>3. disk.version \in 0..2
        BY <1>1, <1>2
    <1> QED
        BY <1>1, <1>3 DEF BootInv, Whole, Files

LEMMA StartBoots ==
    ASSUME ~Overlap, TypeInv, BootInv, NEW p \in Proc, Start(p)
    PROVE  BootInv'
    <1> DEFINE q == [proc[p] EXCEPT !.pc = "version"]
    <1>1. proc' = [proc EXCEPT ![p] = q] /\ UNCHANGED <<disk, lock>>
        BY DEF Start, Goto
    <1>2. q.pc = "version"
        BY ProcIs DEF Locals
    <1>3. \A o \in Proc : proc[o].pc \notin Booting
        BY DEF Start
    <1> HIDE DEF q
    <1>4. proc'[p] = q /\ \A o \in Proc \ {p} : proc'[o] = proc[o]
        BY <1>1 DEF TypeInv
    <1>5. OneBoots'
        BY <1>3, <1>4 DEF OneBoots
    <1>6. Applying(q, disk) /\ Rewriting(p, q, disk, lock)
        BY <1>2 DEF Applying, Rewriting, InFile
    <1>7. AppliedCount'
        BY <1>1 DEF BootInv, AppliedCount
    <1> QED
        BY <1>1, <1>2, <1>4, <1>5, <1>6, <1>7 DEF BootInv

LEMMA VersionBoots ==
    ASSUME TypeInv, BootInv, NEW p \in Proc, ReadVersion(p)
    PROVE  BootInv'
    <1>1. CASE Goto(p, "failed")
        BY <1>1, GotoBoots DEF ReadVersion, Booting, InTx
    <1>2. CASE /\ disk.version <= Files
               /\ proc' = [proc EXCEPT ![p].pc = "files", ![p].file = disk.version + 1]
        <2> DEFINE next == disk.version + 1
                   q == [proc[p] EXCEPT !.pc = "files", !.file = next]
        <2>1. proc' = [proc EXCEPT ![p] = q] /\ UNCHANGED <<disk, lock>>
            BY <1>2 DEF ReadVersion
        <2>2. q.pc = "files" /\ q.file = disk.version + 1
            BY ProcIs DEF Locals
        <2> HIDE DEF q, next
        <2>3. Applying(q, disk) /\ Rewriting(p, q, disk, lock)
            BY <2>2 DEF Applying, Rewriting, InFile
        <2>4. proc[p].pc \in Booting
            BY DEF ReadVersion, Booting
        <2> QED
            BY <2>1, <2>2, <2>3, <2>4, BootFollows
    <1> QED
        BY <1>1, <1>2 DEF ReadVersion

LEMMA ApplyBoots ==
    ASSUME TypeInv, BootInv, NEW p \in Proc, Apply(p)
    PROVE  BootInv'
    <1> DEFINE copy == [disk EXCEPT !.schema = @ \cup {proc[p].file}]
               q == [proc[p] EXCEPT !.pc = "bump", !.seen = disk, !.work = copy]
    <1>1. proc' = [proc EXCEPT ![p] = q] /\ UNCHANGED disk
        BY DEF Apply
    <1>2. /\ proc[p].file = disk.version + 1 /\ disk.version \in 0..2
          /\ disk.schema = 1..disk.version
        BY WhileApplying DEF Apply, InFile
    <1>3. copy.schema = 1..proc[p].file
        <2>1. copy.schema = disk.schema \cup {proc[p].file}
            BY ProcIs DEF Disk
        <2> HIDE DEF copy
        <2> QED
            BY <1>2, <2>1
    <1> HIDE DEF copy
    <1>4. q.pc = "bump" /\ q.file = proc[p].file /\ q.work = copy
        BY ProcIs DEF Locals
    <1> HIDE DEF q
    <1>5. Applying(q, disk) /\ Rewriting(p, q, disk, lock')
        BY <1>2, <1>3, <1>4 DEF Applying, Rewriting
    <1>6. \A o \in Proc \ {p} : lock' = o <=> lock = o
        BY LocksOfOthers DEF Apply
    <1>7. proc[p].pc \in Booting /\ q.pc # "ready"
        BY <1>4 DEF Apply, Booting, InTx
    <1> QED
        BY <1>1, <1>5, <1>6, <1>7, BootFollows

LEMMA BumpBoots ==
    ASSUME TypeInv, BootInv, NEW p \in Proc, Bump(p)
    PROVE  BootInv'
    <1> DEFINE copy == [proc[p].work EXCEPT !.version = proc[p].file]
               q == [proc[p] EXCEPT !.pc = "commit", !.work = copy]
    <1>1. proc' = [proc EXCEPT ![p] = q] /\ UNCHANGED disk /\ lock' = p /\ Writable(p)
        BY DEF Bump, Bumped
    <1>2. proc[p].file = disk.version + 1
        BY WhileApplying DEF Bump, InFile
    <1>3. copy.schema = 1..proc[p].file /\ copy.version = proc[p].file
        <2>1. proc[p].work.schema = 1..proc[p].file
            BY DEF Bump, BootInv, Applying
        <2> QED
            BY <2>1, ProcIs DEF Disk
    <1> HIDE DEF copy
    <1>4. q.pc = "commit" /\ q.file = proc[p].file /\ q.work = copy
        BY ProcIs DEF Locals
    <1> HIDE DEF q
    <1>5. Applying(q, disk) /\ Rewriting(p, q, disk, lock')
        BY <1>2, <1>3, <1>4 DEF Applying, Rewriting
    <1>6. \A o \in Proc \ {p} : lock' = o <=> lock = o
        BY <1>1, LocksOfOthers
    <1>7. proc[p].pc \in Booting /\ q.pc # "ready"
        BY <1>4 DEF Bump, Booting, InTx
    <1> QED
        BY <1>1, <1>5, <1>6, <1>7, BootFollows

LEMMA CommitBoots ==
    ASSUME TypeInv, BootInv, NEW p \in Proc, Commit(p)
    PROVE  BootInv'
    <1> DEFINE next == proc[p].file + 1
               q == [proc[p] EXCEPT !.pc = "files", !.file = next]
    <1>1. proc' = [proc EXCEPT ![p] = q] /\ disk' = proc[p].work
        BY DEF Commit
    <1>2. proc[p].work.schema = 1..proc[p].file /\ proc[p].work.version = proc[p].file
        BY DEF Commit, BootInv, Applying
    <1>3. \A o \in Proc : proc[o].pc # "ready"
        BY WhileApplying DEF Commit, InFile
    <1>4. q.pc = "files" /\ q.file = next
        BY ProcIs DEF Locals
    <1> HIDE DEF q
    <1>5. Applying(q, disk') /\ Rewriting(p, q, disk', lock')
        BY <1>1, <1>2, <1>4 DEF Applying, Rewriting, InFile
    <1>6. proc[p].pc \in Booting /\ q.pc # "ready"
        BY <1>4 DEF Commit, Booting, InTx
    <1>7. disk'.schema = 1..disk'.version
        BY <1>1, <1>2
    <1> QED
        BY <1>1, <1>3, <1>5, <1>6, <1>7, BootWrites

\* A rewrite begins over a file that has every migration.
LEMMA ScanBoots ==
    ASSUME TypeInv, BootInv, NEW p \in Proc, Scan(p)
    PROVE  BootInv'
    <1> DEFINE legacy == {x \in Txid : disk.charges[x] # NoCharge /\ Legacy(disk.charges[x])}
               q == [proc[p] EXCEPT !.pc = "scan", !.fixes = {}, !.rows = legacy, !.seen = disk]
    <1>1. proc' = [proc EXCEPT ![p] = q] /\ UNCHANGED <<disk, lock>>
        BY DEF Scan
    <1>2. disk.version = Files
        <2>1. proc[p].file = disk.version + 1 /\ proc[p].file > Files
            BY DEF Scan, BootInv, Applying
        <2> QED
            BY <2>1, ProcIs DEF Disk, Files
    <1>3. Unsorted(disk.charges) \subseteq legacy
        BY ProcIs, FullLength DEF Unsorted, Disk
    <1> HIDE DEF legacy
    <1>4. q.pc = "scan" /\ q.fixes = {} /\ q.rows = legacy
        <2>1. proc[p] \in Locals
            BY ProcIs
        <2> QED
            BY <2>1 DEF Locals
    <1> HIDE DEF q
    <1>5. Applying(q, disk) /\ Rewriting(p, q, disk, lock)
        BY <1>2, <1>3, <1>4 DEF Applying, Rewriting, InFile
    <1>6. proc[p].pc \in Booting
        BY DEF Scan, Booting
    <1> QED
        BY <1>1, <1>4, <1>5, <1>6, BootFollows

LEMMA ScanRowBoots ==
    ASSUME TypeInv, BootInv, NEW p \in Proc, ScanRow(p)
    PROVE  BootInv'
    <1>1. PICK x \in proc[p].rows :
             proc' = [proc EXCEPT
                        ![p].rows = @ \ {x},
                        ![p].fixes = @ \cup {<<x, formatTime(parseTime(proc[p].seen.charges[x]))>>}]
        BY DEF ScanRow
    <1> DEFINE stamp == formatTime(parseTime(proc[p].seen.charges[x]))
               left == proc[p].rows \ {x}
               wanted == proc[p].fixes \cup {<<x, stamp>>}
               q == [proc[p] EXCEPT !.rows = left, !.fixes = wanted]
    <1>2. proc' = [proc EXCEPT ![p] = q] /\ UNCHANGED <<disk, lock>>
        BY <1>1 DEF ScanRow
    <1>3. stamp \in Sortable
        <2>1. proc[p].seen.charges[x] \in Stamp
            BY ProcIs DEF ScanRow, Sound, Disk
        <2> QED
            BY <2>1, StampsParse
    <1>4. q.pc = proc[p].pc /\ q.rows = left /\ q.fixes = wanted /\ proc[p].pc = "scan"
        BY ProcIs DEF Locals, ScanRow
    <1>5. /\ disk.version = Files /\ \A fix \in proc[p].fixes : fix[2] \in Sortable
          /\ Unsorted(disk.charges) \subseteq proc[p].rows \cup Fixed(proc[p])
        BY <1>4 DEF BootInv, Rewriting
    <1> HIDE DEF stamp, q
    <1>6. \A fix \in wanted : fix[2] \in Sortable
        BY <1>3, <1>5
    <1>7. proc[p].rows \cup Fixed(proc[p]) \subseteq left \cup Fixed(q)
        <2>1. ASSUME NEW y \in Fixed(proc[p])
              PROVE  y \in Fixed(q)
            BY <1>4 DEF Fixed
        <2>2. x \in Fixed(q)
            <3>1. <<x, stamp>> \in q.fixes /\ <<x, stamp>>[1] = x
                BY <1>4
            <3>2. x \in Txid
                BY ProcIs
            <3> QED
                BY <3>1, <3>2 DEF Fixed
        <2> QED
            BY <2>1, <2>2
    <1> HIDE DEF left, wanted
    <1>8. Applying(q, disk) /\ Rewriting(p, q, disk, lock)
        BY <1>4, <1>5, <1>6, <1>7 DEF Applying, Rewriting, InFile
    <1>9. proc[p].pc \in Booting /\ q.pc # "ready"
        BY <1>4 DEF Booting
    <1> QED
        BY <1>2, <1>8, <1>9, BootFollows

LEMMA ScanEndsBoots ==
    ASSUME TypeInv, BootInv, NEW p \in Proc, ScanEnds(p)
    PROVE  BootInv'
    <1>1. proc[p].pc = "scan" /\ proc[p].rows = {} /\ UNCHANGED <<disk, lock>>
        BY DEF ScanEnds, AllRowsRead
    <1>2. /\ disk.version = Files /\ \A fix \in proc[p].fixes : fix[2] \in Sortable
          /\ Unsorted(disk.charges) \subseteq Fixed(proc[p])
        BY <1>1 DEF BootInv, Rewriting
    <1>3. lock # p /\ proc[p].pc \in Booting
        BY <1>1, ProcIs DEF InTx, Booting
    <1>4. CASE proc[p].fixes = {}
        <2>1. Whole(disk)
            BY <1>2, <1>4 DEF Whole, Fixed
        <2> QED
            BY <1>1, <1>3, <1>4, <2>1, GotoBoots DEF ScanEnds
    <1>5. CASE proc[p].fixes # {}
        BY <1>1, <1>2, <1>3, <1>5, GotoBoots DEF ScanEnds
    <1> QED
        BY <1>4, <1>5

LEMMA BeginFixesBoots ==
    ASSUME TypeInv, BootInv, NEW p \in Proc, BeginFixes(p)
    PROVE  BootInv'
    <1>1. proc[p].pc = "normalize" /\ UNCHANGED <<disk, lock>> /\ Goto(p, "update")
        BY DEF BeginFixes
    <1>2. /\ disk.version = Files /\ \A fix \in proc[p].fixes : fix[2] \in Sortable
          /\ Unsorted(disk.charges) \subseteq Fixed(proc[p]) /\ proc[p].fixes # {}
        BY <1>1 DEF BootInv, Rewriting
    <1>3. lock # p /\ proc[p].pc \in Booting
        BY <1>1, ProcIs DEF InTx, Booting
    <1> QED
        BY <1>1, <1>2, <1>3, GotoBoots

\* A rewritten row is sortable, and the others are as they were.
LEMMA UpdateBoots ==
    ASSUME TypeInv, BootInv, NEW p \in Proc, Update(p)
    PROVE  BootInv'
    <1> DEFINE base == IF lock = p THEN proc[p].work ELSE disk
    <1>1. PICK fix \in proc[p].fixes :
             proc' = [proc EXCEPT ![p].fixes = @ \ {fix},
                                  ![p].work = [base EXCEPT !.charges[fix[1]] = fix[2]]]
        BY DEF Update
    <1> DEFINE copy == [base EXCEPT !.charges[fix[1]] = fix[2]]
               left == proc[p].fixes \ {fix}
               q == [proc[p] EXCEPT !.fixes = left, !.work = copy]
    <1>2. /\ proc' = [proc EXCEPT ![p] = q] /\ UNCHANGED disk
          /\ lock' = p /\ Writable(p) /\ proc[p].pc = "update"
        BY <1>1 DEF Update
    <1>3. /\ disk.version = Files /\ \A f \in proc[p].fixes : f[2] \in Sortable
          /\ lock # p => Unsorted(disk.charges) \subseteq Fixed(proc[p])
          /\ lock = p => /\ Unsorted(proc[p].work.charges) \subseteq Fixed(proc[p])
                         /\ proc[p].work.version = Files /\ proc[p].work.schema = File
        BY <1>2 DEF BootInv, Rewriting
    <1>4. disk.schema = File
        BY <1>3 DEF BootInv, AppliedCount, File
    <1>5. /\ base \in Disk /\ base.version = Files /\ base.schema = File
          /\ Unsorted(base.charges) \subseteq Fixed(proc[p])
        BY <1>3, <1>4, ProcIs
    <1>6. fix[1] \in Txid /\ fix[2] \in Sortable
        BY <1>3, ProcIs
    <1> HIDE DEF base
    <1>7. /\ copy.version = Files /\ copy.schema = File
          /\ copy.charges = [base.charges EXCEPT ![fix[1]] = fix[2]]
        BY <1>5 DEF Disk
    <1>8. base.charges \in [Txid -> Stamp \cup {NoCharge}]
        BY <1>5 DEF Disk
    <1> HIDE DEF copy
    <1>9. q.pc = "update" /\ q.fixes = left /\ q.work = copy
        BY <1>2, ProcIs DEF Locals
    <1> HIDE DEF q
    <1>10. Unsorted(copy.charges) \subseteq Fixed(q)
        <2>1. ASSUME NEW x \in Unsorted(copy.charges)
              PROVE  x \in Fixed(q)
            <3>1. x \in Txid /\ x # fix[1]
                BY <1>6, <1>7, <1>8 DEF Unsorted
            <3>2. copy.charges[x] = base.charges[x]
                BY <1>7, <1>8, <3>1
            <3>3. x \in Fixed(proc[p])
                BY <1>5, <3>1, <3>2 DEF Unsorted
            <3>4. PICK f \in proc[p].fixes : f[1] = x
                BY <3>3 DEF Fixed
            <3>5. f \in left
                BY <3>1, <3>4
            <3> QED
                BY <1>9, <3>1, <3>4, <3>5 DEF Fixed
        <2> QED
            BY <2>1
    <1>11. \A f \in left : f[2] \in Sortable
        BY <1>3
    <1> HIDE DEF left
    <1>12. Applying(q, disk) /\ Rewriting(p, q, disk, lock')
        BY <1>2, <1>3, <1>7, <1>9, <1>10, <1>11 DEF Applying, Rewriting, InFile
    <1>13. \A o \in Proc \ {p} : lock' = o <=> lock = o
        BY <1>2, LocksOfOthers
    <1>14. proc[p].pc \in Booting /\ q.pc # "ready"
        BY <1>2, <1>9 DEF Booting, InTx
    <1> QED
        BY <1>2, <1>12, <1>13, <1>14, BootFollows

LEMMA CommitFixesBoots ==
    ASSUME TypeInv, BootInv, NEW p \in Proc, CommitFixes(p)
    PROVE  BootInv'
    <1> DEFINE q == [proc[p] EXCEPT !.pc = "ready"]
    <1>1. /\ proc' = [proc EXCEPT ![p] = q] /\ disk' = proc[p].work
          /\ proc[p].pc = "update" /\ proc[p].fixes = {}
        BY DEF CommitFixes, Goto
    <1>2. Fixed(proc[p]) = {}
        BY <1>1 DEF Fixed
    <1>3. /\ proc[p].work.version = Files /\ proc[p].work.schema = File
          /\ Unsorted(proc[p].work.charges) = {}
        BY <1>1, <1>2 DEF BootInv, Rewriting
    <1>4. Whole(disk') /\ disk'.schema = 1..disk'.version
        BY <1>1, <1>3 DEF Whole, File
    <1>5. q.pc = "ready"
        BY ProcIs DEF Locals
    <1> HIDE DEF q
    <1>6. Applying(q, disk') /\ Rewriting(p, q, disk', lock')
        BY <1>5, IdleKnows DEF Booting, InTx
    <1>7. proc[p].pc \in Booting
        BY <1>1 DEF Booting, InTx
    <1> QED
        BY <1>1, <1>4, <1>6, <1>7, BootWrites

\* A charge of a process that serves is stamped sortably, and no file is being
\* applied while it serves.
LEMMA WriteBoots ==
    ASSUME TypeInv, BootInv, NEW p \in Proc, WriteCharge(p)
    PROVE  BootInv'
    <1>1. PICK x \in Txid, t \in Instant : disk' = [disk EXCEPT !.charges[x] = formatTime(t)]
        BY DEF WriteCharge
    <1>2. lock = NoOne /\ UNCHANGED <<lock, proc>> /\ proc[p].pc = "ready"
        BY DEF WriteCharge
    <1>3. disk \in Disk /\ disk.charges \in [Txid -> Stamp \cup {NoCharge}]
        BY ProcIs DEF Disk
    <1>4. /\ disk'.version = disk.version /\ disk'.schema = disk.schema
          /\ disk'.charges = [disk.charges EXCEPT ![x] = formatTime(t)]
        BY <1>1, <1>3 DEF Disk
    <1>5. formatTime(t) \in Sortable
        BY DEF Sortable
    <1>6. Unsorted(disk'.charges) \subseteq Unsorted(disk.charges)
        BY <1>3, <1>4, <1>5 DEF Unsorted
    <1>7. OneBoots'
        BY <1>2 DEF BootInv, OneBoots
    <1>8. AppliedCount'
        BY <1>4 DEF BootInv, AppliedCount
    <1>9. ASSUME NEW o \in Proc
          PROVE  /\ Applying(proc[o], disk') /\ Rewriting(o, proc[o], disk', lock)
                 /\ proc[o].pc = "ready" => Whole(disk')
        <2>1. /\ Applying(proc[o], disk) /\ Rewriting(o, proc[o], disk, lock)
              /\ proc[o].pc = "ready" => Whole(disk)
            BY DEF BootInv
        <2>2. Applying(proc[o], disk')
            BY <1>4, <2>1 DEF Applying
        <2>3. Rewriting(o, proc[o], disk', lock)
            BY <1>4, <1>6, <2>1 DEF Rewriting
        <2>4. proc[o].pc = "ready" => Whole(disk')
            BY <1>4, <1>6, <2>1 DEF Whole
        <2> QED
            BY <2>2, <2>3, <2>4
    <1> QED
        BY <1>2, <1>7, <1>8, <1>9 DEF BootInv

LEMMA BootInit ==
    ASSUME Init
    PROVE  BootInv
    <1>1. \A p \in Proc : proc[p].pc = "down"
        BY DEF Init, Down
    <1>2. AppliedCount
        BY DEF Init, Database, AppliedCount
    <1>3. "down" \notin Booting
        BY DEF Booting, InTx
    <1> QED
        BY <1>1, <1>2, <1>3, IdleKnows DEF BootInv, OneBoots

LEMMA BootStep ==
    ASSUME ~Overlap, TypeInv, BootInv, [Next]_vars
    PROVE  BootInv'
    <1>1. CASE UNCHANGED vars
        BY <1>1 DEF vars, BootInv, OneBoots, AppliedCount
    <1>2. ASSUME NEW p \in Proc, Begin(p)
          PROVE  BootInv'
        <2>1. proc[p].file = disk.version + 1 /\ proc[p].pc \in Booting
            BY <1>2 DEF Begin, BootInv, Applying, Booting
        <2> QED
            BY <1>2, <2>1, GotoBoots DEF Begin
    <1>3. ASSUME NEW p \in Proc, Fails(p)
          PROVE  BootInv'
        <2>1. "failed" \notin Booting
            BY DEF Booting, InTx
        <2> QED
            BY <1>3, <2>1, GotoBoots DEF Fails
    <1>4. ASSUME NEW p \in Proc, Crash(p)
          PROVE  BootInv'
        <2>1. Down(disk).pc = "down"
            BY DEF Down
        <2>2. Applying(Down(disk), disk) /\ Rewriting(p, Down(disk), disk, lock')
            BY <2>1, IdleKnows DEF Booting, InTx
        <2>3. \A o \in Proc \ {p} : lock' = o <=> lock = o
            BY <1>4, LocksOfOthers DEF Crash
        <2>4. Down(disk).pc \notin Booting /\ Down(disk).pc # "ready"
            BY <2>1 DEF Booting, InTx
        <2> QED
            BY <1>4, <2>2, <2>3, <2>4, BootFollows DEF Crash
    <1> QED
        BY <1>1, <1>2, <1>3, <1>4, StartBoots, VersionBoots, ApplyBoots, BumpBoots,
           CommitBoots, ScanBoots, ScanRowBoots, ScanEndsBoots, BeginFixesBoots, UpdateBoots,
           CommitFixesBoots, WriteBoots DEF Next, Open

\* Boots that do not overlap keep everything above, crashes, failing statements and
\* requests of a process that serves beside them included.
THEOREM MigrateCorrect ==
    ASSUME ~Overlap
    PROVE  Spec => []MigrateInv
    <1>1. Init => MigrateInv
        BY TypeInit, BootInit DEF MigrateInv
    <1>2. MigrateInv /\ [Next]_vars => MigrateInv'
        BY TypeStep, BootStep DEF MigrateInv
    <1> QED
        BY <1>1, <1>2, PTL DEF Spec

\* migrate.go:14: the applied count lives in user_version, wherever a boot that ran
\* alone was cut short.
THEOREM CountsApplied ==
    ASSUME ~Overlap
    PROVE  Spec => []AppliedCount
    <1>1. MigrateInv => AppliedCount
        BY DEF MigrateInv, BootInv
    <1> QED
        BY <1>1, MigrateCorrect, PTL

\* A process that serves finds every file applied and its charges in the order of
\* their instants, those that older builds stamped included.
THEOREM ReadiesWhole ==
    ASSUME ~Overlap
    PROVE  Spec => []ReadyIsWhole
    <1>1. MigrateInv => ReadyIsWhole
        BY SortsByInstant DEF MigrateInv, BootInv, AppliedCount, Whole, ReadyIsWhole, File
    <1> QED
        BY <1>1, MigrateCorrect, PTL
=============================================================================
