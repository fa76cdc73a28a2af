---------------------------- MODULE ProcessProofs -----------------------------
(***************************************************************************)
(* Theorems about Dispatcher and about Process, for every set of callbacks,*)
(* every schedule and every set of answers: the dispatcher alone, that the *)
(* one inside the process is that one, and that run() stops its parts in   *)
(* an order that loses nothing.                                            *)
(***************************************************************************)
EXTENDS Process, TLAPS

-----------------------------------------------------------------------------
(***************************************************************************)
(* The inductive invariant.                                                *)
(***************************************************************************)
TypeInv ==
    /\ job \in [Job -> Goroutine]
    /\ closer \in {"idle", "closed", "draining", "aborting", "returned"}
    /\ budget \in BOOLEAN /\ cancelled \in BOOLEAN
    /\ log \in Seq(Verdicts)

Worth(attempt) == attempt.status \in {0, 429} \cup 500 .. 599

\* The attempts that lead to a verdict: only the last is not worth another one,
\* or none is left to make, or the wait was cut short.
Earned(attempts, type) ==
    LET n == Len(attempts) IN
    /\ n \in 1 .. Retries + 1
    /\ \A m \in 1 .. n - 1 : Worth(attempts[m])
    /\ type = "delivered" <=> attempts[n].status \in 1 .. 399

Spared(attempts, type) ==
    type = "failed" /\ Len(attempts) <= Retries /\ Worth(attempts[Len(attempts)])

\* Where a goroutine is tells what it has tried so far.
Disciplined(g) ==
    /\ g.pc \in {"new", "dropped"} => g.attempts = <<>>
    /\ g.pc \in {"post", "wire", "wait"} =>
          Len(g.attempts) <= Retries /\ \A m \in DOMAIN g.attempts : Worth(g.attempts[m])
    /\ g.pc = "wait" => g.attempts # <<>>
    /\ g.pc \in {"delivered", "failed"} => Earned(g.attempts, g.pc)
    /\ g.pc = "delivered" => g.heard
    /\ g.answer # NoAnswer => g.pc = "wire"
    /\ Success(g.answer) => g.heard

JobInv ==
    \A j \in Job : /\ Disciplined(job[j])
                   /\ job[j].pc = "failed" /\ Spared(job[j].attempts, "failed") => Closed

\* Only Close cancels, after its budget or over nothing.
CloseInv ==
    /\ closer = "aborting" => ~budget
    /\ cancelled => closer \in {"aborting", "returned"}
    /\ closer = "returned" => Drained

\* A verdict is recorded by the last step of its goroutine, hence once.
LogInv ==
    /\ \A i \in DOMAIN log :
          /\ job[log[i].job].pc = "done"
          /\ Earned(log[i].attempts, log[i].type)
          /\ log[i].type = "delivered" => job[log[i].job].heard
          /\ Spared(log[i].attempts, log[i].type) => Closed
    /\ \A i, k \in DOMAIN log : log[i].job = log[k].job => i = k

DispatcherInv ==
    /\ TypeInv
    /\ JobInv
    /\ CloseInv
    /\ LogInv
    /\ AbortsOnlyPastBudget

-----------------------------------------------------------------------------
(***************************************************************************)
(* One goroutine's step.                                                   *)
(***************************************************************************)
\* What Goes assigns: the fields it is given; every other is as it was.
LEMMA GoesIs ==
    ASSUME job \in [Job -> Goroutine], NEW j \in Job, NEW fields, Goes(j, fields)
    PROVE  /\ job' = [job EXCEPT ![j] = job'[j]]
           /\ job'[j] = [pc |-> IF "pc" \in DOMAIN fields THEN fields.pc ELSE job[j].pc,
                         attempts |-> IF "attempts" \in DOMAIN fields THEN fields.attempts
                                      ELSE job[j].attempts,
                         answer |-> IF "answer" \in DOMAIN fields THEN fields.answer
                                    ELSE job[j].answer,
                         heard |-> IF "heard" \in DOMAIN fields THEN fields.heard
                                   ELSE job[j].heard]
    <1> DEFINE after == [k \in DOMAIN New |-> IF k \in DOMAIN fields THEN fields[k] ELSE job[j][k]]
    <1>1. job' = [job EXCEPT ![j] = after]
        BY DEF Goes
    <1>2. job'[j] = after
        BY <1>1
    <1>3. DOMAIN New = {"pc", "attempts", "answer", "heard"}
        BY DEF New
    <1> QED
        BY <1>1, <1>2, <1>3

\* A step that only moves the goroutine on.
LEMMA GoesTo ==
    ASSUME job \in [Job -> Goroutine], NEW j \in Job, NEW pc \in PC, Goes(j, [pc |-> pc])
    PROVE  /\ job' = [job EXCEPT ![j] = job'[j]]
           /\ job'[j] = [pc |-> pc, attempts |-> job[j].attempts, answer |-> job[j].answer,
                         heard |-> job[j].heard]
           /\ job'[j] \in Goroutine
    <1>1. /\ job' = [job EXCEPT ![j] = job'[j]]
          /\ job'[j] = [pc |-> pc, attempts |-> job[j].attempts, answer |-> job[j].answer,
                        heard |-> job[j].heard]
        BY GoesIs
    <1> QED
        BY <1>1 DEF Goroutine

AfterAttempt(j, a) ==
    LET attempts == Append(job[j].attempts, a) IN
    IF Success(a.status) THEN "delivered"
    ELSE IF Retryable(a.status) /\ ~ScheduleSpent(attempts) THEN "wait"
    ELSE "failed"

LEMMA AttemptedIs ==
    ASSUME job \in [Job -> Goroutine], NEW j \in Job, NEW a \in Made, Attempted(j, a)
    PROVE  /\ job' = [job EXCEPT ![j] = job'[j]]
           /\ job'[j] = [pc |-> AfterAttempt(j, a), attempts |-> Append(job[j].attempts, a),
                         answer |-> NoAnswer, heard |-> job[j].heard]
    <1> DEFINE fields == [attempts |-> Append(job[j].attempts, a), answer |-> NoAnswer,
                          pc |-> AfterAttempt(j, a)]
    <1>1. Goes(j, fields)
        BY DEF Attempted, AfterAttempt
    <1>2. DOMAIN fields = {"attempts", "answer", "pc"}
        OBVIOUS
    <1>3. /\ fields.attempts = Append(job[j].attempts, a) /\ fields.answer = NoAnswer
          /\ fields.pc = AfterAttempt(j, a)
        OBVIOUS
    <1> HIDE DEF fields
    <1>4. /\ job' = [job EXCEPT ![j] = job'[j]]
          /\ job'[j] = [pc |-> fields.pc, attempts |-> fields.attempts,
                        answer |-> fields.answer, heard |-> job[j].heard]
        BY <1>1, <1>2, GoesIs
    <1> QED
        BY <1>3, <1>4

\* An attempt that is worth another one did not deliver.
LEMMA WorthIsRefused ==
    ASSUME NEW a, Worth(a)
    PROVE  a.status \notin 1 .. 399
    <1> DEFINE s == a.status
    <1>1. s \in {0, 429} \cup 500 .. 599
        BY DEF Worth
    <1> HIDE DEF s
    <1>2. s \in Int /\ (s = 0 \/ s > 399)
        BY <1>1
    <1>3. s \notin 1 .. 399
        BY <1>2
    <1> QED
        BY <1>3 DEF s

\* Retryable picks out the attempts that are worth another one.
LEMMA WorthAnother ==
    ASSUME NEW a \in Made
    PROVE  Retryable(a.status) <=> Worth(a)
    <1> DEFINE s == a.status
    <1>1. s \in Answers \cup {0}
        BY DEF Made
    <1> HIDE DEF s
    <1>2. s = 0 \/ s \in 200 .. 599
        BY <1>1, AnswersAssumption
    <1>3. s = 0 \/ s = 429 \/ s >= 500 <=> s \in {0, 429} \cup 500 .. 599
        BY <1>2
    <1> QED
        BY <1>3 DEF s, Retryable, Worth

\* An attempt by a goroutine that still had one to make leaves it where its
\* attempts say it is, and never with a verdict it could have bettered.
LEMMA AttemptKeeps ==
    ASSUME job \in [Job -> Goroutine], NEW j \in Job, NEW a \in Made, Attempted(j, a),
           Disciplined(job[j]), job[j].pc \in {"post", "wire"},
           Success(a.status) => job[j].heard
    PROVE  /\ job'[j] \in Goroutine
           /\ Disciplined(job'[j])
           /\ ~(job'[j].pc = "failed" /\ Spared(job'[j].attempts, "failed"))
           /\ job'[j].pc \in {"delivered", "failed", "wait"} /\ job'[j].attempts # <<>>
           /\ job' = [job EXCEPT ![j] = job'[j]]
    <1> DEFINE old == job[j].attempts
               new == Append(old, a)
               n == Len(new)
    <1>1. old \in Seq(Made) /\ job[j].heard \in BOOLEAN
        BY DEF Goroutine
    <1>2. /\ new \in Seq(Made) /\ n = Len(old) + 1 /\ n \in 1 .. Retries + 1 /\ new[n] = a
          /\ \A m \in 1 .. n - 1 : new[m] = old[m] /\ Worth(new[m])
        BY <1>1, RetriesAssumption DEF Disciplined
    <1>3. /\ job'[j] = [pc |-> AfterAttempt(j, a), attempts |-> new, answer |-> NoAnswer,
                        heard |-> job[j].heard]
          /\ job' = [job EXCEPT ![j] = job'[j]]
        BY AttemptedIs
    <1>4. Retryable(a.status) <=> Worth(a)
        BY WorthAnother
    <1>6. ~Success(NoAnswer)
        BY DEF Success, NoAnswer
    <1> HIDE DEF old, new, n
    <1>7. CASE Success(a.status)
        <2>1. AfterAttempt(j, a) = "delivered"
            BY <1>7 DEF AfterAttempt
        <2>2. Earned(new, "delivered")
            BY <1>2, <1>7 DEF Earned, Success, n
        <2> QED
            BY <1>1, <1>2, <1>3, <1>6, <1>7, <2>1, <2>2 DEF Goroutine, Disciplined, PC, Spared, NoAnswer, n
    <1>8. CASE ~Success(a.status) /\ Worth(a) /\ n # Retries + 1
        <2>1. AfterAttempt(j, a) = "wait"
            BY <1>4, <1>8 DEF AfterAttempt, ScheduleSpent, n, new, old
        <2>2. n <= Retries /\ \A m \in DOMAIN new : Worth(new[m])
            <3>1. n <= Retries
                BY <1>2, <1>8, RetriesAssumption
            <3>2. DOMAIN new = 1 .. n
                BY <1>2 DEF n
            <3> QED
                BY <1>2, <1>8, <3>1, <3>2
        <2>3. new # <<>>
            BY <1>2 DEF n
        <2> QED
            BY <1>1, <1>2, <1>3, <1>6, <2>1, <2>2, <2>3 DEF Goroutine, Disciplined, PC, Spared, NoAnswer, n
    <1>9. CASE ~Success(a.status) /\ ~(Worth(a) /\ n # Retries + 1)
        <2>1. AfterAttempt(j, a) = "failed"
            BY <1>4, <1>9 DEF AfterAttempt, ScheduleSpent, n, new, old
        <2>2. Earned(new, "failed")
            BY <1>2, <1>9 DEF Earned, Success, n
        <2>3. ~Spared(new, "failed")
            BY <1>2, <1>9, RetriesAssumption DEF Spared, n
        <2>4. new # <<>>
            BY <1>2 DEF n
        <2> QED
            BY <1>1, <1>2, <1>3, <1>6, <2>1, <2>2, <2>3, <2>4 DEF Goroutine, Disciplined, PC, NoAnswer
    <1> QED
        BY <1>7, <1>8, <1>9

-----------------------------------------------------------------------------
(***************************************************************************)
(* What one goroutine's step leaves of the rest.                           *)
(***************************************************************************)
LEMMA TypeFollows ==
    ASSUME NEW g \in Goroutine, Disciplined(g)
    PROVE  /\ g.pc = "wait" => Len(g.attempts) \in 1 .. Retries
           /\ g.pc \in {"delivered", "failed"} => g.attempts # <<>>
    <1>1. g.attempts \in Seq(Made)
        BY DEF Goroutine
    <1>2. g.attempts # <<>> => Len(g.attempts) \in Nat \ {0}
        BY <1>1
    <1>3. Len(<<>>) = 0
        OBVIOUS
    <1>4. CASE g.pc = "wait"
        <2>1. Len(g.attempts) <= Retries /\ g.attempts # <<>>
            BY <1>4 DEF Disciplined
        <2> QED
            BY <1>2, <1>4, <2>1, RetriesAssumption
    <1>5. CASE g.pc \in {"delivered", "failed"}
        <2>1. Len(g.attempts) \in 1 .. Retries + 1
            BY <1>5 DEF Disciplined, Earned
        <2> QED
            BY <1>3, <1>5, <2>1
    <1> QED
        BY <1>4, <1>5

\* What the timeline says of its callbacks, position by position.
LEMMA LogIs ==
    ASSUME TypeInv
    PROVE  /\ DOMAIN log = 1 .. Len(log) /\ Len(log) \in Nat
           /\ \A i \in DOMAIN log :
                 /\ log[i].job \in Job /\ log[i].type \in {"delivered", "failed"}
                 /\ log[i].attempts \in Seq(Made)
    <1>1. log \in Seq(Verdicts)
        BY DEF TypeInv
    <1>2. \A v \in Verdicts : /\ v.job \in Job /\ v.type \in {"delivered", "failed"}
                               /\ v.attempts \in Seq(Made)
        BY DEF Verdicts
    <1> QED
        BY <1>1, <1>2

\* A step of j, not finished yet, that is disciplined and says nothing of an
\* abort that no Close made, keeps everything else.
LEMMA OneMoves ==
    ASSUME DispatcherInv, NEW j \in Job, UNCHANGED <<closer, budget, cancelled, log>>,
           job[j].pc # "done",
           job' = [job EXCEPT ![j] = job'[j]],
           job'[j] \in Goroutine, Disciplined(job'[j]),
           job'[j].pc = "failed" /\ Spared(job'[j].attempts, "failed") => Closed,
           closer = "returned" => job'[j].pc \notin Counted,
           \A n \in DOMAIN job'[j].attempts : job'[j].attempts[n].aborted =>
               \/ n \in DOMAIN job[j].attempts /\ job[j].attempts[n].aborted
               \/ ~budget /\ closer \in {"aborting", "returned"}
    PROVE  DispatcherInv'
    <1> USE DEF DispatcherInv
    <1>1. job \in [Job -> Goroutine]
        BY DEF TypeInv
    <1>2. job' \in [Job -> Goroutine] /\ \A k \in Job : k # j => job'[k] = job[k]
        BY <1>1
    <1>3. JobInv'
        <2>1. ASSUME NEW k \in Job, k # j
              PROVE  Disciplined(job'[k])
                     /\ (job'[k].pc = "failed" /\ Spared(job'[k].attempts, "failed") => Closed)
            BY <1>2, <2>1 DEF JobInv
        <2>2. Closed' = Closed
            BY DEF Closed
        <2> QED
            BY <2>1, <2>2 DEF JobInv
    <1>4. TypeInv'
        BY <1>2 DEF TypeInv
    <1>5. CloseInv'
        BY <1>2 DEF CloseInv, Drained
    <1>6. \A i \in DOMAIN log : log[i].job \in Job /\ log[i].job # j
        <2> TAKE i \in DOMAIN log
        <2>1. log[i].job \in Job
            BY LogIs
        <2>2. job[log[i].job].pc = "done"
            BY DEF LogInv
        <2> QED
            BY <2>1, <2>2
    <1>7. LogInv'
        <2>1. \A i \in DOMAIN log : job'[log[i].job] = job[log[i].job]
            BY <1>2, <1>6
        <2>2. Closed' = Closed
            BY DEF Closed
        <2> QED
            BY <2>1, <2>2 DEF LogInv
    <1>9. AbortsOnlyPastBudget'
        BY <1>2 DEF AbortsOnlyPastBudget
    <1> QED
        BY <1>3, <1>4, <1>5, <1>7, <1>9

-----------------------------------------------------------------------------
(***************************************************************************)
(* The steps of a goroutine and of its payee.                              *)
(***************************************************************************)
LEMMA DeliverKeeps ==
    ASSUME DispatcherInv, NEW j \in Job, Deliver(j)
    PROVE  DispatcherInv'
    <1>1. job \in [Job -> Goroutine] /\ Disciplined(job[j])
        BY DEF DispatcherInv, TypeInv, JobInv
    <1> DEFINE pc == IF Closed THEN "dropped" ELSE "post"
    <1>2. /\ job' = [job EXCEPT ![j] = job'[j]] /\ job'[j] \in Goroutine
          /\ job'[j] = [pc |-> pc, attempts |-> job[j].attempts, answer |-> job[j].answer,
                        heard |-> job[j].heard]
        BY <1>1, GoesTo DEF Deliver, PC
    <1>3. job[j] \in Goroutine
        BY <1>1
    <1>4. job'[j].pc = pc /\ job'[j].attempts = <<>>
        BY <1>1, <1>2 DEF Deliver, Disciplined
    <1>5. Disciplined(job'[j])
        BY <1>1, <1>2, <1>4, RetriesAssumption DEF Deliver, Disciplined
    <1>6. closer = "returned" => pc \notin Counted
        BY DEF Closed, Counted
    <1>7. DOMAIN <<>> = {}
        OBVIOUS
    <1> QED
        BY <1>1, <1>2, <1>3, <1>4, <1>5, <1>6, <1>7, OneMoves DEF Deliver

\* What Close has returned over is not moved: no goroutine counted is left.
LEMMA StillOpen ==
    ASSUME DispatcherInv, NEW j \in Job, job[j].pc \in Counted
    PROVE  closer # "returned"
    BY DEF DispatcherInv, CloseInv, Drained

\* Any attempt of a goroutine, aborted only past the budget of Close.
LEMMA AttemptedKeeps ==
    ASSUME DispatcherInv, NEW j \in Job, NEW a \in Made, Attempted(j, a),
           job[j].pc \in {"post", "wire"}, Success(a.status) => job[j].heard,
           a.aborted => cancelled, UNCHANGED <<closer, budget, cancelled, log>>
    PROVE  DispatcherInv'
    <1>1. job \in [Job -> Goroutine] /\ Disciplined(job[j])
        BY DEF DispatcherInv, TypeInv, JobInv
    <1>2. /\ job'[j] \in Goroutine /\ Disciplined(job'[j])
          /\ ~(job'[j].pc = "failed" /\ Spared(job'[j].attempts, "failed"))
          /\ job' = [job EXCEPT ![j] = job'[j]]
        BY <1>1, AttemptKeeps
    <1>3. closer # "returned"
        BY StillOpen DEF Counted
    <1>4. a.aborted => ~budget /\ closer \in {"aborting", "returned"}
        BY <1>3 DEF DispatcherInv, CloseInv
    <1>5. \A n \in DOMAIN job'[j].attempts : job'[j].attempts[n].aborted =>
               \/ n \in DOMAIN job[j].attempts /\ job[j].attempts[n].aborted
               \/ ~budget /\ closer \in {"aborting", "returned"}
        <2>1. job'[j].attempts = Append(job[j].attempts, a)
            <3>1. job'[j] = [pc |-> AfterAttempt(j, a), attempts |-> Append(job[j].attempts, a),
                             answer |-> NoAnswer, heard |-> job[j].heard]
                BY <1>1, AttemptedIs, Zenon
            <3> QED
                BY <3>1
        <2>2. job[j].attempts \in Seq(Made)
            BY <1>1 DEF Goroutine
        <2> QED
            BY <1>4, <2>1, <2>2
    <1> QED
        BY <1>2, <1>3, <1>5, OneMoves

LEMMA GoroutineSteps ==
    ASSUME DispatcherInv, NEW j \in Job,
           \/ Post(j) \/ PayeeAnswers(j) \/ AnswerArrives(j) \/ TransportFails(j)
           \/ Abort(j) \/ TimerFires(j) \/ WaitInterrupted(j)
    PROVE  DispatcherInv'
    <1>1. job \in [Job -> Goroutine] /\ Disciplined(job[j]) /\ job[j] \in Goroutine
        BY DEF DispatcherInv, TypeInv, JobInv
    <1>2. \A b \in BOOLEAN : Attempt(0, b) \in Made /\ ~Success(Attempt(0, b).status)
                             /\ Attempt(0, b).aborted = b
        BY DEF Made, Attempt, Success
    <1>3. \A pc \in PC : Goes(j, [pc |-> pc]) =>
              /\ job' = [job EXCEPT ![j] = job'[j]] /\ job'[j] \in Goroutine
              /\ job'[j] = [pc |-> pc, attempts |-> job[j].attempts, answer |-> job[j].answer,
                            heard |-> job[j].heard]
        BY <1>1, GoesTo
    <1>4. CASE Post(j)
        <2>1. CASE cancelled
            BY <1>2, <1>4, <2>1, AttemptedKeeps DEF Post
        <2>2. CASE ~cancelled
            <3>1. /\ job' = [job EXCEPT ![j] = job'[j]] /\ job'[j] \in Goroutine
                  /\ job'[j] = [pc |-> "wire", attempts |-> job[j].attempts, answer |-> job[j].answer,
                                heard |-> job[j].heard]
                BY <1>3, <1>4, <2>2 DEF Post, PC
            <3>2. Disciplined(job'[j])
                BY <1>1, <1>4, <3>1 DEF Post, Disciplined, Goroutine
            <3> QED
                BY <1>1, <1>4, <3>1, <3>2, StillOpen, OneMoves DEF Post, Goroutine, Counted
        <2> QED
            BY <2>1, <2>2
    <1>5. CASE PayeeAnswers(j)
        <2>1. PICK status \in Answers :
                  Goes(j, [answer |-> status, heard |-> job[j].heard \/ Success(status)])
            BY <1>5 DEF PayeeAnswers
        <2> DEFINE heard == job[j].heard \/ Success(status)
        <2>2. heard \in BOOLEAN /\ (Success(status) => heard) /\ (job[j].heard => heard)
            OBVIOUS
        <2>3. Goes(j, [answer |-> status, heard |-> heard])
            BY <2>1
        <2> HIDE DEF heard
        <2>4. /\ job' = [job EXCEPT ![j] = job'[j]]
              /\ job'[j] = [pc |-> job[j].pc, attempts |-> job[j].attempts, answer |-> status,
                            heard |-> heard]
            BY <1>1, <2>3, GoesIs
        <2>5. job'[j] \in Goroutine
            BY <1>1, <2>2, <2>4 DEF Goroutine
        <2>6. Disciplined(job'[j])
            BY <1>1, <1>5, <2>2, <2>4 DEF PayeeAnswers, Disciplined
        <2> QED
            BY <1>1, <1>5, <2>4, <2>5, <2>6, StillOpen, OneMoves DEF PayeeAnswers, Counted
    <1>6. CASE AnswerArrives(j)
        <2>1. job[j].answer \in Answers /\ (Success(job[j].answer) => job[j].heard)
            BY <1>1, <1>6 DEF AnswerArrives, Goroutine, Disciplined
        <2>2. Attempt(job[j].answer, FALSE) \in Made
              /\ Attempt(job[j].answer, FALSE).status = job[j].answer
              /\ ~Attempt(job[j].answer, FALSE).aborted
            BY <2>1 DEF Made, Attempt
        <2> QED
            BY <1>6, <2>1, <2>2, AttemptedKeeps DEF AnswerArrives
    <1>7. CASE TransportFails(j)
        BY <1>2, <1>7, AttemptedKeeps DEF TransportFails, Expires
    <1>8. CASE Abort(j)
        BY <1>2, <1>8, AttemptedKeeps DEF Abort
    <1>9. CASE TimerFires(j)
        <2>1. /\ job' = [job EXCEPT ![j] = job'[j]] /\ job'[j] \in Goroutine
              /\ job'[j] = [pc |-> "post", attempts |-> job[j].attempts, answer |-> job[j].answer,
                            heard |-> job[j].heard]
            BY <1>3, <1>9 DEF TimerFires, PC
        <2>2. Disciplined(job'[j])
            BY <1>1, <1>9, <2>1 DEF TimerFires, Disciplined, Goroutine
        <2> QED
            BY <1>1, <1>9, <2>1, <2>2, StillOpen, OneMoves DEF TimerFires, Goroutine, Counted
    <1>10. CASE WaitInterrupted(j)
        <2>1. /\ job' = [job EXCEPT ![j] = job'[j]] /\ job'[j] \in Goroutine
              /\ job'[j] = [pc |-> "failed", attempts |-> job[j].attempts, answer |-> job[j].answer,
                            heard |-> job[j].heard]
            BY <1>3, <1>10 DEF WaitInterrupted, PC
        <2>2. Closed
            BY <1>10 DEF WaitInterrupted, Interrupted, Signalled, Closed, DispatcherInv, CloseInv
        <2>3. Earned(job[j].attempts, "failed")
            <3>1. job[j].attempts \in Seq(Made) /\ DOMAIN job[j].attempts = 1 .. Len(job[j].attempts)
                BY <1>1 DEF Goroutine
            <3>2. Len(job[j].attempts) \in 1 .. Retries
                  /\ \A m \in 1 .. Len(job[j].attempts) : Worth(job[j].attempts[m])
                BY <1>1, <1>10, <3>1, TypeFollows DEF WaitInterrupted, Disciplined
            <3>3. Worth(job[j].attempts[Len(job[j].attempts)])
                BY <3>2
            <3>4. job[j].attempts[Len(job[j].attempts)].status \notin 1 .. 399
                BY <3>3, WorthIsRefused
            <3>5. Len(job[j].attempts) \in 1 .. Retries + 1
                BY <3>2, RetriesAssumption
            <3>6. \A m \in 1 .. Len(job[j].attempts) - 1 : Worth(job[j].attempts[m])
                BY <3>2, RetriesAssumption
            <3> QED
                BY <3>4, <3>5, <3>6 DEF Earned
        <2>4. Disciplined(job'[j])
            BY <1>1, <1>10, <2>1, <2>3 DEF WaitInterrupted, Disciplined, Goroutine
        <2> QED
            BY <1>1, <1>10, <2>1, <2>2, <2>4, StillOpen, OneMoves DEF WaitInterrupted, Goroutine, Counted
    <1> QED
        BY <1>4, <1>5, <1>6, <1>7, <1>8, <1>9, <1>10

-----------------------------------------------------------------------------
(***************************************************************************)
(* The end of a goroutine, with its verdict recorded or not.               *)
(***************************************************************************)
LEMMA FinishKeeps ==
    ASSUME DispatcherInv, NEW j \in Job, Record(j) \/ RecordFails(j)
    PROVE  DispatcherInv'
    <1> USE DEF DispatcherInv
    <1>1. job \in [Job -> Goroutine] /\ Disciplined(job[j]) /\ job[j] \in Goroutine
        BY DEF TypeInv, JobInv
    <1>2. job[j].pc \in {"delivered", "failed"} /\ Goes(j, [pc |-> "done"])
          /\ UNCHANGED <<closer, budget, cancelled>>
        BY DEF Record, RecordFails
    <1>3. /\ job' = [job EXCEPT ![j] = job'[j]] /\ job'[j] \in Goroutine
          /\ job'[j] = [pc |-> "done", attempts |-> job[j].attempts, answer |-> job[j].answer,
                        heard |-> job[j].heard]
        BY <1>1, <1>2, GoesTo DEF PC
    <1>4. job' \in [Job -> Goroutine] /\ \A k \in Job : k # j => job'[k] = job[k]
        BY <1>1, <1>3
    <1>5. Closed' = Closed
        BY <1>2 DEF Closed
    <1>6. JobInv'
        <2>1. Disciplined(job'[j])
            BY <1>1, <1>2, <1>3 DEF Disciplined
        <2> QED
            BY <1>3, <1>4, <1>5, <2>1 DEF JobInv
    <1>7. CloseInv'
        BY <1>2, <1>3, <1>4 DEF CloseInv, Drained, Counted
    <1>8. AbortsOnlyPastBudget'
        BY <1>2, <1>3, <1>4 DEF AbortsOnlyPastBudget
    <1>9. \A i \in DOMAIN log : log[i].job \in Job /\ log[i].job # j
                              /\ job'[log[i].job] = job[log[i].job]
        <2> TAKE i \in DOMAIN log
        <2>1. log[i].job \in Job
            BY LogIs
        <2>2. job[log[i].job].pc = "done"
            BY DEF LogInv
        <2> QED
            BY <1>2, <1>4, <2>1, <2>2
    <1>10. CASE log' = log
        <2>1. TypeInv'
            BY <1>2, <1>4, <1>10 DEF TypeInv
        <2>2. LogInv'
            BY <1>5, <1>9, <1>10 DEF LogInv
        <2> QED
            BY <1>6, <1>7, <1>8, <2>1, <2>2
    <1>11. CASE log' = Append(log, Verdict(j))
        <2>1. Verdict(j) \in Verdicts
            BY <1>1, <1>2 DEF Verdict, Verdicts, Goroutine
        <2>2. log \in Seq(Verdicts)
            BY DEF TypeInv
        <2>3. /\ Verdict(j).job = j /\ Verdict(j).type = job[j].pc
              /\ Verdict(j).attempts = job[j].attempts
            BY DEF Verdict
        <2>4. /\ log' \in Seq(Verdicts) /\ DOMAIN log' = DOMAIN log \cup {Len(log) + 1}
              /\ log'[Len(log) + 1] = Verdict(j) /\ Len(log) + 1 \notin DOMAIN log
              /\ \A i \in DOMAIN log : log'[i] = log[i]
            BY <1>11, <2>1, <2>2
        <2>5. TypeInv'
            BY <1>2, <1>4, <2>4 DEF TypeInv
        <2>6. /\ Earned(job[j].attempts, job[j].pc)
              /\ job[j].pc = "delivered" => job'[j].heard
              /\ Spared(job[j].attempts, job[j].pc) => Closed
            BY <1>1, <1>2, <1>3 DEF Disciplined, JobInv, Spared
        <2>7. \A i \in DOMAIN log' :
                  /\ job'[log'[i].job].pc = "done"
                  /\ Earned(log'[i].attempts, log'[i].type)
                  /\ log'[i].type = "delivered" => job'[log'[i].job].heard
                  /\ Spared(log'[i].attempts, log'[i].type) => Closed'
            <3> TAKE i \in DOMAIN log'
            <3>1. CASE i \in DOMAIN log
                BY <1>5, <1>9, <2>4, <3>1 DEF LogInv
            <3>2. CASE i = Len(log) + 1
                BY <1>3, <1>5, <2>3, <2>4, <2>6, <3>2
            <3> QED
                BY <2>4, <3>1, <3>2
        <2>8. \A i, k \in DOMAIN log' : log'[i].job = log'[k].job => i = k
            BY <1>9, <2>3, <2>4 DEF LogInv
        <2>9. LogInv'
            BY <2>7, <2>8 DEF LogInv
        <2> QED
            BY <1>6, <1>7, <1>8, <2>5, <2>9
    <1> QED
        BY <1>10, <1>11 DEF Record, RecordFails

-----------------------------------------------------------------------------
(***************************************************************************)
(* Close.                                                                  *)
(***************************************************************************)
LEMMA CloseKeeps ==
    ASSUME DispatcherInv, CloseDoor \/ BudgetEnds \/ Close
    PROVE  DispatcherInv'
    <1> USE DEF DispatcherInv
    <1>1. UNCHANGED <<job, log>>
        BY DEF CloseDoor, BudgetEnds, Close, Signal, CutShort, CloseReturns
    <1>2. Closed => Closed'
        BY DEF CloseDoor, BudgetEnds, Close, Signal, CutShort, CloseReturns, Closed
    <1>3. TypeInv'
        <2>1. /\ closer' \in {"idle", "closed", "draining", "aborting", "returned"}
              /\ budget' \in BOOLEAN /\ cancelled' \in BOOLEAN
            BY DEF CloseDoor, BudgetEnds, Close, Signal, CutShort, CloseReturns, TypeInv
        <2> QED
            BY <1>1, <2>1 DEF TypeInv
    <1>4. JobInv'
        BY <1>1, <1>2 DEF JobInv
    <1>5. CloseInv'
        BY <1>1 DEF CloseDoor, BudgetEnds, Close, Signal, CutShort, CloseReturns, CloseInv, Drained
    <1>6. LogInv'
        BY <1>1, <1>2 DEF LogInv
    <1>7. ~budget => ~budget'
        BY DEF CloseDoor, BudgetEnds, Close, Signal, CutShort, CloseReturns
    <1>8. closer \in {"aborting", "returned"} => closer' \in {"aborting", "returned"}
        BY DEF CloseDoor, BudgetEnds, Close, Signal, CutShort, CloseReturns
    <1>9. AbortsOnlyPastBudget'
        BY <1>1, <1>7, <1>8 DEF AbortsOnlyPastBudget
    <1> QED
        BY <1>3, <1>4, <1>5, <1>6, <1>9

LEMMA DispatcherInit ==
    ASSUME Init
    PROVE  DispatcherInv
    <1>1. New \in Goroutine /\ New.pc = "new" /\ New.attempts = <<>> /\ Disciplined(New)
        <2>1. <<>> \in Seq(Made)
            OBVIOUS
        <2> QED
            BY <2>1 DEF New, Goroutine, PC, Disciplined, NoAnswer, Success
    <1>2. TypeInv
        <2>1. <<>> \in Seq(Verdicts)
            OBVIOUS
        <2> QED
            BY <1>1, <2>1 DEF Init, TypeInv
    <1>3. JobInv
        BY <1>1 DEF JobInv, Init
    <1>4. CloseInv /\ LogInv
        BY DEF Init, CloseInv, LogInv
    <1>5. AbortsOnlyPastBudget
        BY <1>1 DEF AbortsOnlyPastBudget, Init
    <1> QED
        BY <1>2, <1>3, <1>4, <1>5 DEF DispatcherInv

LEMMA DispatcherStep ==
    ASSUME DispatcherInv, [Next]_vars
    PROVE  DispatcherInv'
    <1>1. CASE UNCHANGED vars
        <2>1. job' = job /\ closer' = closer /\ budget' = budget /\ cancelled' = cancelled
              /\ log' = log
            BY <1>1 DEF vars
        <2>2. TypeInv' /\ JobInv'
            BY <2>1 DEF DispatcherInv, TypeInv, JobInv, Closed
        <2>3. CloseInv' /\ LogInv' /\ AbortsOnlyPastBudget'
            BY <2>1 DEF DispatcherInv, CloseInv, Drained, LogInv, Closed, AbortsOnlyPastBudget
        <2> QED
            BY <2>2, <2>3 DEF DispatcherInv
    <1>2. CASE CloseDoor \/ BudgetEnds \/ Close
        BY <1>2, CloseKeeps
    <1>3. ASSUME NEW j \in Job, Deliver(j) \/ PayeeAnswers(j) \/ Run(j)
          PROVE  DispatcherInv'
        BY <1>3, DeliverKeeps, GoroutineSteps, FinishKeeps DEF Run
    <1> QED
        BY <1>1, <1>2, <1>3 DEF Next

-----------------------------------------------------------------------------
(***************************************************************************)
(* The theorems.                                                           *)
(***************************************************************************)
\* Where each goroutine is, what it has tried, and what the timeline says of it
\* fit together in every reachable state.
THEOREM DispatcherCorrect == Spec => []DispatcherInv
    <1>1. Init => DispatcherInv
        BY DispatcherInit
    <1>2. DispatcherInv /\ [Next]_vars => DispatcherInv'
        BY DispatcherStep
    <1> QED
        BY <1>1, <1>2, PTL DEF Spec

\* The goroutines stay in the states of deliver, and neither backoff nor the
\* attempts are ever indexed out of bounds.
THEOREM DispatcherTyped == Spec => []TypeOK
    <1>1. ASSUME DispatcherInv PROVE TypeOK
        <2>1. \A j \in Job :
                  /\ job[j].pc = "wait" => Len(job[j].attempts) \in 1 .. Retries
                  /\ job[j].pc \in {"delivered", "failed"} => job[j].attempts # <<>>
            BY <1>1, TypeFollows DEF DispatcherInv, TypeInv, JobInv
        <2> QED
            BY <1>1, <2>1 DEF DispatcherInv, TypeInv, TypeOK
    <1> QED
        BY <1>1, DispatcherCorrect, PTL

\* A verdict on the timeline is the one its attempts earned: webhook.delivered
\* was accepted by the payee, webhook.failed was worth no further attempt.
THEOREM VerdictsEarned == Spec => []VerdictEarned
    <1>1. ASSUME DispatcherInv PROVE VerdictEarned
        <2> SUFFICES ASSUME NEW i \in DOMAIN log
                     PROVE  LET attempts == log[i].attempts
                                n == Len(attempts)
                                WorthRetrying(m) == attempts[m].status \in {0, 429} \cup 500 .. 599
                            IN  /\ n \in 1 .. Retries + 1
                                /\ \A m \in 1 .. n - 1 : WorthRetrying(m)
                                /\ log[i].type = "delivered" <=> attempts[n].status \in 1 .. 399
                                /\ log[i].type = "delivered" => job[log[i].job].heard
                                /\ log[i].type = "failed" /\ n <= Retries /\ WorthRetrying(n)
                                      => Closed
            BY DEF VerdictEarned
        <2>1. /\ Earned(log[i].attempts, log[i].type)
              /\ log[i].type = "delivered" => job[log[i].job].heard
              /\ Spared(log[i].attempts, log[i].type) => Closed
            BY <1>1 DEF DispatcherInv, LogInv
        <2> QED
            BY <2>1 DEF Earned, Spared, Worth
    <1> QED
        BY <1>1, DispatcherCorrect, PTL

\* Close aborts a callback only once its budget is over.
THEOREM AbortsPastBudget == Spec => []AbortsOnlyPastBudget
    <1>1. DispatcherInv => AbortsOnlyPastBudget
        BY DEF DispatcherInv
    <1> QED
        BY <1>1, DispatcherCorrect, PTL

\* Once Close has returned no goroutine runs: nothing is sent, nothing recorded.
THEOREM NothingAfterClose == Spec => QuietAfterClose
    <1>1. ASSUME DispatcherInv, [Next]_vars, closer = "returned"
          PROVE  UNCHANGED log /\ \A j \in Job : job'[j].attempts = job[j].attempts
        <2>1. job \in [Job -> Goroutine] /\ \A j \in Job : job[j].pc \notin Counted
            BY <1>1 DEF DispatcherInv, TypeInv, CloseInv, Drained
        <2>2. CASE UNCHANGED vars \/ CloseDoor \/ BudgetEnds \/ Close
            BY <2>2 DEF vars, CloseDoor, BudgetEnds, Close, Signal, CutShort, CloseReturns
        <2>3. ASSUME NEW j \in Job, Deliver(j)
              PROVE  UNCHANGED log /\ \A k \in Job : job'[k].attempts = job[k].attempts
            <3> DEFINE pc == IF Closed THEN "dropped" ELSE "post"
            <3>1. pc \in PC /\ Goes(j, [pc |-> pc])
                BY <2>3 DEF Deliver, PC
            <3> HIDE DEF pc
            <3>2. /\ job' = [job EXCEPT ![j] = job'[j]]
                  /\ job'[j] = [pc |-> pc, attempts |-> job[j].attempts,
                                answer |-> job[j].answer, heard |-> job[j].heard]
                BY <2>1, <3>1, GoesTo
            <3> QED
                BY <2>1, <2>3, <3>2 DEF Deliver
        <2>4. ASSUME NEW j \in Job, PayeeAnswers(j) \/ Run(j)
              PROVE  FALSE
            BY <2>1, <2>4 DEF Counted, PayeeAnswers, Run, Post, AnswerArrives, TransportFails,
                              Expires, Abort, TimerFires, WaitInterrupted, Record, RecordFails
        <2> QED
            BY <1>1, <2>2, <2>3, <2>4 DEF Next
    <1>2. DispatcherInv /\ [Next]_vars =>
              [closer = "returned" =>
                  UNCHANGED log /\ \A j \in Job : job'[j].attempts = job[j].attempts]_vars
        BY <1>1
    <1> QED
        BY <1>2, DispatcherCorrect, PTL DEF Spec, QuietAfterClose

-----------------------------------------------------------------------------
(***************************************************************************)
(* The dispatcher keeps the promise of PixCallbacks.                       *)
(***************************************************************************)
\* A verdict recorded once is the fate of its goroutine.
LEMMA FateIsRecorded ==
    ASSUME NEW verdicts, NEW v \in Range(verdicts),
           \A w \in Range(verdicts) : w.job = v.job => w = v
    PROVE  Fate(v.job, "done", verdicts) = v.type
    <1>1. (CHOOSE w \in Range(verdicts) : w.job = v.job) = v
        OBVIOUS
    <1> QED
        BY <1>1 DEF Fate

LEMMA FateUnrecorded ==
    ASSUME NEW j, NEW verdicts, \A v \in Range(verdicts) : v.job # j
    PROVE  Fate(j, "done", verdicts) = "unrecorded"
    BY DEF Fate

Owed == {"post", "wire", "wait", "delivered", "failed"}

LEMMA FateBefore ==
    ASSUME NEW j, NEW verdicts
    PROVE  /\ Fate(j, "new", verdicts) = "none"
           /\ Fate(j, "dropped", verdicts) = "refused"
           /\ \A pc \in Owed : Fate(j, pc, verdicts) = "owed"
    BY DEF Fate, Owed

Fates == [j \in Job |-> Fate(j, job[j].pc, log)]

Heard == {j \in Job : job[j].heard}

\* A step of j alone: every other goroutine keeps its fate and what the payee said.
LEMMA OthersKeep ==
    ASSUME TypeInv, NEW j \in Job, job' = [job EXCEPT ![j] = job'[j]], log' = log
    PROVE  /\ Fates' = [Fates EXCEPT ![j] = Fate(j, job'[j].pc, log)]
           /\ \A k \in Job : k # j => (k \in Heard' <=> k \in Heard)
           /\ (j \in Heard' <=> job'[j].heard) /\ (j \in Heard <=> job[j].heard)
    <1>1. \A k \in Job : k # j => job'[k] = job[k]
        BY DEF TypeInv
    <1> QED
        BY <1>1 DEF Fates, Heard

\* A step of j that leaves it owed and leaves what the payee said.
LEMMA StaysOwed ==
    ASSUME TypeInv, NEW j \in Job, job' = [job EXCEPT ![j] = job'[j]], log' = log,
           job[j].pc \in Owed, job'[j].pc \in Owed, job'[j].heard = job[j].heard
    PROVE  Fates' = Fates /\ Heard' = Heard
    <1>1. /\ Fates' = [Fates EXCEPT ![j] = Fate(j, job'[j].pc, log)]
          /\ \A k \in Job : k # j => (k \in Heard' <=> k \in Heard)
          /\ (j \in Heard' <=> job'[j].heard) /\ (j \in Heard <=> job[j].heard)
        BY OthersKeep
    <1>2. Fate(j, job'[j].pc, log) = Fate(j, job[j].pc, log)
        BY FateBefore
    <1>3. Fates' = Fates
        BY <1>1, <1>2 DEF Fates
    <1>4. \A k \in Job : k \in Heard' <=> k \in Heard
        BY <1>1
    <1> QED
        BY <1>3, <1>4 DEF Heard

\* The verdicts of a timeline that LogInv holds of.
LEMMA OneVerdictEach ==
    ASSUME LogInv
    PROVE  /\ \A v, w \in Range(log) : v.job = w.job => v = w
           /\ \A v \in Range(log) : job[v.job].pc = "done"
    BY DEF LogInv, Range

\* The end of a goroutine with its verdict on the timeline, and without.
LEMMA RecordConcludes ==
    ASSUME DispatcherInv, NEW j \in Job, Record(j)
    PROVE  Fates' = [Fates EXCEPT ![j] = job[j].pc] /\ Heard' = Heard
    <1>1. job \in [Job -> Goroutine]
        BY DEF DispatcherInv, TypeInv
    <1>2. /\ job' = [job EXCEPT ![j] = job'[j]] /\ job'[j].pc = "done"
          /\ job'[j].heard = job[j].heard /\ log' = Append(log, Verdict(j))
          /\ job[j].pc \in {"delivered", "failed"}
        <2>1. Goes(j, [pc |-> "done"]) /\ "done" \in PC
            BY DEF Record, PC
        <2>2. /\ job' = [job EXCEPT ![j] = job'[j]]
              /\ job'[j] = [pc |-> "done", attempts |-> job[j].attempts,
                            answer |-> job[j].answer, heard |-> job[j].heard]
            BY <1>1, <2>1, GoesTo
        <2> QED
            BY <2>2 DEF Record
    <1>3. Verdict(j).job = j /\ Verdict(j).type = job[j].pc
        BY DEF Verdict
    <1>4. Range(log') = Range(log) \cup {Verdict(j)}
        <2>1. /\ DOMAIN log' = DOMAIN log \cup {Len(log) + 1} /\ log'[Len(log) + 1] = Verdict(j)
              /\ \A i \in DOMAIN log : log'[i] = log[i]
            BY <1>2 DEF DispatcherInv, TypeInv
        <2> QED
            BY <2>1 DEF Range
    <1>5. \A v \in Range(log) : v.job # j
        BY <1>2, OneVerdictEach DEF DispatcherInv
    <1>6. Fate(j, "done", log') = job[j].pc
        BY <1>3, <1>4, <1>5, FateIsRecorded
    <1>7. ASSUME NEW k \in Job, k # j
          PROVE  Fate(k, job'[k].pc, log') = Fate(k, job[k].pc, log) /\ job'[k] = job[k]
        <2>1. job'[k] = job[k]
            BY <1>1, <1>2, <1>7
        <2>2. \A v \in Range(log') : v.job = k <=> v \in Range(log) /\ v.job = k
            BY <1>3, <1>4, <1>7
        <2>3. CASE job[k].pc \in {"new", "dropped"} \cup Owed
            BY <2>1, <2>3, FateBefore
        <2>4. CASE job[k].pc = "done" /\ \E v \in Range(log) : v.job = k
            <3>1. PICK v \in Range(log) : v.job = k
                BY <2>4
            <3>2. /\ \A w \in Range(log) : w.job = v.job => w = v
                  /\ v \in Range(log') /\ \A w \in Range(log') : w.job = v.job => w = v
                BY <1>4, <2>2, <3>1, OneVerdictEach DEF DispatcherInv
            <3> QED
                BY <2>1, <2>4, <3>1, <3>2, FateIsRecorded
        <2>5. CASE job[k].pc = "done" /\ \A v \in Range(log) : v.job # k
            BY <2>1, <2>2, <2>5, FateUnrecorded
        <2>6. job[k].pc \in PC
            BY <1>1 DEF Goroutine
        <2> QED
            BY <2>1, <2>3, <2>4, <2>5, <2>6 DEF PC, Owed
    <1>8. Fates' = [Fates EXCEPT ![j] = job[j].pc]
        BY <1>2, <1>6, <1>7 DEF Fates
    <1>9. \A k \in Job : job'[k].heard = job[k].heard
        BY <1>2, <1>7
    <1> QED
        BY <1>8, <1>9 DEF Heard

LEMMA RecordFailsConcludes ==
    ASSUME DispatcherInv, NEW j \in Job, RecordFails(j)
    PROVE  Fates' = [Fates EXCEPT ![j] = "unrecorded"] /\ Heard' = Heard
    <1>1. job \in [Job -> Goroutine] /\ TypeInv
        BY DEF DispatcherInv, TypeInv
    <1>2. Goes(j, [pc |-> "done"]) /\ "done" \in PC
        BY DEF RecordFails, PC
    <1>3. /\ job' = [job EXCEPT ![j] = job'[j]]
          /\ job'[j] = [pc |-> "done", attempts |-> job[j].attempts,
                        answer |-> job[j].answer, heard |-> job[j].heard]
        BY <1>1, <1>2, GoesTo
    <1>4. \A v \in Range(log) : v.job # j
        BY OneVerdictEach DEF DispatcherInv, RecordFails
    <1>5. /\ Fates' = [Fates EXCEPT ![j] = Fate(j, job'[j].pc, log)]
          /\ \A k \in Job : k # j => (k \in Heard' <=> k \in Heard)
          /\ (j \in Heard' <=> job'[j].heard) /\ (j \in Heard <=> job[j].heard)
        BY <1>1, <1>3, OthersKeep DEF RecordFails
    <1>6. Fates' = [Fates EXCEPT ![j] = "unrecorded"]
        <2>1. Fate(j, job'[j].pc, log) = "unrecorded"
            BY <1>3, <1>4, FateUnrecorded
        <2> QED
            BY <1>5, <2>1
    <1>7. \A k \in Job : k \in Heard' <=> k \in Heard
        BY <1>3, <1>5
    <1> QED
        BY <1>6, <1>7 DEF Heard

\* What PixCallbacks sees, in the names above.
LEMMA SeesNothing ==
    ASSUME Fates' = Fates, Heard' = Heard, UNCHANGED closer
    PROVE  UNCHANGED Callbacks!vars
    BY DEF Fates, Heard, Closed, Callbacks!vars

LEMMA SeesTake ==
    ASSUME NEW j \in Job, Fates[j] = "none", UNCHANGED closer, Heard' = Heard,
           Fates' = [Fates EXCEPT ![j] = IF ~Closed THEN "owed" ELSE "refused"]
    PROVE  Callbacks!Take(j)
    BY DEF Fates, Heard, Closed, Callbacks!Take

LEMMA SeesAccept ==
    ASSUME NEW j \in Job, Fates[j] = "owed", UNCHANGED closer, Fates' = Fates,
           Heard' = Heard \cup {j}
    PROVE  Callbacks!Accept(j)
    BY DEF Fates, Heard, Closed, Callbacks!Accept

LEMMA SeesConclude ==
    ASSUME NEW j \in Job, NEW end, Fates[j] = "owed", UNCHANGED closer, Heard' = Heard,
           end = "delivered" => j \in Heard, Fates' = [Fates EXCEPT ![j] = end]
    PROVE  Callbacks!Conclude(j, end)
    BY DEF Fates, Heard, Closed, Callbacks!Conclude

\* An attempt or a wait leaves its goroutine at work and what the payee said.
LEMMA AtWork ==
    ASSUME DispatcherInv, NEW j \in Job,
           \/ Post(j) \/ AnswerArrives(j) \/ TransportFails(j) \/ Abort(j)
           \/ TimerFires(j) \/ WaitInterrupted(j)
    PROVE  /\ job' = [job EXCEPT ![j] = job'[j]] /\ UNCHANGED <<closer, log>>
           /\ job[j].pc \in Owed /\ job'[j].pc \in Owed /\ job'[j].heard = job[j].heard
    <1>1. job \in [Job -> Goroutine] /\ job[j] \in Goroutine
        BY DEF DispatcherInv, TypeInv
    <1>2. UNCHANGED <<closer, log>> /\ job[j].pc \in Owed
        BY DEF Post, AnswerArrives, TransportFails, Expires, Abort, TimerFires, WaitInterrupted, Owed
    <1>3. ASSUME NEW a \in Made, Attempted(j, a)
          PROVE  /\ job' = [job EXCEPT ![j] = job'[j]]
                 /\ job'[j].pc \in Owed /\ job'[j].heard = job[j].heard
        <2>1. /\ job' = [job EXCEPT ![j] = job'[j]]
              /\ job'[j] = [pc |-> AfterAttempt(j, a), attempts |-> Append(job[j].attempts, a),
                            answer |-> NoAnswer, heard |-> job[j].heard]
            BY <1>1, <1>3, AttemptedIs, Zenon
        <2>2. AfterAttempt(j, a) \in Owed
            BY DEF AfterAttempt, Owed
        <2> QED
            BY <2>1, <2>2
    <1>4. ASSUME NEW pc \in PC \cap Owed, Goes(j, [pc |-> pc])
          PROVE  /\ job' = [job EXCEPT ![j] = job'[j]]
                 /\ job'[j].pc \in Owed /\ job'[j].heard = job[j].heard
        <2>1. /\ job' = [job EXCEPT ![j] = job'[j]]
              /\ job'[j] = [pc |-> pc, attempts |-> job[j].attempts,
                            answer |-> job[j].answer, heard |-> job[j].heard]
            BY <1>1, <1>4, GoesTo
        <2> QED
            BY <2>1
    <1>5. \A b \in BOOLEAN : \A status \in Answers \cup {0} : Attempt(status, b) \in Made
        BY DEF Attempt, Made
    <1>6. job[j].answer \in Answers \cup {0}
        BY <1>1 DEF Goroutine, NoAnswer
    <1>7. {"wire", "post", "failed"} \subseteq PC \cap Owed
        BY DEF PC, Owed
    <1>8. \/ \E a \in Made : Attempted(j, a)
          \/ \E pc \in PC \cap Owed : Goes(j, [pc |-> pc])
        BY <1>5, <1>6, <1>7 DEF Post, AnswerArrives, TransportFails, Abort, TimerFires, WaitInterrupted
    <1> QED
        BY <1>2, <1>3, <1>4, <1>8

\* Every step of the dispatcher is one step of PixCallbacks or none.
LEMMA CallbacksStep ==
    ASSUME DispatcherInv, [Next]_vars
    PROVE  [Callbacks!Next]_(Callbacks!vars)
    <1>1. job \in [Job -> Goroutine] /\ TypeInv /\ \A j \in Job : Disciplined(job[j])
        BY DEF DispatcherInv, TypeInv, JobInv
    <1>2. \A j \in Job : /\ Fates[j] = Fate(j, job[j].pc, log)
                         /\ job[j].pc \in Owed => Fates[j] = "owed"
                         /\ job[j].pc = "new" => Fates[j] = "none"
        BY FateBefore DEF Fates
    <1>3. CASE UNCHANGED <<job, closer, log>>
        BY <1>3 DEF Callbacks!vars, Closed
    <1>4. CASE CloseDoor \/ Signal \/ CutShort
        <2>1. UNCHANGED <<job, log>> /\ Closed' /\ closer # "returned" /\ closer' # "returned"
            BY <1>4 DEF CloseDoor, Signal, CutShort, Closed
        <2>2. CASE Closed
            BY <2>1, <2>2 DEF Callbacks!vars
        <2>3. CASE ~Closed
            BY <2>1, <2>3 DEF Callbacks!Next, Callbacks!Shut
        <2> QED
            BY <2>2, <2>3
    <1>5. CASE CloseReturns
        <2>1. \A j \in Job : Fates[j] # "owed"
            <3> TAKE j \in Job
            <3>1. job[j].pc \in PC /\ job[j].pc \notin Counted
                BY <1>1, <1>5 DEF Goroutine, CloseReturns, Drained
            <3>2. job[j].pc \in {"new", "dropped"} => Fates[j] # "owed"
                BY <1>2, FateBefore
            <3>3. ASSUME job[j].pc = "done", NEW v \in Range(log), v.job = j
                  PROVE  Fates[j] # "owed"
                <4>1. Fates[j] = v.type
                    BY <1>2, <3>3, FateIsRecorded, OneVerdictEach DEF DispatcherInv
                <4>2. v.type \in {"delivered", "failed"}
                    BY <1>1, LogIs DEF Range
                <4> QED
                    BY <4>1, <4>2
            <3>4. ASSUME job[j].pc = "done", \A v \in Range(log) : v.job # j
                  PROVE  Fates[j] # "owed"
                BY <1>2, <3>4, FateUnrecorded
            <3> QED
                BY <3>1, <3>2, <3>3, <3>4 DEF PC, Counted
        <2> QED
            BY <1>5, <2>1 DEF CloseReturns, Closed, Callbacks!Next, Callbacks!Return, Fates
    <1>6. ASSUME NEW j \in Job, Deliver(j)
          PROVE  Callbacks!Take(j)
        <2> DEFINE pc == IF Closed THEN "dropped" ELSE "post"
        <2>1. pc \in PC /\ Goes(j, [pc |-> pc]) /\ job[j].pc = "new" /\ UNCHANGED <<closer, log>>
            BY <1>6 DEF Deliver, PC
        <2>2. pc = (IF Closed THEN "dropped" ELSE "post")
            OBVIOUS
        <2> HIDE DEF pc
        <2>3. /\ job' = [job EXCEPT ![j] = job'[j]]
              /\ job'[j] = [pc |-> pc, attempts |-> job[j].attempts,
                            answer |-> job[j].answer, heard |-> job[j].heard]
            BY <1>1, <2>1, GoesTo
        <2>4. /\ Fates' = [Fates EXCEPT ![j] = Fate(j, pc, log)]
              /\ \A k \in Job : k \in Heard' <=> k \in Heard
            BY <1>1, <2>1, <2>3, OthersKeep
        <2>5. Fate(j, pc, log) = IF ~Closed THEN "owed" ELSE "refused"
            BY <2>2, FateBefore DEF Owed
        <2>6. Heard' = Heard
            BY <2>4 DEF Heard
        <2> QED
            BY <1>2, <2>1, <2>4, <2>5, <2>6, SeesTake
    <1>7. ASSUME NEW j \in Job, PayeeAnswers(j)
          PROVE  Callbacks!Accept(j) \/ UNCHANGED Callbacks!vars
        <2>1. PICK status \in Answers :
                  Goes(j, [answer |-> status, heard |-> job[j].heard \/ Success(status)])
            BY <1>7 DEF PayeeAnswers
        <2> DEFINE heard == job[j].heard \/ Success(status)
        <2>2. Goes(j, [answer |-> status, heard |-> heard]) /\ (job[j].heard => heard)
            BY <2>1
        <2> HIDE DEF heard
        <2>3. /\ job' = [job EXCEPT ![j] = job'[j]]
              /\ job'[j] = [pc |-> job[j].pc, attempts |-> job[j].attempts, answer |-> status,
                            heard |-> heard]
            BY <1>1, <2>2, GoesIs
        <2>4. UNCHANGED <<closer, log>> /\ job[j].pc = "wire" /\ job'[j].pc = "wire"
            BY <1>7, <2>3 DEF PayeeAnswers
        <2>5. Fates' = Fates /\ \A k \in Job : k # j => (k \in Heard' <=> k \in Heard)
            <3>1. /\ Fates' = [Fates EXCEPT ![j] = Fate(j, "wire", log)]
                  /\ \A k \in Job : k # j => (k \in Heard' <=> k \in Heard)
                BY <1>1, <2>3, <2>4, OthersKeep
            <3>2. Fates[j] = Fate(j, "wire", log)
                BY <1>2, <2>4
            <3> QED
                BY <3>1, <3>2 DEF Fates
        <2>6. (j \in Heard' <=> heard) /\ (j \in Heard => heard)
            BY <2>2, <2>3 DEF Heard
        <2>7. CASE heard
            <3>1. Heard' = Heard \cup {j}
                BY <2>5, <2>6, <2>7 DEF Heard
            <3> QED
                BY <1>2, <2>4, <2>5, <3>1, SeesAccept DEF Owed
        <2>8. CASE ~heard
            <3>1. Heard' = Heard
                BY <2>5, <2>6, <2>8 DEF Heard
            <3> QED
                BY <2>4, <2>5, <3>1, SeesNothing
        <2> QED
            BY <2>7, <2>8
    <1>8. ASSUME NEW j \in Job,
                 \/ Post(j) \/ AnswerArrives(j) \/ TransportFails(j) \/ Abort(j)
                 \/ TimerFires(j) \/ WaitInterrupted(j)
          PROVE  UNCHANGED Callbacks!vars
        BY <1>1, <1>8, AtWork, StaysOwed, SeesNothing
    <1>9. ASSUME NEW j \in Job, Record(j)
          PROVE  Callbacks!Conclude(j, job[j].pc)
        <2>1. job[j].pc \in {"delivered", "failed"} /\ UNCHANGED closer
            BY <1>9 DEF Record
        <2>2. job[j].pc = "delivered" => j \in Heard
            BY <1>1 DEF Disciplined, Heard
        <2> QED
            BY <1>2, <1>9, <2>1, <2>2, RecordConcludes, SeesConclude DEF Owed
    <1>10. ASSUME NEW j \in Job, RecordFails(j)
           PROVE  Callbacks!Conclude(j, "unrecorded")
        BY <1>2, <1>10, RecordFailsConcludes, SeesConclude DEF Owed, RecordFails
    <1>11. \A j \in Job : /\ Callbacks!Take(j) => Callbacks!Next
                          /\ Callbacks!Accept(j) => Callbacks!Next
                          /\ \A end \in {"delivered", "failed", "unrecorded"} :
                                Callbacks!Conclude(j, end) => Callbacks!Next
        BY DEF Callbacks!Next
    <1>12. \A j \in Job : Record(j) => job[j].pc \in {"delivered", "failed", "unrecorded"}
        BY DEF Record
    <1>13. CASE BudgetEnds \/ UNCHANGED vars
        BY <1>3, <1>13 DEF BudgetEnds, vars
    <1> QED
        BY <1>4, <1>5, <1>6, <1>7, <1>8, <1>9, <1>10, <1>11, <1>12, <1>13 DEF Next, Run, Close

\* Each callback taken ends in exactly one way and Close returns over none: the
\* dispatcher implements PixCallbacks.
THEOREM CallbacksImplemented == Spec => CallbacksKept
    <1>1. Init => Callbacks!Init
        BY DEF Init, New, Fate, Closed, Callbacks!Init
    <1>2. DispatcherInv /\ [Next]_vars => [Callbacks!Next]_(Callbacks!vars)
        BY CallbacksStep
    <1> QED
        BY <1>1, <1>2, DispatcherCorrect, PTL DEF Spec, CallbacksKept, Callbacks!Spec

-----------------------------------------------------------------------------
(***************************************************************************)
(* The dispatcher inside the process.                                      *)
(***************************************************************************)
\* Whatever main and the handlers do, the dispatcher makes one of its own steps
\* or none.
LEMMA ProcessStepRuns ==
    ASSUME [ProcessNext]_everything
    PROVE  [Next]_vars
    <1>1. CASE UNCHANGED everything
        BY <1>1 DEF everything
    <1>2. CASE ListenFails \/ Terminate \/ ShutdownReturns \/ ShutdownOverruns \/ StoreCloses \/ Exit
        BY <1>2 DEF ListenFails, Terminate, ShutdownReturns, ShutdownOverruns, StoreCloses, Exit
    <1>3. CASE DeadlinePasses
        BY <1>3 DEF DeadlinePasses, Next
    <1>4. CASE CloseRuns
        BY <1>4 DEF CloseRuns, Next
    <1>5. ASSUME NEW j \in Job, Arrive(j) \/ HandlerEnds(j)
          PROVE  UNCHANGED vars
        BY <1>5 DEF Arrive, HandlerEnds
    <1>6. ASSUME NEW j \in Job, HandlerDelivers(j) \/ PayeeAnswers(j) \/ JobRuns(j)
          PROVE  Deliver(j) \/ PayeeAnswers(j) \/ Run(j)
        BY <1>6 DEF HandlerDelivers, JobRuns, Run
    <1>7. ASSUME NEW j \in Job, Deliver(j) \/ PayeeAnswers(j) \/ Run(j)
          PROVE  Next
        BY <1>7 DEF Next
    <1> QED
        BY <1>1, <1>2, <1>3, <1>4, <1>5, <1>6, <1>7 DEF ProcessNext, Main

\* Every theorem about Dispatcher holds of the dispatcher in the process.
THEOREM ProcessRunsDispatcher == ProcessSpec => Spec
    <1>1. ProcessInit => Init
        BY DEF ProcessInit
    <1>2. [ProcessNext]_everything => [Next]_vars
        BY ProcessStepRuns
    <1> QED
        BY <1>1, <1>2, PTL DEF ProcessSpec, Spec

-----------------------------------------------------------------------------
(***************************************************************************)
(* The order of a shutdown.                                                *)
(***************************************************************************)
ProcessTypeInv ==
    /\ handler \in [Job -> {"none", "active", "done"}]
    /\ main \in {"serving", "failed", "shutting", "overran", "closing"}
    /\ storeOpen \in BOOLEAN /\ alive \in BOOLEAN

\* Close begins with no request left, and ends before the store does: that no
\* callback is refused and no verdict lost follows from the order alone.
ShutdownInv ==
    /\ main = "closing" => Busy = {}
    /\ closer # "idle" => main = "closing"
    /\ ~storeOpen /\ main = "closing" => closer = "returned"
    /\ main \in {"serving", "shutting"} => storeOpen

ProcessInv == ProcessTypeInv /\ ShutdownInv /\ NothingRefused

\* A step of a goroutine refuses no callback.
LEMMA RunRefusesNone ==
    ASSUME DispatcherInv, NothingRefused, NEW j \in Job, PayeeAnswers(j) \/ Run(j)
    PROVE  NothingRefused' /\ UNCHANGED closer
    <1>1. job \in [Job -> Goroutine]
        BY DEF DispatcherInv, TypeInv
    <1>2. /\ job' = [job EXCEPT ![j] = job'[j]] /\ job'[j].pc # "dropped"
          /\ UNCHANGED closer
        <2>1. CASE PayeeAnswers(j)
            <3>1. PICK status \in Answers :
                      Goes(j, [answer |-> status, heard |-> job[j].heard \/ Success(status)])
                BY <2>1 DEF PayeeAnswers
            <3> DEFINE heard == job[j].heard \/ Success(status)
            <3>2. Goes(j, [answer |-> status, heard |-> heard])
                BY <3>1
            <3> HIDE DEF heard
            <3>3. /\ job' = [job EXCEPT ![j] = job'[j]]
                  /\ job'[j] = [pc |-> job[j].pc, attempts |-> job[j].attempts,
                                answer |-> status, heard |-> heard]
                BY <1>1, <3>2, GoesIs
            <3> QED
                BY <2>1, <3>3 DEF PayeeAnswers
        <2>2. CASE Record(j) \/ RecordFails(j)
            <3>1. Goes(j, [pc |-> "done"]) /\ "done" \in PC /\ UNCHANGED closer
                BY <2>2 DEF Record, RecordFails, PC
            <3>2. /\ job' = [job EXCEPT ![j] = job'[j]]
                  /\ job'[j] = [pc |-> "done", attempts |-> job[j].attempts,
                                answer |-> job[j].answer, heard |-> job[j].heard]
                BY <1>1, <3>1, GoesTo
            <3> QED
                BY <3>1, <3>2
        <2>3. CASE ~(PayeeAnswers(j) \/ Record(j) \/ RecordFails(j))
            BY <2>3, AtWork DEF Run, Owed
        <2> QED
            BY <2>1, <2>2, <2>3
    <1> QED
        BY <1>1, <1>2 DEF NothingRefused

LEMMA ProcessStepKeeps ==
    ASSUME DispatcherInv, ProcessInv, [ProcessNext]_everything
    PROVE  ProcessInv'
    <1> USE DEF ProcessInv
    <1>1. CASE UNCHANGED everything
        BY <1>1 DEF everything, vars, processVars, ProcessTypeInv, ShutdownInv, Busy, NothingRefused
    <1>2. ASSUME NEW j \in Job, Arrive(j)
          PROVE  ProcessInv'
        <2>1. handler' = [handler EXCEPT ![j] = "active"] /\ main = "serving"
              /\ UNCHANGED <<job, closer, main, storeOpen, alive>>
            BY <1>2 DEF Arrive, vars
        <2> QED
            BY <2>1 DEF ProcessTypeInv, ShutdownInv, NothingRefused
    <1>3. ASSUME NEW j \in Job, HandlerEnds(j)
          PROVE  ProcessInv'
        <2>1. handler' = [handler EXCEPT ![j] = "done"]
              /\ UNCHANGED <<job, closer, main, storeOpen, alive>>
            BY <1>3 DEF HandlerEnds, vars
        <2>2. Busy' \subseteq Busy
            BY <2>1 DEF Busy, ProcessTypeInv
        <2> QED
            BY <2>1, <2>2 DEF ProcessTypeInv, ShutdownInv, NothingRefused
    <1>4. ASSUME NEW j \in Job, HandlerDelivers(j)
          PROVE  ProcessInv'
        <2>1. ~Closed /\ UNCHANGED <<closer, processVars>> /\ Goes(j, [pc |-> "post"])
            BY <1>4 DEF HandlerDelivers, Deliver, ShutdownInv, Closed
        <2>2. job \in [Job -> Goroutine] /\ "post" \in PC
            BY DEF DispatcherInv, TypeInv, PC
        <2>3. /\ job' = [job EXCEPT ![j] = job'[j]]
              /\ job'[j] = [pc |-> "post", attempts |-> job[j].attempts,
                            answer |-> job[j].answer, heard |-> job[j].heard]
            BY <2>1, <2>2, GoesTo
        <2>4. NothingRefused'
            BY <2>2, <2>3 DEF NothingRefused
        <2> QED
            BY <2>1, <2>4 DEF processVars, ProcessTypeInv, ShutdownInv, Busy
    <1>5. ASSUME NEW j \in Job, JobRuns(j) \/ (PayeeAnswers(j) /\ UNCHANGED processVars)
          PROVE  ProcessInv'
        <2>1. UNCHANGED processVars /\ (PayeeAnswers(j) \/ Run(j))
            BY <1>5 DEF JobRuns, Run
        <2>2. NothingRefused' /\ UNCHANGED closer
            BY <2>1, RunRefusesNone
        <2> QED
            BY <2>1, <2>2 DEF processVars, ProcessTypeInv, ShutdownInv, Busy
    <1>6. CASE DeadlinePasses
        BY <1>6 DEF DeadlinePasses, BudgetEnds, processVars, ProcessTypeInv, ShutdownInv, Busy,
                    NothingRefused
    <1>7. CASE CloseRuns
        <2>1. UNCHANGED <<job, processVars>> /\ main = "closing"
            BY <1>7 DEF CloseRuns, CloseDoor, Close, Signal, CutShort, CloseReturns
        <2>2. closer # "returned"
            BY <1>7 DEF CloseRuns, CloseDoor, Close, Signal, CutShort, CloseReturns
        <2> QED
            BY <2>1, <2>2 DEF processVars, ProcessTypeInv, ShutdownInv, Busy, NothingRefused
    <1>8. CASE ListenFails \/ Terminate \/ ShutdownReturns \/ ShutdownOverruns
        <2>1. /\ UNCHANGED <<job, closer, handler, storeOpen, alive>>
              /\ main \in {"serving", "shutting"}
              /\ main' \in {"failed", "shutting", "closing", "overran"}
              /\ main' = "closing" => Busy = {}
            BY <1>8 DEF ListenFails, Terminate, ShutdownReturns, ShutdownOverruns, ShutdownIdle, vars
        <2> QED
            BY <2>1 DEF ProcessTypeInv, ShutdownInv, Busy, NothingRefused
    <1>9. CASE StoreCloses \/ Exit
        <2>1. /\ UNCHANGED <<job, closer, handler, main>>
              /\ storeOpen' \in BOOLEAN /\ alive' \in BOOLEAN
              /\ ~storeOpen' /\ storeOpen =>
                    \/ main \in {"failed", "overran"}
                    \/ main = "closing" /\ closer = "returned"
            BY <1>9 DEF StoreCloses, Exit, RunReturns, vars, ProcessTypeInv
        <2>2. Busy' = Busy
            BY <2>1 DEF Busy
        <2> QED
            BY <2>1, <2>2 DEF ProcessTypeInv, ShutdownInv, NothingRefused
    <1> QED
        BY <1>1, <1>2, <1>3, <1>4, <1>5, <1>6, <1>7, <1>8, <1>9 DEF ProcessNext, Main

\* Each thread's place in run(), the handlers still open and the goroutines still at
\* work fit together in every reachable state.
THEOREM ProcessCorrect == ProcessSpec => []ProcessInv
    <1>1. ProcessInit => ProcessInv
        BY DEF ProcessInit, Init, New, ProcessInv, ProcessTypeInv, ShutdownInv, Busy, NothingRefused
    <1>2. DispatcherInv /\ ProcessInv /\ [ProcessNext]_everything => ProcessInv'
        BY ProcessStepKeeps
    <1> QED
        BY <1>1, <1>2, ProcessRunsDispatcher, DispatcherCorrect, PTL DEF ProcessSpec

\* main, its handlers and the goroutines stay in the states of run(), ServeHTTP
\* and deliver.
THEOREM ProcessTyped == ProcessSpec => []ProcessTypeOK
    <1>1. TypeOK /\ ProcessInv => ProcessTypeOK
        BY DEF ProcessInv, ProcessTypeInv, ProcessTypeOK
    <1> QED
        BY <1>1, ProcessCorrect, ProcessRunsDispatcher, DispatcherTyped, PTL

\* The door closes behind the last request that was taken: no callback is dropped.
THEOREM NoneRefused == ProcessSpec => []NothingRefused
    <1>1. ProcessInv => NothingRefused
        BY DEF ProcessInv
    <1> QED
        BY <1>1, ProcessCorrect, PTL

\* After a shutdown inside its budget the store closes over no handler and over
\* no goroutine with a verdict still to write.
THEOREM StoreOutlives == ProcessSpec => []StoreOutlivesWork
    <1>1. DispatcherInv /\ ProcessInv => StoreOutlivesWork
        BY DEF ProcessInv, ShutdownInv, StoreOutlivesWork, DispatcherInv, CloseInv
    <1> QED
        BY <1>1, ProcessCorrect, ProcessRunsDispatcher, DispatcherCorrect, PTL
=============================================================================
