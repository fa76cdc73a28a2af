------------------------------ MODULE Dispatcher ------------------------------
(***************************************************************************)
(* internal/webhook: callbacks posted in the background, retried on a      *)
(* fixed schedule, and a Close that stops taking callbacks, lets what is   *)
(* on the wire finish inside a budget, aborts the rest and waits for every *)
(* verdict.                                                                *)
(*                                                                         *)
(* Job j is one call of Deliver and the goroutine it starts; job[j].pc is  *)
(* where that goroutine is.  The payee and the network are the            *)
(* environment: a request may reach the payee and its answer be lost.      *)
(* Waits have no length here: a timer fires at any time.                   *)
(***************************************************************************)
EXTENDS Naturals, Sequences, SequencesExt

CONSTANTS
    Job,        \* calls of Deliver
    Retries,    \* len(backoff)
    Answers     \* the status codes a payee answers with

ASSUME RetriesAssumption == Retries \in Nat
ASSUME AnswersAssumption == Answers \subseteq 200 .. 599

VARIABLES
    job,         \* the goroutines
    closer,      \* where the one call of Close is
    budget,      \* FALSE once the context of Close is done
    cancelled,   \* d.ctx is cancelled
    log          \* the verdicts recorded

vars == <<job, closer, budget, cancelled, log>>

NoAnswer == 0

New == [pc |-> "new", attempts |-> <<>>, answer |-> NoAnswer, heard |-> FALSE]

Init ==
    /\ job = [j \in Job |-> New]
    /\ closer = "idle"
    /\ budget = TRUE
    /\ cancelled = FALSE
    /\ log = <<>>

Goes(j, fields) ==
    job' = [job EXCEPT ![j] = [k \in DOMAIN New |-> IF k \in DOMAIN fields THEN fields[k] ELSE @[k]]]

-----------------------------------------------------------------------------
(***************************************************************************)
(* Deliver: under the mutex, refused when closed, or counted and started.  *)
(***************************************************************************)
Closed == closer # "idle"

Deliver(j) ==
    /\ job[j].pc = "new"
    /\ Goes(j, [pc |-> IF Closed THEN "dropped" ELSE "post"])
    /\ UNCHANGED <<closer, budget, cancelled, log>>

(***************************************************************************)
(* deliver: what follows an attempt.  Status 0 is a transport failure;     *)
(* cancelled tells an abort by Close from any other.                       *)
(***************************************************************************)
Attempt(status, aborted) == [status |-> status, aborted |-> aborted]

\* mutant: the status is compared without looking at the error
SuccessUnlessRefused(status) == status < 400

Success(status) == status \in 1 .. 399

\* mutant: every failure is worth another attempt
RetryableAlways(status) == TRUE

Retryable(status) == status = 0 \/ status = 429 \/ status >= 500

\* mutant: n compared with len(backoff) before it counts this attempt
ScheduleSpentLate(attempts) == Len(attempts) = Retries + 2

\* n = len(backoff), with attempts holding number n + 1.
ScheduleSpent(attempts) == Len(attempts) = Retries + 1

Attempted(j, a) ==
    LET attempts == Append(job[j].attempts, a)
    IN  Goes(j,
          [attempts |-> attempts, answer |-> NoAnswer,
           pc |-> IF Success(a.status) THEN "delivered"
                  ELSE IF Retryable(a.status) /\ ~ScheduleSpent(attempts) THEN "wait"
                  ELSE "failed"])

\* post on a cancelled context fails before anything is sent.
Post(j) ==
    /\ job[j].pc = "post"
    /\ IF cancelled THEN Attempted(j, Attempt(0, TRUE)) ELSE Goes(j, [pc |-> "wire"])
    /\ UNCHANGED <<closer, budget, cancelled, log>>

\* The payee takes the request and answers it.
PayeeAnswers(j) ==
    /\ job[j].pc = "wire"
    /\ job[j].answer = NoAnswer
    /\ \E status \in Answers :
          Goes(j, [answer |-> status, heard |-> job[j].heard \/ Success(status)])
    /\ UNCHANGED <<closer, budget, cancelled, log>>

AnswerArrives(j) ==
    /\ job[j].pc = "wire"
    /\ job[j].answer # NoAnswer
    /\ Attempted(j, Attempt(job[j].answer, FALSE))
    /\ UNCHANGED <<closer, budget, cancelled, log>>

\* mutant: a client without a timeout
ExpiresNever(j) == FALSE

\* Every attempt is bounded by the client's timeout.
Expires(j) == job[j].pc = "wire"

TransportFails(j) ==
    /\ Expires(j)
    /\ Attempted(j, Attempt(0, FALSE))
    /\ UNCHANGED <<closer, budget, cancelled, log>>

Abort(j) ==
    /\ job[j].pc = "wire"
    /\ cancelled
    /\ Attempted(j, Attempt(0, TRUE))
    /\ UNCHANGED <<closer, budget, cancelled, log>>

-----------------------------------------------------------------------------
(***************************************************************************)
(* wait: the timer or, once closing is closed, the end of the job; select  *)
(* picks either when both are ready.                                       *)
(***************************************************************************)
Signalled == closer \in {"draining", "aborting", "returned"}

Interrupted == Signalled \/ cancelled

TimerFires(j) ==
    /\ job[j].pc = "wait"
    /\ Goes(j, [pc |-> "post"])
    /\ UNCHANGED <<closer, budget, cancelled, log>>

WaitInterrupted(j) ==
    /\ job[j].pc = "wait"
    /\ Interrupted
    /\ Goes(j, [pc |-> "failed"])
    /\ UNCHANGED <<closer, budget, cancelled, log>>

-----------------------------------------------------------------------------
(***************************************************************************)
(* record, on a context of its own: one event, or none when the store      *)
(* refuses it or the five seconds pass.                                    *)
(***************************************************************************)
Verdict(j) == [job |-> j, type |-> job[j].pc, attempts |-> job[j].attempts]

Record(j) ==
    /\ job[j].pc \in {"delivered", "failed"}
    /\ log' = Append(log, Verdict(j))
    /\ Goes(j, [pc |-> "done"])
    /\ UNCHANGED <<closer, budget, cancelled>>

RecordFails(j) ==
    /\ job[j].pc \in {"delivered", "failed"}
    /\ Goes(j, [pc |-> "done"])
    /\ UNCHANGED <<closer, budget, cancelled, log>>

-----------------------------------------------------------------------------
(***************************************************************************)
(* Close.                                                                  *)
(***************************************************************************)
\* mutant: wg.Add is left to the goroutine
CountedOnceRunning == {"wire", "wait", "delivered", "failed"}

\* Where a job is while the wait group counts it.
Counted == {"post", "wire", "wait", "delivered", "failed"}

Drained == \A j \in Job : job[j].pc \notin Counted

CloseDoor ==
    /\ closer = "idle"
    /\ closer' = "closed"
    /\ UNCHANGED <<job, budget, cancelled, log>>

\* mutant: the context is cancelled together with the pending retries
SignalAndCancel ==
    /\ closer = "closed"
    /\ closer' = "draining"
    /\ cancelled' = TRUE
    /\ UNCHANGED <<job, budget, log>>

Signal ==
    /\ closer = "closed"
    /\ closer' = "draining"
    /\ UNCHANGED <<job, budget, cancelled, log>>

\* The deadline of main's shutdown context, which runs from before Close.
BudgetEnds ==
    /\ budget
    /\ budget' = FALSE
    /\ UNCHANGED <<job, closer, cancelled, log>>

CutShort ==
    /\ closer = "draining"
    /\ ~budget
    /\ closer' = "aborting"
    /\ cancelled' = TRUE
    /\ UNCHANGED <<job, budget, log>>

CloseReturns ==
    /\ closer \in {"draining", "aborting"}
    /\ Drained
    /\ closer' = "returned"
    /\ cancelled' = TRUE
    /\ UNCHANGED <<job, budget, log>>

-----------------------------------------------------------------------------
Run(j) ==
    \/ Post(j) \/ AnswerArrives(j) \/ TransportFails(j) \/ Abort(j)
    \/ TimerFires(j) \/ WaitInterrupted(j) \/ Record(j) \/ RecordFails(j)

Close == Signal \/ CutShort \/ CloseReturns

Next ==
    \/ \E j \in Job : Deliver(j) \/ PayeeAnswers(j) \/ Run(j)
    \/ CloseDoor \/ BudgetEnds \/ Close

Spec == Init /\ [][Next]_vars

-----------------------------------------------------------------------------
PC == {"new", "dropped", "post", "wire", "wait", "delivered", "failed", "done"}

Made == [status : Answers \cup {0}, aborted : BOOLEAN]

Goroutine ==
    [pc : PC, attempts : Seq(Made), answer : Answers \cup {NoAnswer}, heard : BOOLEAN]

Verdicts == [job : Job, type : {"delivered", "failed"}, attempts : Seq(Made)]

TypeOK ==
    /\ job \in [Job -> Goroutine]
    /\ closer \in {"idle", "closed", "draining", "aborting", "returned"}
    /\ budget \in BOOLEAN /\ cancelled \in BOOLEAN
    /\ log \in Seq(Verdicts)
    \* backoff[n-1] and attempts[len-1] are indexes into what is there
    /\ \A j \in Job :
          /\ job[j].pc = "wait" => Len(job[j].attempts) \in 1 .. Retries
          /\ job[j].pc \in {"delivered", "failed"} => job[j].attempts # <<>>

\* The verdict on the timeline is the one the attempts earned: at least one was
\* made (record indexes the last), only a retryable one was followed by another,
\* never more than the schedule allows; "delivered" says the last one succeeded
\* and the payee did accept it; "failed" with attempts left to make is either an
\* answer that no retry could better or the shutdown.
VerdictEarned ==
    \A i \in DOMAIN log :
        LET attempts == log[i].attempts
            n == Len(attempts)
            WorthRetrying(m) == attempts[m].status \in {0, 429} \cup 500 .. 599
        IN  /\ n \in 1 .. Retries + 1
            /\ \A m \in 1 .. n - 1 : WorthRetrying(m)
            /\ log[i].type = "delivered" <=> attempts[n].status \in 1 .. 399
            /\ log[i].type = "delivered" => job[log[i].job].heard
            /\ log[i].type = "failed" /\ n <= Retries /\ WorthRetrying(n) => Closed

\* Close aborts nothing while its budget lasts: a callback that straddles the
\* shutdown is not turned into a webhook.failed of a payee that had accepted it,
\* unless the budget ran out or the answer was lost on the way.
AbortsOnlyPastBudget ==
    \A j \in Job : \A n \in DOMAIN job[j].attempts :
        job[j].attempts[n].aborted => ~budget /\ closer \in {"aborting", "returned"}

\* No goroutine is left behind: once Close has returned nothing is sent, and no
\* verdict is written to a store main is about to close.
QuietAfterClose ==
    [][closer = "returned" => UNCHANGED log /\ \A j \in Job : job'[j].attempts = job[j].attempts]_vars

-----------------------------------------------------------------------------
\* Where PixCallbacks sees a job that is at pc, by the verdicts recorded.  A
\* verdict that was not recorded leaves no event.
Fate(j, pc, verdicts) ==
    CASE pc = "new" -> "none"
      [] pc = "dropped" -> "refused"
      [] pc \in {"post", "wire", "wait", "delivered", "failed"} -> "owed"
      [] pc = "done" ->
            IF \E v \in Range(verdicts) : v.job = j
            THEN (CHOOSE v \in Range(verdicts) : v.job = j).type
            ELSE "unrecorded"

Callbacks == INSTANCE PixCallbacks WITH
    open <- ~Closed,
    fate <- [j \in Job |-> Fate(j, job[j].pc, log)],
    accepted <- {j \in Job : job[j].heard},
    returned <- closer = "returned"

\* Every callback taken ends in exactly one way, and Close returns over none.
CallbacksKept == Callbacks!Spec
=============================================================================
