------------------------------- MODULE Process --------------------------------
(***************************************************************************)
(* cmd/pix-sandbox: the server that serves until a signal, then Shutdown,  *)
(* the drain of the callbacks, the store closed and the exit, with the     *)
(* handlers and the dispatcher's goroutines running beside main until the  *)
(* process is gone.                                                        *)
(*                                                                         *)
(* Handler j is the request whose callback is job j of Dispatcher; it may  *)
(* also end without one.  main is where run() is.  A request has no length *)
(* here: a slow client keeps its handler busy past any budget.             *)
(***************************************************************************)
EXTENDS Dispatcher

VARIABLES
    handler,     \* "none", "active" or "done"
    main,        \* "serving", "failed", "shutting", "overran" or "closing"
    storeOpen,   \* the database handle
    alive        \* the process exists

processVars == <<handler, main, storeOpen, alive>>

everything == <<vars, processVars>>

ProcessInit ==
    /\ Init
    /\ handler = [j \in Job |-> "none"]
    /\ main = "serving"
    /\ storeOpen = TRUE
    /\ alive = TRUE

Busy == {j \in Job : handler[j] = "active"}

-----------------------------------------------------------------------------
(***************************************************************************)
(* Requests.  The listener takes connections until Shutdown closes it.     *)
(***************************************************************************)
Arrive(j) ==
    /\ main = "serving"
    /\ handler[j] = "none"
    /\ handler' = [handler EXCEPT ![j] = "active"]
    /\ UNCHANGED <<vars, main, storeOpen, alive>>

HandlerDelivers(j) ==
    /\ j \in Busy
    /\ Deliver(j)
    /\ UNCHANGED processVars

HandlerEnds(j) ==
    /\ j \in Busy
    /\ handler' = [handler EXCEPT ![j] = "done"]
    /\ UNCHANGED <<vars, main, storeOpen, alive>>

(***************************************************************************)
(* A goroutine of the dispatcher.  The event of a verdict needs the store. *)
(***************************************************************************)
JobRuns(j) ==
    /\ \/ Post(j) \/ AnswerArrives(j) \/ TransportFails(j) \/ Abort(j)
       \/ TimerFires(j) \/ WaitInterrupted(j)
       \/ storeOpen /\ Record(j)
       \/ RecordFails(j)
    /\ UNCHANGED processVars

-----------------------------------------------------------------------------
(***************************************************************************)
(* run().                                                                  *)
(***************************************************************************)
ListenFails ==
    /\ main = "serving"
    /\ main' = "failed"
    /\ UNCHANGED <<vars, handler, storeOpen, alive>>

Terminate ==
    /\ main = "serving"
    /\ main' = "shutting"
    /\ UNCHANGED <<vars, handler, storeOpen, alive>>

\* The ten seconds run from the signal, for Shutdown and for Close together.
DeadlinePasses ==
    /\ main \in {"shutting", "closing"}
    /\ BudgetEnds
    /\ UNCHANGED processVars

\* mutant: the callbacks are drained before the requests
ShutdownIdleAtOnce == TRUE

\* net/http: Shutdown returns nil once every connection is idle.
ShutdownIdle == Busy = {}

ShutdownReturns ==
    /\ main = "shutting"
    /\ ShutdownIdle
    /\ main' = "closing"
    /\ UNCHANGED <<vars, handler, storeOpen, alive>>

\* mutant: Shutdown on a context without a deadline
DeadlineMissed == FALSE

Deadline == ~budget

ShutdownOverruns ==
    /\ main = "shutting"
    /\ Deadline
    /\ main' = "overran"
    /\ UNCHANGED <<vars, handler, storeOpen, alive>>

CloseRuns ==
    /\ main = "closing"
    /\ CloseDoor \/ Close
    /\ UNCHANGED processVars

\* mutant: Close is left without waiting for done once its context is
RunReturnsEarly ==
    \/ main \in {"failed", "overran"}
    \/ main = "closing" /\ closer \in {"aborting", "returned"}

RunReturns ==
    \/ main \in {"failed", "overran"}
    \/ main = "closing" /\ closer = "returned"

\* The deferred st.Close.
StoreCloses ==
    /\ RunReturns
    /\ storeOpen
    /\ storeOpen' = FALSE
    /\ UNCHANGED <<vars, handler, main, alive>>

Exit ==
    /\ ~storeOpen
    /\ alive' = FALSE
    /\ UNCHANGED <<vars, handler, main, storeOpen>>

Main ==
    \/ ShutdownReturns \/ ShutdownOverruns \/ CloseRuns \/ StoreCloses \/ Exit

ProcessNext ==
    /\ alive
    /\ \/ \E j \in Job :
             \/ Arrive(j) \/ HandlerDelivers(j) \/ HandlerEnds(j) \/ JobRuns(j)
             \/ PayeeAnswers(j) /\ UNCHANGED processVars
       \/ ListenFails \/ Terminate \/ DeadlinePasses \/ Main

\* The deadline passes, main and the goroutines run; a handler may stay busy, a
\* payee silent and the signal away for ever.
ProcessFairness ==
    /\ \A j \in Job : WF_everything(alive /\ JobRuns(j))
    /\ WF_everything(alive /\ DeadlinePasses)
    /\ WF_everything(alive /\ Main)

ProcessSpec == ProcessInit /\ [][ProcessNext]_everything /\ ProcessFairness

-----------------------------------------------------------------------------
ProcessTypeOK ==
    /\ TypeOK
    /\ handler \in [Job -> {"none", "active", "done"}]
    /\ main \in {"serving", "failed", "shutting", "overran", "closing"}
    /\ storeOpen \in BOOLEAN /\ alive \in BOOLEAN

\* No callback of an accepted request is refused by a door that shut too early:
\* Close begins only when no handler is left that could still deliver.
NothingRefused == \A j \in Job : job[j].pc # "dropped"

\* The store outlives what is written to it: unless run() leaves early, it closes
\* over no handler and no goroutine that still has a verdict to record.
StoreOutlivesWork ==
    ~storeOpen /\ main = "closing" => Busy = {} /\ Drained

\* As long as run() does not leave early, a callback that was taken ends, whatever
\* its payee does, with the event of its verdict or one the store refused.
VerdictComes ==
    \A j \in Job :
        job[j].pc = "post" ~> job[j].pc = "done" \/ main \in {"failed", "overran"}

\* A process told to stop is gone after a while, whatever its clients, its payees
\* and its retries do.
ExitComes == main # "serving" ~> ~alive

\* main.go:129 and dispatcher.go:236: the callbacks that outlive their request are
\* drained before the process ends, and shutdown swallows no verdict.
ShutdownDrains == ~alive /\ main # "failed" => Drained
=============================================================================
