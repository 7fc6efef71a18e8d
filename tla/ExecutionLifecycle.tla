------------------------- MODULE ExecutionLifecycle -------------------------
(***************************************************************************)
(* One user's executions, from the API request to the settled row.         *)
(*                                                                         *)
(* Three programs share the row of an execution in the database:           *)
(*   - the API process creates rows, starts drafts, cancels;               *)
(*   - the worker's queue consumer claims a row and spawns the Claude CLI; *)
(*   - the worker's exit handler, one per spawned process, decides the     *)
(*     outcome, publishes and settles the row.                             *)
(* Every database statement is one action, because every "await" between   *)
(* two statements lets the other programs run.  The queue is the           *)
(* at-least-once bag that ExecutionQueue implements; the AI review gate is *)
(* switched off here (ReviewGate models it).                               *)
(*                                                                         *)
(* What may go wrong around the code is a member of Faults, and at most    *)
(* MaxFaults of them happen.                                               *)
(***************************************************************************)
EXTENDS Naturals, FiniteSets

CONSTANTS
  Executions,     \* the execution ids of one user
  MaxRuns,        \* bound: CLI processes spawned for one execution
  MaxAttempts,    \* MAX_IMPLEMENTATION_ATTEMPTS of the publication service
  MaxConcurrent,  \* EXECUTION_MAX_CONCURRENT_PER_USER
  Faults,         \* which of FaultKinds may happen
  Alone,          \* bound: those of them that no other fault follows or precedes
  MaxFaults       \* bound: how many of them

FaultKinds ==
  { "workerCrash",     \* the worker process dies
    "workerStop",      \* the worker is shut down gracefully (SIGTERM)
    "apiCrash",        \* the API process dies with requests in flight
    "enqueueRefused",  \* rPush fails and the job is not in the queue
    "enqueueLost",     \* rPush fails although the job is in the queue
    "deafExit",        \* the CLI exits before its exit listener is attached
    "dbError" }        \* a statement of the claim or of the spawn fails

ASSUME BoundsAssumption ==
  /\ MaxRuns \in Nat \ {0}
  /\ MaxAttempts \in Nat \ {0}
  /\ MaxConcurrent \in Nat \ {0}
  /\ MaxFaults \in Nat
  /\ Faults \subseteq FaultKinds

VARIABLES
  row,      \* the executions table: one record per execution
  jobs,     \* how many queue entries name the execution
  cons,     \* the worker's queue consumer
  worker,   \* the worker process
  orphans,  \* recoverOrphans: candidates read and not yet recovered
  revived,  \* recoverOrphans: the candidate reset and not yet enqueued
  run,      \* the CLI processes spawned for each execution, with their handler
  active,   \* ExecutionRuntimeManager.activeExecutions: the run of each entry
  api,      \* the API request that is dispatching the execution
  cancels,  \* cancel requests that passed their check
  asked,    \* history: executions whose cancel request has been answered
  opened,   \* history: pull requests opened for each execution
  faults    \* how many faults happened

vars == <<row, jobs, cons, worker, orphans, revived, run, active, api, cancels,
          asked, opened, faults>>

Runs == 1..MaxRuns

Statuses == {"absent", "pending", "running", "completed", "failed", "cancelled"}
OrchestrationStates == {"queued", "running", "finalizing", "done", "failed"}
AutomationStatuses ==
  {"pending", "publishing", "published", "failed", "not_applicable", "no_changes"}
Row == [status : Statuses, orch : OrchestrationStates, autom : AutomationStatuses,
        draft : BOOLEAN, tries : 1..MaxAttempts]

Flags == {"timeout", "fatal", "cancel"}
HandlerSteps ==
  {"unused", "deaf", "armed", "read", "write", "route", "publish", "publishing",
   "requeue", "finishOk", "finishFail", "finishNone", "release", "ended"}
RunState == [alive : BOOLEAN, pc : HandlerSteps, stop : SUBSET Flags,
             timers : BOOLEAN, code : {"none", "zero", "nonzero"},
             result : Statuses, ref : 0..MaxRuns]

ConsumerSteps == {"idle", "claim", "load", "start", "spawn", "listen", "ack"}
NoExecution == "none"
ApiSteps == {"none", "create", "start", "createFailed", "startFailed"}

Unborn == [status |-> "absent", orch |-> "queued", autom |-> "pending",
           draft |-> FALSE, tries |-> 1]
UnusedRun == [alive |-> FALSE, pc |-> "unused", stop |-> {}, timers |-> FALSE,
              code |-> "none", result |-> "absent", ref |-> 0]
EndedRun == [UnusedRun EXCEPT !.pc = "ended"]
IdleConsumer == [pc |-> "idle", exec |-> NoExecution, proc |-> 0]

Init ==
  /\ row = [e \in Executions |-> Unborn]
  /\ jobs = [e \in Executions |-> 0]
  /\ cons = IdleConsumer
  /\ worker = "up"
  /\ orphans = {}
  /\ revived = {}
  /\ run = [e \in Executions |-> [r \in Runs |-> UnusedRun]]
  /\ active = [e \in Executions |-> 0]
  /\ api = [e \in Executions |-> "none"]
  /\ cancels = {}
  /\ asked = {}
  /\ opened = [e \in Executions |-> 0]
  /\ faults = 0

-----------------------------------------------------------------------------
(* The statements the three programs share.                                *)

\* An update by id that sets the three state columns, whatever they hold.
SetRow(e, s, o, a) ==
  row' = [row EXCEPT ![e].status = s, ![e].orch = o, ![e].autom = a]

FailRow(e) == SetRow(e, "failed", "failed", "failed")

\* Claimable by the consumer: the WHERE clause of processExecution.
Claimable(e) ==
  row[e].status = "pending" /\ row[e].orch = "queued" /\ ~row[e].draft

Enqueue(e) == jobs' = [jobs EXCEPT ![e] = @ + 1]

\* The count of assertConcurrentExecutionLimitWithinTransaction.
Counted(e) == row[e].status \in {"pending", "running"} /\ ~row[e].draft
ActiveCount == Cardinality({e \in Executions : Counted(e)})
BelowLimit == ActiveCount < MaxConcurrent

Fault(kind) ==
  /\ kind \in Faults /\ faults < MaxFaults
  /\ kind \in Alone => faults = 0
  /\ faults' = IF kind \in Alone THEN MaxFaults ELSE faults + 1

butRow == <<jobs, cons, worker, orphans, revived, run, active, api, cancels,
             asked, opened, faults>>

-----------------------------------------------------------------------------
(* The API process.                                                        *)

\* createForUser: the transaction that checks the limit and inserts the row.
CreateExecution(e) ==
  /\ row[e].status = "absent"
  /\ BelowLimit
  /\ row' = [row EXCEPT ![e].status = "pending"]
  /\ api' = [api EXCEPT ![e] = "create"]
  /\ UNCHANGED <<jobs, cons, worker, orphans, revived, run, active, cancels,
                 asked, opened, faults>>

\* createOrRefreshDraftForTask: the insert of a ready draft.
CreateDraft(e) ==
  /\ row[e].status = "absent"
  /\ row' = [row EXCEPT ![e].status = "pending", ![e].draft = TRUE]
  /\ UNCHANGED butRow

\* startDraftForUser: the transaction that turns a ready draft into a run.
StartDraft(e) ==
  /\ row[e].draft /\ row[e].status = "pending" /\ row[e].orch = "queued"
  /\ api[e] = "none"
  /\ BelowLimit
  /\ row' = [row EXCEPT ![e].draft = FALSE]
  /\ api' = [api EXCEPT ![e] = "start"]
  /\ UNCHANGED <<jobs, cons, worker, orphans, revived, run, active, cancels,
                 asked, opened, faults>>

\* dispatch, the job is in the queue and the request is answered.
Dispatch(e) ==
  /\ api[e] \in {"create", "start"}
  /\ Enqueue(e)
  /\ api' = [api EXCEPT ![e] = "none"]
  /\ UNCHANGED <<row, cons, worker, orphans, revived, run, active, cancels,
                 asked, opened, faults>>

\* dispatch throws; the job may have reached Redis all the same.
DispatchThrows(e) ==
  /\ api[e] \in {"create", "start"}
  /\ \/ Fault("enqueueRefused") /\ UNCHANGED jobs
     \/ Fault("enqueueLost") /\ Enqueue(e)
  /\ api' = [api EXCEPT ![e] = IF @ = "create" THEN "createFailed" ELSE "startFailed"]
  /\ UNCHANGED <<row, cons, worker, orphans, revived, run, active, cancels,
                 asked, opened>>

\* The catch blocks: a created row is failed, a started draft is a draft again.
UndoDispatch(e) ==
  /\ \/ api[e] = "createFailed" /\ FailRow(e)
     \/ /\ api[e] = "startFailed"
        /\ row' = [row EXCEPT ![e].status = "pending", ![e].orch = "queued",
                              ![e].autom = "pending", ![e].draft = TRUE]
  /\ api' = [api EXCEPT ![e] = "none"]
  /\ UNCHANGED <<jobs, cons, worker, orphans, revived, run, active, cancels,
                 asked, opened, faults>>

\* cancelForUser: the read.  A user cancels each execution once (the bound).
CancelRead(e) ==
  /\ row[e].status \in {"pending", "running"}
  /\ e \notin cancels /\ e \notin asked
  /\ cancels' = cancels \cup {e}
  /\ UNCHANGED <<row, jobs, cons, worker, orphans, revived, run, active, api,
                 asked, opened, faults>>

\* cancelForUser: the API process runs no CLI, so the row is overwritten.
CancelWrite(e) ==
  /\ e \in cancels
  /\ SetRow(e, "cancelled", "done", "not_applicable")
  /\ cancels' = cancels \ {e}
  /\ asked' = asked \cup {e}
  /\ UNCHANGED <<jobs, cons, worker, orphans, revived, run, active, api, opened,
                 faults>>

\* The API process dies: its requests in flight are gone.
ApiCrash ==
  /\ Fault("apiCrash")
  /\ api' = [e \in Executions |-> "none"]
  /\ cancels' = {}
  /\ UNCHANGED <<row, jobs, cons, worker, orphans, revived, run, active, asked,
                 opened>>

-----------------------------------------------------------------------------
(* The worker's queue consumer: processExecution and startExecution.       *)

Running == worker # "down"
butQueue == <<row, worker, orphans, revived, run, active, api, cancels, asked,
              opened>>

\* Consumer step of execution e: cons is at pc.
At(e, pc) == Running /\ cons.exec = e /\ cons.pc = pc
GoTo(pc) == cons' = [cons EXCEPT !.pc = pc]

\* The consumer loop runs once recoverOrphans is done, until the shutdown.
ConsumingEarly == worker \in {"up", "recovering"}                \* mutant
Consuming == worker = "up"

\* The next entry of the queue moves to the processing list.
Receive(e) ==
  /\ Consuming /\ cons.pc = "idle"
  /\ jobs[e] > 0
  /\ jobs' = [jobs EXCEPT ![e] = @ - 1]
  /\ cons' = [pc |-> "claim", exec |-> e, proc |-> 0]
  /\ UNCHANGED <<butQueue, faults>>

\* The conditional update of processExecution.
Claim(e) ==
  /\ At(e, "claim")
  /\ \/ /\ Claimable(e)
        /\ row' = [row EXCEPT ![e].orch = "running"]
        /\ GoTo("load")
     \/ ~Claimable(e) /\ GoTo("ack") /\ UNCHANGED row
  /\ UNCHANGED <<jobs, worker, orphans, revived, run, active, api, cancels, asked,
                 opened, faults>>

\* Repository, token and CLI are checked; a check that fails fails the row.
Load(e) ==
  /\ At(e, "load")
  /\ \/ GoTo("start") /\ UNCHANGED row
     \/ FailRow(e) /\ GoTo("ack")
  /\ UNCHANGED <<jobs, worker, orphans, revived, run, active, api, cancels, asked,
                 opened, faults>>

\* The conditional update of startExecution.
Start(e) ==
  /\ At(e, "start")
  /\ \/ /\ row[e].status = "pending" /\ row[e].orch = "running"
        /\ row' = [row EXCEPT ![e].status = "running"]
        /\ GoTo("spawn")
     \/ /\ ~(row[e].status = "pending" /\ row[e].orch = "running")
        /\ GoTo("ack") /\ UNCHANGED row
  /\ UNCHANGED <<jobs, worker, orphans, revived, run, active, api, cancels, asked,
                 opened, faults>>

\* The CLI is spawned and entered in activeExecutions, or spawn rejects.
Spawn(e) ==
  /\ At(e, "spawn")
  /\ \/ \E r \in Runs :
          /\ run[e][r].pc = "unused"
          /\ \A s \in Runs : s < r => run[e][s].pc # "unused"
          /\ run' = [run EXCEPT ![e][r] = [UnusedRun EXCEPT !.alive = TRUE, !.pc = "deaf"]]
          /\ active' = [active EXCEPT ![e] = r]
          /\ cons' = [cons EXCEPT !.pc = "listen", !.proc = r]
          /\ UNCHANGED row
     \/ FailRow(e) /\ GoTo("ack") /\ UNCHANGED <<run, active>>
  /\ UNCHANGED <<jobs, worker, orphans, revived, api, cancels, asked, opened, faults>>

\* The pid is saved, then listeners and timers are attached.
AttachNoTimers(e, r) == run' = [run EXCEPT ![e][r] = [@ EXCEPT !.pc = "armed"]] \* mutant
Attach(e, r) == run' = [run EXCEPT ![e][r] = [@ EXCEPT !.pc = "armed", !.timers = TRUE]]
Listen(e) ==
  /\ At(e, "listen")
  /\ Attach(e, cons.proc)
  /\ GoTo("ack")
  /\ UNCHANGED <<row, jobs, worker, orphans, revived, active, api, cancels, asked,
                 opened, faults>>

\* A statement fails.  Before startExecution the job fails and is queued again;
\* inside it the row is failed, and a process already spawned stays unattended.
StatementFails(e) ==
  /\ Fault("dbError")
  /\ \/ /\ At(e, "claim") \/ At(e, "load")
        /\ cons' = IdleConsumer
        /\ Enqueue(e)
        /\ UNCHANGED row
     \/ /\ At(e, "start") \/ At(e, "listen")
        /\ FailRow(e) /\ GoTo("ack")
        /\ UNCHANGED jobs
  /\ UNCHANGED <<worker, orphans, revived, run, active, api, cancels, asked, opened>>

\* LREM: the entry leaves the processing list.
Acknowledge(e) ==
  /\ At(e, "ack")
  /\ cons' = IdleConsumer
  /\ UNCHANGED <<jobs, butQueue, faults>>

-----------------------------------------------------------------------------
(* The runtime manager: signals, and the exit handler of run r of e.       *)

butRun == <<row, jobs, cons, worker, orphans, revived, active, api, cancels,
             asked, opened, faults>>
Entry(e) == run[e][active[e]]
Flag(e, flags) ==
  run' = [run EXCEPT ![e][active[e]] = [@ EXCEPT !.stop = Entry(e).stop \cup flags]]

\* handleTimeout: the entry is looked up by id when the timer fires.
Timeout(e, r) ==
  /\ Running /\ run[e][r].timers /\ active[e] # 0
  /\ "timeout" \notin Entry(e).stop
  /\ Flag(e, {"timeout", "cancel"})
  /\ UNCHANGED butRun

\* detectFatalError on a chunk of stderr.
FatalOutput(e, r) ==
  /\ Running /\ run[e][r].pc \in {"armed", "read", "write"} /\ active[e] # 0
  /\ Entry(e).stop \cap {"cancel", "fatal"} = {}
  /\ Flag(e, {"fatal"})
  /\ UNCHANGED butRun

\* syncCancellationRequest: the row is read every second.
SyncCancellation(e, r) ==
  /\ Running /\ run[e][r].timers /\ active[e] # 0
  /\ "cancel" \notin Entry(e).stop
  /\ row[e].status = "cancelled"
  /\ Flag(e, {"cancel"})
  /\ UNCHANGED butRun

\* handleExit starts: it looks the entry up by id and clears that entry's timers.
HandleExit(e, r, c) ==
  LET here(s) ==
        IF s = r THEN [run[e][s] EXCEPT !.alive = FALSE, !.code = c, !.pc = "read",
                                        !.ref = active[e]]
                 ELSE run[e][s]
  IN  run' = [run EXCEPT ![e] = [s \in Runs |->
                IF s = active[e] THEN [here(s) EXCEPT !.timers = FALSE] ELSE here(s)]]

\* The CLI exits; its handler starts when its listener is attached.
Exit(e, r) ==
  /\ Running /\ run[e][r].alive
  /\ IF run[e][r].pc = "deaf" /\ At(e, "listen") THEN Fault("deafExit")
                                                 ELSE UNCHANGED faults
  /\ IF run[e][r].pc = "armed" /\ active[e] # 0
       THEN \E c \in {"zero", "nonzero"} : HandleExit(e, r, c)
       ELSE run' = [run EXCEPT ![e][r] = [@ EXCEPT !.alive = FALSE]]
  /\ UNCHANGED <<row, jobs, cons, worker, orphans, revived, active, api, cancels,
                 asked, opened>>

Handler(e, r, pc) == Running /\ run[e][r].pc = pc
Step(e, r, pc) == run' = [run EXCEPT ![e][r] = [@ EXCEPT !.pc = pc]]
elsewhere == <<jobs, cons, worker, orphans, revived, active, api, cancels, asked,
                faults>>

\* handleExit reads the row: a cancel written by the API is noticed here.
ReadRow(e, r) ==
  /\ Handler(e, r, "read")
  /\ LET k == run[e][r].ref
         noticed == IF row[e].status = "cancelled" THEN {"cancel"} ELSE {}
         here(s) == IF s = r THEN [run[e][s] EXCEPT !.pc = "write"] ELSE run[e][s]
     IN  run' = [run EXCEPT ![e] = [s \in Runs |->
                   IF s = k THEN [here(s) EXCEPT !.stop = here(s).stop \cup noticed]
                            ELSE here(s)]]
  /\ UNCHANGED butRun

\* The order in which handleExit looks at the entry's flags and the exit code.
Outcome(e, r) ==
  LET stop == run[e][run[e][r].ref].stop IN
    IF "timeout" \in stop THEN "timedOut"
    ELSE IF "fatal" \in stop THEN "failed"
    ELSE IF "cancel" \in stop THEN "cancelled"
    ELSE IF run[e][r].code = "zero" THEN "completed" ELSE "failed"

\* handleExit writes the outcome by id, whatever the row holds by now.
WriteOutcome(e, r) ==
  /\ Handler(e, r, "write")
  /\ LET o == Outcome(e, r) IN
     /\ CASE o = "timedOut"  -> SetRow(e, "failed", "failed", row[e].autom)
          [] o = "failed"    -> FailRow(e)
          [] o = "cancelled" -> SetRow(e, "cancelled", "done", "not_applicable")
          [] o = "completed" -> SetRow(e, "completed", "finalizing", row[e].autom)
     /\ run' = [run EXCEPT ![e][r] = [@ EXCEPT !.pc = "route",
                   !.result = IF o = "timedOut" THEN "failed" ELSE o]]
  /\ UNCHANGED <<elsewhere, opened>>

\* A completed run passes the gate (AI review off); any other is finalized.
Route(e, r) ==
  /\ Handler(e, r, "route")
  /\ \/ /\ run[e][r].result = "completed"
        /\ SetRow(e, "completed", "finalizing", row[e].autom)
        /\ Step(e, r, "publish")
     \/ /\ run[e][r].result = "cancelled"
        /\ row' = [row EXCEPT ![e].orch = "done"]
        /\ Step(e, r, "release")
     \/ run[e][r].result = "failed" /\ Step(e, r, "release") /\ UNCHANGED row
  /\ UNCHANGED <<elsewhere, opened>>

\* handleCompletedExecution up to the git work: not asked for, not possible, or begun.
BeginPublication(e, r) ==
  /\ Handler(e, r, "publish")
  /\ \E next \in {<<"not_applicable", "finishOk">>, <<"failed", "finishFail">>,
                  <<"publishing", "publishing">>} :
       /\ row' = [row EXCEPT ![e].autom = next[1]]
       /\ Step(e, r, next[2])
  /\ UNCHANGED <<elsewhere, opened>>

\* The pull request is opened and recorded.
Publish(e, r) ==
  /\ Handler(e, r, "publishing")
  /\ opened' = [opened EXCEPT ![e] = @ + 1]
  /\ row' = [row EXCEPT ![e].autom = "published"]
  /\ Step(e, r, "finishOk")
  /\ UNCHANGED elsewhere

\* A git or GitHub step throws: failAutomation.
PublishFails(e, r) ==
  /\ Handler(e, r, "publishing")
  /\ row' = [row EXCEPT ![e].autom = "failed"]
  /\ Step(e, r, "finishFail")
  /\ UNCHANGED <<elsewhere, opened>>

AttemptsLeftOffByOne(e) == row[e].tries <= MaxAttempts          \* mutant
AttemptsLeft(e) == row[e].tries < MaxAttempts

\* Mutant: the retry forgets the orchestration state.
ResetForRetryStatusOnly(e) ==
  row' = [row EXCEPT ![e].status = "pending", ![e].autom = "pending", ![e].tries = @ + 1]
ResetForRetry(e) ==
  row' = [row EXCEPT ![e].status = "pending", ![e].orch = "queued",
                     ![e].autom = "pending", ![e].tries = @ + 1]

\* handleStrictNoDiff: no code changed; try again while attempts are left.
StrictNoDiff(e, r) ==
  /\ Handler(e, r, "publishing")
  /\ \/ AttemptsLeft(e) /\ ResetForRetry(e) /\ Step(e, r, "requeue")
     \/ /\ ~AttemptsLeft(e)
        /\ SetRow(e, "failed", "failed", "no_changes")
        /\ Step(e, r, "finishNone")
  /\ UNCHANGED <<elsewhere, opened>>

\* The retry is dispatched, or the dispatch throws and the automation is failed.
Redispatch(e, r) ==
  /\ Handler(e, r, "requeue")
  /\ \/ Enqueue(e) /\ Step(e, r, "release") /\ UNCHANGED <<row, faults>>
     \/ /\ \/ Fault("enqueueRefused") /\ UNCHANGED jobs
           \/ Fault("enqueueLost") /\ Enqueue(e)
        /\ row' = [row EXCEPT ![e].autom = "failed"]
        /\ Step(e, r, "finishFail")
  /\ UNCHANGED <<cons, worker, orphans, revived, active, api, cancels, asked, opened>>

\* finalizeCompletedExecution: the last write of the row.
Finish(e, r) ==
  /\ \/ /\ Handler(e, r, "finishOk")
        /\ SetRow(e, "completed", "done", row[e].autom)
     \/ Handler(e, r, "finishFail") /\ FailRow(e)
     \/ Handler(e, r, "finishNone") /\ SetRow(e, "failed", "failed", "no_changes")
  /\ Step(e, r, "release")
  /\ UNCHANGED <<elsewhere, opened>>

\* The entry is deleted only if it is still this handler's entry.
DeleteAnyEntry(e, r) == active' = [active EXCEPT ![e] = 0]      \* mutant
DeleteOwnEntry(e, r) ==
  active' = [active EXCEPT ![e] = IF @ = run[e][r].ref THEN 0 ELSE @]
Release(e, r) ==
  /\ Handler(e, r, "release")
  /\ DeleteOwnEntry(e, r)
  /\ run' = [run EXCEPT ![e][r] = EndedRun]
  /\ UNCHANGED <<row, jobs, cons, worker, orphans, revived, api, cancels, asked,
                 opened, faults>>

-----------------------------------------------------------------------------
(* Restarts of the worker.                                                 *)

\* onModuleDestroy: every active process is asked to stop, no job is taken.
StopWorker ==
  /\ worker = "up"
  /\ Fault("workerStop")
  /\ worker' = "stopping"
  /\ run' = [e \in Executions |-> [r \in Runs |->
               IF active[e] = r THEN [run[e][r] EXCEPT !.stop = @ \cup {"cancel"}]
                                ELSE run[e][r]]]
  /\ UNCHANGED <<row, jobs, cons, orphans, revived, active, api, cancels, asked, opened>>

\* The process is gone, and its CLI processes with the container.  The entry of
\* the processing list goes back to the queue when the worker boots again.
WorkerGone ==
  /\ \/ worker = "stopping" /\ UNCHANGED faults
     \/ worker # "down" /\ Fault("workerCrash")
  /\ worker' = "down"
  /\ cons' = IdleConsumer
  /\ jobs' = IF cons.pc = "idle" THEN jobs ELSE [jobs EXCEPT ![cons.exec] = @ + 1]
  /\ orphans' = {} /\ revived' = {}
  /\ run' = [e \in Executions |-> [r \in Runs |->
               IF run[e][r].pc = "unused" THEN UnusedRun ELSE EndedRun]]
  /\ active' = [e \in Executions |-> 0]
  /\ UNCHANGED <<row, api, cancels, asked, opened>>

\* Mutant: completed rows that are still finalizing are recovered as well.
OrphanAnyFinalizing(e) ==
  /\ ~row[e].draft
  /\ \/ row[e].status = "pending" /\ row[e].orch = "queued"
     \/ row[e].status = "running" /\ row[e].orch = "running"
     \/ row[e].orch = "finalizing"

\* The WHERE clause of recoverOrphans.
Orphan(e) ==
  /\ ~row[e].draft
  /\ \/ row[e].status = "pending" /\ row[e].orch = "queued"
     \/ row[e].status = "running" /\ row[e].orch \in {"running", "finalizing"}

\* Boot: recoverOrphans reads its candidates.
Boot ==
  /\ worker = "down"
  /\ worker' = "recovering"
  /\ orphans' = {e \in Executions : Orphan(e)}
  /\ UNCHANGED <<row, jobs, cons, revived, run, active, api, cancels, asked, opened,
                 faults>>

\* A candidate older than the recovery timeout is failed, a younger one is reset;
\* both updates go by id, whatever happened since the candidates were read.
Recover(e) ==
  /\ worker = "recovering" /\ e \in orphans /\ revived = {}
  /\ \/ FailRow(e) /\ orphans' = orphans \ {e} /\ UNCHANGED revived
     \/ /\ SetRow(e, "pending", "queued", "pending")
        /\ revived' = {e}
        /\ UNCHANGED orphans
  /\ UNCHANGED <<jobs, cons, worker, run, active, api, cancels, asked, opened, faults>>

\* The reset candidate is enqueued.
RecoverEnqueue(e) ==
  /\ worker = "recovering" /\ e \in revived
  /\ Enqueue(e)
  /\ revived' = {} /\ orphans' = orphans \ {e}
  /\ UNCHANGED <<row, cons, worker, run, active, api, cancels, asked, opened, faults>>

\* The candidates are handled; the consumer loop starts.
Recovered ==
  /\ worker = "recovering" /\ orphans = {}
  /\ worker' = "up"
  /\ UNCHANGED <<row, jobs, cons, orphans, revived, run, active, api, cancels, asked,
                 opened, faults>>

-----------------------------------------------------------------------------
ApiStep(e) ==
  \/ CreateExecution(e) \/ CreateDraft(e) \/ StartDraft(e) \/ Dispatch(e)
  \/ DispatchThrows(e) \/ UndoDispatch(e) \/ CancelRead(e) \/ CancelWrite(e)

ConsumerStep(e) ==
  \/ Receive(e) \/ Claim(e) \/ Load(e) \/ Start(e) \/ Spawn(e) \/ Listen(e)
  \/ StatementFails(e) \/ Acknowledge(e)

SignalStep(e, r) == Timeout(e, r) \/ FatalOutput(e, r) \/ SyncCancellation(e, r)

HandlerStep(e, r) ==
  \/ ReadRow(e, r) \/ WriteOutcome(e, r) \/ Route(e, r) \/ BeginPublication(e, r)
  \/ Publish(e, r) \/ PublishFails(e, r) \/ StrictNoDiff(e, r) \/ Redispatch(e, r)
  \/ Finish(e, r) \/ Release(e, r)

RestartStep == StopWorker \/ WorkerGone \/ Boot \/ Recovered \/ ApiCrash

Next ==
  \/ \E e \in Executions : ApiStep(e) \/ ConsumerStep(e) \/ Recover(e) \/ RecoverEnqueue(e)
  \/ \E e \in Executions, r \in Runs : SignalStep(e, r) \/ Exit(e, r) \/ HandlerStep(e, r)
  \/ RestartStep

Spec == Init /\ [][Next]_vars

(***************************************************************************)
(* Fairness.  The queue is a list, so an entry that stays in it reaches its *)
(* head (SF of Receive); the processes take the steps they can take; the    *)
(* timers fire, and a CLI that was told to stop is killed with SIGKILL.     *)
(***************************************************************************)
Killed(e, r) == Exit(e, r) /\ run[e][r].stop # {}

Fairness ==
  /\ \A e \in Executions :
       /\ WF_vars(Dispatch(e)) /\ WF_vars(UndoDispatch(e)) /\ WF_vars(CancelWrite(e))
       /\ SF_vars(Receive(e))
       /\ WF_vars(Claim(e) \/ Load(e) \/ Start(e) \/ Spawn(e) \/ Listen(e) \/ Acknowledge(e))
       /\ WF_vars(Recover(e) \/ RecoverEnqueue(e))
  /\ \A e \in Executions, r \in Runs :
       /\ WF_vars(Timeout(e, r)) /\ WF_vars(SyncCancellation(e, r))
       /\ WF_vars(Killed(e, r))
       /\ WF_vars(HandlerStep(e, r))
  /\ WF_vars(Boot) /\ WF_vars(Recovered)

FairSpec == Spec /\ Fairness

-----------------------------------------------------------------------------
(* Properties.                                                             *)

\* Type invariant of the row, the queue, the consumer and the process table.
TypeOK ==
  /\ row \in [Executions -> Row]
  /\ jobs \in [Executions -> Nat]
  /\ cons \in [pc : ConsumerSteps, exec : Executions \cup {NoExecution},
               proc : 0..MaxRuns]
  /\ worker \in {"up", "stopping", "down", "recovering"}
  /\ orphans \subseteq Executions /\ revived \subseteq Executions
  /\ run \in [Executions -> [Runs -> RunState]]
  /\ active \in [Executions -> 0..MaxRuns]
  /\ api \in [Executions -> ApiSteps]
  /\ cancels \subseteq Executions /\ asked \subseteq Executions
  /\ opened \in [Executions -> Nat]
  /\ faults \in Nat

\* The row is at the beginning of its life: nobody has claimed it.
Fresh(e) ==
  row[e].status = "absent" \/ (row[e].status = "pending" /\ row[e].orch = "queued")

\* The consumer has claimed e and has not spawned its process yet.
Held(e) == cons.exec = e /\ cons.pc \in {"load", "start", "spawn"}

\* Run r of e still decides what becomes of the execution.
Busy(e, r) ==
  run[e][r].alive \/ run[e][r].pc \in {"read", "write", "route", "publish", "publishing"}

\* At most one CLI process of an execution is alive: a queue entry delivered
\* twice, a retry and a restart of the worker never make a second one work in
\* the same checkout.
AtMostOneProcess ==
  \A e \in Executions : \A r, s \in Runs : run[e][r].alive /\ run[e][s].alive => r = s

\* At any time one actor owns an execution: the unclaimed row, the consumer that
\* claimed it, or one run.  The two conditional updates hand the ownership over.
OneOwner ==
  \A e \in Executions :
    /\ Fresh(e) => ~Held(e) /\ \A r \in Runs : ~Busy(e, r)
    /\ Held(e) => \A r \in Runs : ~Busy(e, r)
    /\ \A r, s \in Runs : Busy(e, r) /\ Busy(e, s) => r = s

\* A live process that is listened to is the entry of activeExecutions, so its
\* exit, its timeout and a cancel reach it; the previous run of a retried
\* execution releases its own entry only.
ListenerIsEntry ==
  \A e \in Executions, r \in Runs :
    run[e][r].alive /\ run[e][r].pc = "armed" => active[e] = r

Settled(e) == row[e].orch \in {"done", "failed"}
Unsettled(e) == row[e].status # "absent" /\ ~row[e].draft /\ ~Settled(e)

\* An execution opens one pull request at most, over all its runs and restarts.
OnePullRequest == \A e \in Executions : opened[e] <= 1

\* Every execution that is started is settled in the end, unless something goes wrong
\* around the code.
EverySettles == \A e \in Executions : Unsettled(e) ~> ~Unsettled(e) \/ faults > 0

\* A process whose spawn ended with an error: nobody listens to it.
Unattended(e, r) == run[e][r].pc = "deaf" /\ ~(At(e, "listen") /\ cons.proc = r)

\* The process of a cancelled execution ends, also when the API process, which has no
\* handle on it, did the cancelling; crashes, shutdowns and failing statements may delay
\* it, and only a process the spawn left unattended is out of reach.
CancelStopsProcess ==
  \A e \in Executions :
    row[e].status = "cancelled" ~> \A r \in Runs : run[e][r].alive => Unattended(e, r)
=============================================================================
