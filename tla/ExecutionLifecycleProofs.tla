---------------------- MODULE ExecutionLifecycleProofs ----------------------
(***************************************************************************)
(* Proofs about ExecutionLifecycle, for every value of its constants: its  *)
(* types, who owns an execution, which of its runs the table of active     *)
(* executions names, and how many of them open a pull request.             *)
(***************************************************************************)
EXTENDS ExecutionLifecycle, TLAPS

-----------------------------------------------------------------------------
(* Updates of the row, of the queue and of a run keep their types.         *)

\* An update of the three state columns leaves a row.
LEMMA SetRowType ==
  ASSUME TypeOK, NEW e \in Executions, NEW s \in Statuses,
         NEW o \in OrchestrationStates, NEW a \in AutomationStatuses,
         SetRow(e, s, o, a)
  PROVE  row' \in [Executions -> Row]
<1>1. row \in [Executions -> Row]
  BY DEF TypeOK
<1> DEFINE x == [row[e] EXCEPT !.status = s, !.orch = o, !.autom = a]
<1>2. row[e] \in Row
  BY <1>1
<1>3. x \in Row
  BY <1>2 DEF Row
<1>4. row' = [row EXCEPT ![e] = x]
  BY <1>1, <1>2 DEF SetRow, Row
<1> QED
  BY <1>1, <1>3, <1>4

\* Replacing one row keeps the type of the table.
LEMMA RowUpdate ==
  ASSUME TypeOK, NEW e \in Executions, NEW x \in Row, row' = [row EXCEPT ![e] = x]
  PROVE  row' \in [Executions -> Row]
  BY DEF TypeOK

\* The updates the statements make of one row's record.
LEMMA RowRecords ==
  ASSUME NEW x \in Row
  PROVE  /\ \A s \in Statuses : [x EXCEPT !.status = s] \in Row
         /\ \A s \in Statuses, d \in BOOLEAN : [x EXCEPT !.status = s, !.draft = d] \in Row
         /\ \A d \in BOOLEAN : [x EXCEPT !.draft = d] \in Row
         /\ \A o \in OrchestrationStates : [x EXCEPT !.orch = o] \in Row
         /\ \A a \in AutomationStatuses : [x EXCEPT !.autom = a] \in Row
         /\ \A s \in Statuses, o \in OrchestrationStates, a \in AutomationStatuses,
               d \in BOOLEAN :
              [x EXCEPT !.status = s, !.orch = o, !.autom = a, !.draft = d] \in Row
         /\ \A s \in Statuses, o \in OrchestrationStates, a \in AutomationStatuses,
               n \in 1..MaxAttempts :
              [x EXCEPT !.status = s, !.orch = o, !.autom = a, !.tries = n] \in Row
  BY DEF Row

\* The names the statements write are members of the enumerations.
LEMMA Names ==
  /\ \A s \in {"pending", "running", "completed", "failed", "cancelled"} : s \in Statuses
  /\ \A o \in {"queued", "running", "finalizing", "done", "failed"} :
       o \in OrchestrationStates
  /\ \A a \in {"pending", "publishing", "published", "failed", "not_applicable",
               "no_changes"} : a \in AutomationStatuses
  BY DEF Statuses, OrchestrationStates, AutomationStatuses

\* The update that fails an execution leaves a row.
LEMMA FailRowType ==
  ASSUME TypeOK, NEW e \in Executions, FailRow(e)
  PROVE  row' \in [Executions -> Row]
  BY SetRowType DEF FailRow, Statuses, OrchestrationStates, AutomationStatuses

\* Another queue entry leaves a count of queue entries.
LEMMA EnqueueType ==
  ASSUME TypeOK, NEW e \in Executions, Enqueue(e)
  PROVE  jobs' \in [Executions -> Nat]
  BY DEF TypeOK, Enqueue

\* Replacing the record of one run keeps the type of the process table.
LEMMA RunUpdate ==
  ASSUME TypeOK, NEW e \in Executions, NEW r \in Runs, NEW x \in RunState,
         run' = [run EXCEPT ![e][r] = x]
  PROVE  run' \in [Executions -> [Runs -> RunState]]
  BY DEF TypeOK

\* The records a run is created or replaced with are run records.
LEMMA RunTypes ==
  /\ UnusedRun \in RunState
  /\ EndedRun \in RunState
  /\ [UnusedRun EXCEPT !.alive = TRUE, !.pc = "deaf"] \in RunState
<1>1. UnusedRun \in RunState
  BY BoundsAssumption DEF UnusedRun, RunState, HandlerSteps, Statuses
<1> QED BY <1>1 DEF EndedRun, RunState, HandlerSteps

\* The updates the handlers make of one run's record.
LEMMA RecordUpdates ==
  ASSUME NEW x \in RunState
  PROVE  /\ \A pc \in HandlerSteps : [x EXCEPT !.pc = pc] \in RunState
         /\ \A f \in SUBSET Flags : [x EXCEPT !.stop = x.stop \cup f] \in RunState
         /\ [x EXCEPT !.timers = FALSE] \in RunState
         /\ [x EXCEPT !.alive = FALSE] \in RunState
         /\ [x EXCEPT !.pc = "armed", !.timers = TRUE] \in RunState
         /\ \A res \in Statuses : [x EXCEPT !.pc = "route", !.result = res] \in RunState
         /\ \A c \in {"zero", "nonzero"}, a \in 0..MaxRuns :
              [x EXCEPT !.alive = FALSE, !.code = c, !.pc = "read", !.ref = a] \in RunState
<1> /\ "armed" \in HandlerSteps /\ "route" \in HandlerSteps /\ "read" \in HandlerSteps
  BY DEF HandlerSteps
<1> QED BY DEF RunState

\* What those updates leave as it was.
LEMMA RecordFields ==
  ASSUME NEW x \in RunState
  PROVE  /\ [x EXCEPT !.timers = FALSE].alive = x.alive
         /\ [x EXCEPT !.timers = FALSE].pc = x.pc
         /\ \A c \in {"zero", "nonzero"}, a \in 0..MaxRuns :
              /\ [x EXCEPT !.alive = FALSE, !.code = c, !.pc = "read", !.ref = a].alive = FALSE
              /\ [x EXCEPT !.alive = FALSE, !.code = c, !.pc = "read", !.ref = a].pc = "read"
  BY DEF RunState

\* The next step of a handler keeps the type of the process table.
LEMMA StepType ==
  ASSUME TypeOK, NEW e \in Executions, NEW r \in Runs, NEW pc \in HandlerSteps,
         Step(e, r, pc)
  PROVE  run' \in [Executions -> [Runs -> RunState]]
<1>1. run[e][r] \in RunState
  BY DEF TypeOK
<1>2. [run[e][r] EXCEPT !.pc = pc] \in RunState
  BY <1>1, RecordUpdates
<1> QED BY <1>2, RunUpdate DEF Step

\* A flag goes to the record of the entry; there is none for entry 0.
LEMMA FlagType ==
  ASSUME TypeOK, NEW e \in Executions, NEW f \in SUBSET Flags, Flag(e, f),
         active[e] # 0
  PROVE  run' \in [Executions -> [Runs -> RunState]]
<1>1. active[e] \in Runs
  BY BoundsAssumption DEF TypeOK, Runs
<1>2. run[e][active[e]] \in RunState
  BY <1>1 DEF TypeOK
<1> DEFINE x == [Entry(e) EXCEPT !.stop = Entry(e).stop \cup f]
<1>3. x \in RunState
  BY <1>2, RecordUpdates DEF Entry
<1>4. run' = [run EXCEPT ![e][active[e]] = x]
  BY DEF Flag, Entry
<1> HIDE DEF x
<1> QED BY <1>1, <1>3, <1>4, RunUpdate

-----------------------------------------------------------------------------
(* The typing invariant.                                                   *)

\* The initial state is well typed.
LEMMA TypeInit == Init => TypeOK
<1> SUFFICES ASSUME Init PROVE TypeOK
  OBVIOUS
<1>1. Unborn \in Row
  BY BoundsAssumption DEF Unborn, Row, Statuses, OrchestrationStates, AutomationStatuses
<1>2. row \in [Executions -> Row]
  BY <1>1 DEF Init
<1>3. cons \in [pc : ConsumerSteps, exec : Executions \cup {NoExecution}, proc : 0..MaxRuns]
  BY BoundsAssumption DEF Init, IdleConsumer, ConsumerSteps
<1>4. run \in [Executions -> [Runs -> RunState]]
  BY RunTypes DEF Init
<1>5. active \in [Executions -> 0..MaxRuns] /\ api \in [Executions -> ApiSteps]
  BY BoundsAssumption DEF Init, ApiSteps
<1>6. /\ jobs \in [Executions -> Nat]
      /\ opened \in [Executions -> Nat]
      /\ faults \in Nat
  BY DEF Init
<1>7. /\ worker \in {"up", "stopping", "down", "recovering"}
      /\ orphans \subseteq Executions /\ revived \subseteq Executions
      /\ cancels \subseteq Executions /\ asked \subseteq Executions
  BY DEF Init
<1> QED BY <1>2, <1>3, <1>4, <1>5, <1>6, <1>7 DEF TypeOK

\* The API requests: create, start a draft, dispatch, undo, cancel.
LEMMA TypeApi ==
  ASSUME TypeOK, NEW e \in Executions, ApiStep(e)
  PROVE  TypeOK'
<1>1. CASE CreateExecution(e)
  <2> DEFINE x == [row[e] EXCEPT !.status = "pending"]
  <2>1. x \in Row
    <3>1. row[e] \in Row
      BY DEF TypeOK
    <3> QED BY <3>1, RowRecords, Names
  <2>2. row' = [row EXCEPT ![e] = x]
    BY <1>1 DEF CreateExecution
  <2> HIDE DEF x
  <2>3. row' \in [Executions -> Row]
    BY <2>1, <2>2, RowUpdate
  <2>4. api' \in [Executions -> ApiSteps]
    BY <1>1 DEF TypeOK, CreateExecution, ApiSteps
  <2> QED BY <1>1, <2>3, <2>4 DEF TypeOK, CreateExecution
<1>2. CASE CreateDraft(e)
  <2> DEFINE x == [row[e] EXCEPT !.status = "pending", !.draft = TRUE]
  <2>1. x \in Row
    BY RowRecords, Names DEF TypeOK
  <2>2. row' = [row EXCEPT ![e] = x]
    BY <1>2 DEF CreateDraft, TypeOK, Row
  <2> HIDE DEF x
  <2>3. row' \in [Executions -> Row]
    BY <2>1, <2>2, RowUpdate
  <2> QED BY <1>2, <2>3 DEF TypeOK, CreateDraft, butRow
<1>3. CASE StartDraft(e)
  BY <1>3 DEF TypeOK, StartDraft, Row, ApiSteps
<1>4. CASE Dispatch(e)
  BY <1>4, EnqueueType DEF TypeOK, Dispatch, ApiSteps
<1>5. CASE DispatchThrows(e)
  <2>1. jobs' \in [Executions -> Nat]
    BY <1>5, EnqueueType DEF TypeOK, DispatchThrows
  <2>2. faults' \in Nat
    BY <1>5, BoundsAssumption DEF TypeOK, DispatchThrows, Fault
  <2>3. api' \in [Executions -> ApiSteps]
    BY <1>5 DEF TypeOK, DispatchThrows, ApiSteps
  <2> QED BY <1>5, <2>1, <2>2, <2>3 DEF TypeOK, DispatchThrows
<1>6. CASE UndoDispatch(e)
  <2>0. api' \in [Executions -> ApiSteps]
    BY <1>6 DEF TypeOK, UndoDispatch, ApiSteps
  <2>1. CASE FailRow(e)
    <3>1. row' \in [Executions -> Row]
      BY <2>1, FailRowType
    <3> QED BY <1>6, <3>1, <2>0 DEF TypeOK, UndoDispatch
  <2>2. CASE row' = [row EXCEPT ![e].status = "pending", ![e].orch = "queued",
                                ![e].autom = "pending", ![e].draft = TRUE]
    <3> DEFINE x == [row[e] EXCEPT !.status = "pending", !.orch = "queued",
                                   !.autom = "pending", !.draft = TRUE]
    <3>a. x \in Row
      BY RowRecords, Names DEF TypeOK
    <3>b. row' = [row EXCEPT ![e] = x]
      BY <2>2 DEF TypeOK, Row
    <3> HIDE DEF x
    <3>1. row' \in [Executions -> Row]
      BY <3>a, <3>b, RowUpdate
    <3> QED BY <1>6, <3>1, <2>0 DEF TypeOK, UndoDispatch
  <2> QED BY <1>6, <2>1, <2>2 DEF UndoDispatch
<1>7. CASE CancelRead(e)
  BY <1>7 DEF TypeOK, CancelRead
<1>8. CASE CancelWrite(e)
  <2>1. row' \in [Executions -> Row]
    BY <1>8, SetRowType DEF CancelWrite, Statuses, OrchestrationStates, AutomationStatuses
  <2> QED BY <1>8, <2>1 DEF TypeOK, CancelWrite
<1> QED BY <1>1, <1>2, <1>3, <1>4, <1>5, <1>6, <1>7, <1>8 DEF ApiStep

\* The queue consumer, from the delivery of a job to its acknowledgement.
LEMMA TypeConsumer ==
  ASSUME TypeOK, NEW e \in Executions, ConsumerStep(e)
  PROVE  TypeOK'
<1> DEFINE Cons == [pc : ConsumerSteps, exec : Executions \cup {NoExecution},
                    proc : 0..MaxRuns]
<1>g. ASSUME NEW pc \in ConsumerSteps, GoTo(pc)
      PROVE  cons' \in Cons
  BY <1>g DEF TypeOK, GoTo
<1>i. IdleConsumer \in Cons
  BY BoundsAssumption DEF IdleConsumer, ConsumerSteps
<1>p. {"idle", "claim", "load", "start", "spawn", "listen", "ack"} \subseteq ConsumerSteps
  BY DEF ConsumerSteps
<1>1. CASE Receive(e)
  <2>1. jobs' \in [Executions -> Nat]
    BY <1>1 DEF TypeOK, Receive
  <2>2. cons' \in Cons
    BY <1>1, <1>p, BoundsAssumption DEF Receive
  <2> QED BY <1>1, <2>1, <2>2 DEF TypeOK, Receive, butQueue
<1>2. CASE Claim(e)
  <2>1. cons' \in Cons
    BY <1>2, <1>g, <1>p DEF Claim
  <2>2. row' \in [Executions -> Row]
    <3> DEFINE x == [row[e] EXCEPT !.orch = "running"]
    <3>1. x \in Row
      BY RowRecords, Names DEF TypeOK
    <3>2. row' = row \/ row' = [row EXCEPT ![e] = x]
      BY <1>2 DEF Claim
    <3> HIDE DEF x
    <3> QED BY <3>1, <3>2, RowUpdate DEF TypeOK
  <2> QED BY <1>2, <2>1, <2>2 DEF TypeOK, Claim
<1>3. CASE Load(e)
  <2>1. cons' \in Cons
    BY <1>3, <1>g, <1>p DEF Load
  <2>2. row' \in [Executions -> Row]
    BY <1>3, FailRowType DEF Load, TypeOK
  <2> QED BY <1>3, <2>1, <2>2 DEF TypeOK, Load
<1>4. CASE Start(e)
  <2>1. cons' \in Cons
    BY <1>4, <1>g, <1>p DEF Start
  <2>2. row' \in [Executions -> Row]
    <3> DEFINE x == [row[e] EXCEPT !.status = "running"]
    <3>1. x \in Row
      BY RowRecords, Names DEF TypeOK
    <3>2. row' = row \/ row' = [row EXCEPT ![e] = x]
      BY <1>4 DEF Start
    <3> HIDE DEF x
    <3> QED BY <3>1, <3>2, RowUpdate DEF TypeOK
  <2> QED BY <1>4, <2>1, <2>2 DEF TypeOK, Start
<1>5. CASE Spawn(e)
  <2>1. CASE FailRow(e) /\ GoTo("ack") /\ UNCHANGED <<run, active>>
    <3>1. cons' \in Cons
      BY <2>1, <1>g, <1>p
    <3>2. row' \in [Executions -> Row]
      BY <2>1, FailRowType
    <3> QED BY <1>5, <2>1, <3>1, <3>2 DEF TypeOK, Spawn
  <2>2. CASE ~(FailRow(e) /\ GoTo("ack") /\ UNCHANGED <<run, active>>)
    <3> PICK r \in Runs :
          /\ run' = [run EXCEPT ![e][r] = [UnusedRun EXCEPT !.alive = TRUE, !.pc = "deaf"]]
          /\ active' = [active EXCEPT ![e] = r]
          /\ cons' = [cons EXCEPT !.pc = "listen", !.proc = r]
          /\ UNCHANGED row
      BY <1>5, <2>2 DEF Spawn
    <3>1. run' \in [Executions -> [Runs -> RunState]]
      BY RunTypes, RunUpdate
    <3>2. active' \in [Executions -> 0..MaxRuns]
      BY BoundsAssumption DEF TypeOK, Runs
    <3>3. cons' \in Cons
      <4>1. "listen" \in ConsumerSteps /\ r \in 0..MaxRuns
        BY <1>p, BoundsAssumption DEF Runs
      <4> QED BY <4>1 DEF TypeOK
    <3> QED BY <1>5, <3>1, <3>2, <3>3 DEF TypeOK, Spawn
  <2> QED BY <2>1, <2>2
<1>6. CASE Listen(e)
  <2>1. cons' \in Cons
    BY <1>6, <1>g, <1>p DEF Listen
  <2>2. run' \in [Executions -> [Runs -> RunState]]
    <3> DEFINE r == cons.proc
               x == [run[e][r] EXCEPT !.pc = "armed", !.timers = TRUE]
    <3>1. run' = [run EXCEPT ![e][r] = x]
      BY <1>6 DEF Listen, Attach
    <3>2. CASE r \in Runs
      <4>0. run[e][r] \in RunState
        BY <3>2 DEF TypeOK
      <4>1. x \in RunState
        BY <4>0, RecordUpdates
      <4> HIDE DEF x, r
      <4> QED BY <3>1, <3>2, <4>1, RunUpdate
    <3>3. CASE r \notin Runs
      <4> HIDE DEF x, r
      <4> QED BY <3>1, <3>3 DEF TypeOK
    <3> QED BY <3>2, <3>3
  <2> QED BY <1>6, <2>1, <2>2 DEF TypeOK, Listen
<1>7. CASE StatementFails(e)
  <2>1. cons' \in Cons
    BY <1>7, <1>g, <1>i, <1>p DEF StatementFails
  <2>2. row' \in [Executions -> Row]
    BY <1>7, FailRowType DEF StatementFails, TypeOK
  <2>3. jobs' \in [Executions -> Nat]
    BY <1>7, EnqueueType DEF StatementFails, TypeOK
  <2>4. faults' \in Nat
    BY <1>7, BoundsAssumption DEF StatementFails, TypeOK, Fault
  <2> QED BY <1>7, <2>1, <2>2, <2>3, <2>4 DEF TypeOK, StatementFails
<1>8. CASE Acknowledge(e)
  BY <1>8, <1>i DEF TypeOK, Acknowledge, butQueue
<1> QED BY <1>1, <1>2, <1>3, <1>4, <1>5, <1>6, <1>7, <1>8 DEF ConsumerStep

\* Replacing all records of one execution keeps the type of the process table.
LEMMA RunsUpdate ==
  ASSUME TypeOK, NEW e \in Executions, NEW g \in [Runs -> RunState],
         run' = [run EXCEPT ![e] = g]
  PROVE  run' \in [Executions -> [Runs -> RunState]]
  BY DEF TypeOK

\* The timeout, the fatal output and the cancellation flag a run.
LEMMA TypeSignal ==
  ASSUME TypeOK, NEW e \in Executions, NEW r \in Runs, SignalStep(e, r)
  PROVE  TypeOK'
<1>1. PICK f \in SUBSET Flags : Flag(e, f) /\ active[e] # 0 /\ UNCHANGED butRun
  BY DEF SignalStep, Timeout, FatalOutput, SyncCancellation, Flags
<1>2. run' \in [Executions -> [Runs -> RunState]]
  BY <1>1, FlagType
<1> QED BY <1>1, <1>2 DEF TypeOK, butRun

\* The end of a CLI process, heard by the exit listener or not.
LEMMA TypeExit ==
  ASSUME TypeOK, NEW e \in Executions, NEW r \in Runs, Exit(e, r)
  PROVE  TypeOK'
<1>1. faults' \in Nat
  BY BoundsAssumption DEF Exit, Fault, TypeOK
<1>2. run' \in [Executions -> [Runs -> RunState]]
  <2>0. \A s \in Runs : run[e][s] \in RunState
    BY DEF TypeOK
  <2>1. CASE run' = [run EXCEPT ![e][r] = [@ EXCEPT !.alive = FALSE]]
    <3> DEFINE x == [run[e][r] EXCEPT !.alive = FALSE]
    <3>1. x \in RunState
      BY <2>0, RecordUpdates
    <3>2. run' = [run EXCEPT ![e][r] = x]
      BY <2>1
    <3> HIDE DEF x
    <3> QED BY <3>1, <3>2, RunUpdate
  <2>2. ASSUME NEW c \in {"zero", "nonzero"}, HandleExit(e, r, c)
        PROVE  run' \in [Executions -> [Runs -> RunState]]
    <3> DEFINE here(s) ==
                 IF s = r THEN [run[e][s] EXCEPT !.alive = FALSE, !.code = c,
                                                 !.pc = "read", !.ref = active[e]]
                          ELSE run[e][s]
               next(s) == IF s = active[e] THEN [here(s) EXCEPT !.timers = FALSE]
                                           ELSE here(s)
               g == [s \in Runs |-> next(s)]
    <3>1. ASSUME NEW s \in Runs PROVE here(s) \in RunState
      <4>1. active[e] \in 0..MaxRuns
        BY DEF TypeOK
      <4> QED BY <2>0, <4>1, RecordUpdates
    <3>2. run' = [run EXCEPT ![e] = g]
      BY <2>2 DEF HandleExit
    <3> HIDE DEF here
    <3>3. ASSUME NEW s \in Runs PROVE next(s) \in RunState
      BY <3>1, RecordUpdates
    <3> HIDE DEF next
    <3>4. g \in [Runs -> RunState]
      BY <3>3
    <3> HIDE DEF g
    <3> QED BY <3>2, <3>4, RunsUpdate
  <2> QED BY <2>1, <2>2 DEF Exit
<1> QED BY <1>1, <1>2 DEF Exit, TypeOK

\* The steps of an exit handler.
LEMMA TypeHandler ==
  ASSUME TypeOK, NEW e \in Executions, NEW r \in Runs, HandlerStep(e, r)
  PROVE  TypeOK'
<1>p. {"read", "write", "route", "publish", "publishing", "requeue", "finishOk",
       "finishFail", "finishNone", "release"} \subseteq HandlerSteps
  BY DEF HandlerSteps
<1>s. ASSUME NEW pc \in HandlerSteps, Step(e, r, pc)
      PROVE  run' \in [Executions -> [Runs -> RunState]]
  BY <1>s, StepType
<1>e. row[e] \in Row /\ run[e][r] \in RunState
  BY DEF TypeOK
<1>a. row[e].autom \in AutomationStatuses
  BY <1>e DEF Row
<1>1. CASE ReadRow(e, r)
  <2> DEFINE k == run[e][r].ref
             noticed == IF row[e].status = "cancelled" THEN {"cancel"} ELSE {}
             here(s) == IF s = r THEN [run[e][s] EXCEPT !.pc = "write"] ELSE run[e][s]
             next(s) == IF s = k THEN [here(s) EXCEPT !.stop = here(s).stop \cup noticed]
                                 ELSE here(s)
             g == [s \in Runs |-> next(s)]
  <2>0. noticed \in SUBSET Flags
    BY DEF Flags
  <2>1. run' = [run EXCEPT ![e] = g] /\ UNCHANGED butRun
    BY <1>1 DEF ReadRow
  <2>2. ASSUME NEW s \in Runs PROVE here(s) \in RunState
    <3>1. run[e][s] \in RunState
      BY DEF TypeOK
    <3> QED BY <3>1, <1>p, RecordUpdates
  <2> HIDE DEF here, noticed, k
  <2>3. ASSUME NEW s \in Runs PROVE next(s) \in RunState
    BY <2>0, <2>2, RecordUpdates
  <2> HIDE DEF next
  <2>4. g \in [Runs -> RunState]
    BY <2>3
  <2> HIDE DEF g
  <2>5. run' \in [Executions -> [Runs -> RunState]]
    BY <2>1, <2>4, RunsUpdate
  <2> QED BY <2>1, <2>5 DEF TypeOK, butRun
<1>2. CASE WriteOutcome(e, r)
  <2> DEFINE o == Outcome(e, r)
             res == IF o = "timedOut" THEN "failed" ELSE o
             x == [run[e][r] EXCEPT !.pc = "route", !.result = res]
  <2>1. o \in {"timedOut", "failed", "cancelled", "completed"}
    BY DEF Outcome
  <2>2. run' = [run EXCEPT ![e][r] = x] /\ UNCHANGED <<elsewhere, opened>>
    BY <1>2 DEF WriteOutcome
  <2>3. \/ SetRow(e, "failed", "failed", row[e].autom)
        \/ FailRow(e)
        \/ SetRow(e, "cancelled", "done", "not_applicable")
        \/ SetRow(e, "completed", "finalizing", row[e].autom)
    BY <1>2, <2>1 DEF WriteOutcome
  <2> HIDE DEF o
  <2>4. row' \in [Executions -> Row]
    BY <2>3, <1>a, Names, SetRowType, FailRowType
  <2>5. res \in Statuses
    BY <2>1, Names
  <2> HIDE DEF res
  <2>6. x \in RunState
    BY <1>e, <2>5, RecordUpdates
  <2> HIDE DEF x
  <2>7. run' \in [Executions -> [Runs -> RunState]]
    BY <2>2, <2>6, RunUpdate
  <2> QED BY <2>2, <2>4, <2>7 DEF TypeOK, elsewhere
<1>3. CASE Route(e, r)
  <2>1. run' \in [Executions -> [Runs -> RunState]]
    BY <1>3, <1>s, <1>p DEF Route
  <2>2. row' \in [Executions -> Row]
    <3>1. CASE SetRow(e, "completed", "finalizing", row[e].autom)
      BY <3>1, <1>a, Names, SetRowType
    <3>2. CASE row' = [row EXCEPT ![e].orch = "done"]
      <4> DEFINE x == [row[e] EXCEPT !.orch = "done"]
      <4>1. x \in Row
        BY <1>e, RowRecords, Names
      <4>2. row' = [row EXCEPT ![e] = x]
        BY <3>2
      <4> HIDE DEF x
      <4> QED BY <4>1, <4>2, RowUpdate
    <3>3. CASE UNCHANGED row
      BY <3>3 DEF TypeOK
    <3> QED BY <1>3, <3>1, <3>2, <3>3 DEF Route
  <2> QED BY <1>3, <2>1, <2>2 DEF TypeOK, Route, elsewhere
<1>4. CASE BeginPublication(e, r)
  <2>1. PICK next \in {<<"not_applicable", "finishOk">>, <<"failed", "finishFail">>,
                       <<"publishing", "publishing">>} :
          row' = [row EXCEPT ![e].autom = next[1]] /\ Step(e, r, next[2])
    BY <1>4 DEF BeginPublication
  <2>2. next[1] \in AutomationStatuses /\ next[2] \in HandlerSteps
    BY <1>p, Names
  <2>3. run' \in [Executions -> [Runs -> RunState]]
    BY <2>1, <2>2, <1>s
  <2> DEFINE x == [row[e] EXCEPT !.autom = next[1]]
  <2>4. x \in Row
    BY <1>e, <2>2, RowRecords
  <2>5. row' = [row EXCEPT ![e] = x]
    BY <2>1
  <2> HIDE DEF x
  <2>6. row' \in [Executions -> Row]
    BY <2>4, <2>5, RowUpdate
  <2> QED BY <1>4, <2>3, <2>6 DEF TypeOK, BeginPublication, elsewhere
<1>5. CASE Publish(e, r)
  <2>1. run' \in [Executions -> [Runs -> RunState]]
    BY <1>5, <1>s, <1>p DEF Publish
  <2> DEFINE x == [row[e] EXCEPT !.autom = "published"]
  <2>2. x \in Row
    BY <1>e, RowRecords, Names
  <2>3. row' = [row EXCEPT ![e] = x]
    BY <1>5 DEF Publish
  <2> HIDE DEF x
  <2>4. row' \in [Executions -> Row]
    BY <2>2, <2>3, RowUpdate
  <2>5. opened' \in [Executions -> Nat]
    BY <1>5 DEF TypeOK, Publish
  <2> QED BY <1>5, <2>1, <2>4, <2>5 DEF TypeOK, Publish, elsewhere
<1>6. CASE PublishFails(e, r)
  <2>1. run' \in [Executions -> [Runs -> RunState]]
    BY <1>6, <1>s, <1>p DEF PublishFails
  <2> DEFINE x == [row[e] EXCEPT !.autom = "failed"]
  <2>2. x \in Row
    BY <1>e, RowRecords, Names
  <2>3. row' = [row EXCEPT ![e] = x]
    BY <1>6 DEF PublishFails
  <2> HIDE DEF x
  <2>4. row' \in [Executions -> Row]
    BY <2>2, <2>3, RowUpdate
  <2> QED BY <1>6, <2>1, <2>4 DEF TypeOK, PublishFails, elsewhere
<1>7. CASE StrictNoDiff(e, r)
  <2>1. run' \in [Executions -> [Runs -> RunState]]
    BY <1>7, <1>s, <1>p DEF StrictNoDiff
  <2>2. row' \in [Executions -> Row]
    <3>1. CASE SetRow(e, "failed", "failed", "no_changes")
      BY <3>1, Names, SetRowType
    <3>2. CASE AttemptsLeft(e) /\ ResetForRetry(e)
      <4> DEFINE x == [row[e] EXCEPT !.status = "pending", !.orch = "queued",
                                     !.autom = "pending", !.tries = row[e].tries + 1]
      <4>0. row[e].tries + 1 \in 1..MaxAttempts
        BY <3>2, <1>e, BoundsAssumption DEF AttemptsLeft, Row
      <4>1. x \in Row
        BY <4>0, <1>e, RowRecords, Names
      <4>2. row' = [row EXCEPT ![e] = x]
        BY <3>2, <1>e DEF ResetForRetry, TypeOK, Row
      <4> HIDE DEF x
      <4> QED BY <4>1, <4>2, RowUpdate
    <3> QED BY <1>7, <3>1, <3>2 DEF StrictNoDiff
  <2> QED BY <1>7, <2>1, <2>2 DEF TypeOK, StrictNoDiff, elsewhere
<1>8. CASE Redispatch(e, r)
  <2>1. run' \in [Executions -> [Runs -> RunState]]
    BY <1>8, <1>s, <1>p DEF Redispatch
  <2>2. jobs' \in [Executions -> Nat]
    BY <1>8, EnqueueType DEF Redispatch, TypeOK
  <2>3. faults' \in Nat
    BY <1>8, BoundsAssumption DEF Redispatch, TypeOK, Fault
  <2>4. row' \in [Executions -> Row]
    <3> DEFINE x == [row[e] EXCEPT !.autom = "failed"]
    <3>1. x \in Row
      BY <1>e, RowRecords, Names
    <3>2. row' = row \/ row' = [row EXCEPT ![e] = x]
      BY <1>8 DEF Redispatch
    <3> HIDE DEF x
    <3> QED BY <3>1, <3>2, RowUpdate DEF TypeOK
  <2> QED BY <1>8, <2>1, <2>2, <2>3, <2>4 DEF TypeOK, Redispatch
<1>9. CASE Finish(e, r)
  <2>1. run' \in [Executions -> [Runs -> RunState]]
    BY <1>9, <1>s, <1>p DEF Finish
  <2>2. row' \in [Executions -> Row]
    BY <1>9, <1>a, Names, SetRowType, FailRowType DEF Finish
  <2> QED BY <1>9, <2>1, <2>2 DEF TypeOK, Finish, elsewhere
<1>10. CASE Release(e, r)
  <2>1. run' \in [Executions -> [Runs -> RunState]]
    BY <1>10, RunTypes, RunUpdate DEF Release
  <2>2. active' \in [Executions -> 0..MaxRuns]
    BY <1>10, BoundsAssumption DEF Release, DeleteOwnEntry, TypeOK
  <2> QED BY <1>10, <2>1, <2>2 DEF TypeOK, Release
<1> QED BY <1>1, <1>2, <1>3, <1>4, <1>5, <1>6, <1>7, <1>8, <1>9, <1>10 DEF HandlerStep

\* Shutdown, crash, boot and the recovery of the worker, and a crash of the API.
LEMMA TypeRestart ==
  ASSUME TypeOK,
         RestartStep \/ \E e \in Executions : Recover(e) \/ RecoverEnqueue(e)
  PROVE  TypeOK'
<1>1. CASE StopWorker
  <2> DEFINE next(e, r) ==
        IF active[e] = r THEN [run[e][r] EXCEPT !.stop = run[e][r].stop \cup {"cancel"}]
                         ELSE run[e][r]
  <2>1. run' = [e \in Executions |-> [r \in Runs |-> next(e, r)]]
    BY <1>1 DEF StopWorker
  <2>2. ASSUME NEW e \in Executions, NEW r \in Runs PROVE next(e, r) \in RunState
    <3>1. run[e][r] \in RunState
      BY DEF TypeOK
    <3>2. {"cancel"} \in SUBSET Flags
      BY DEF Flags
    <3> QED BY <3>1, <3>2, RecordUpdates
  <2> HIDE DEF next
  <2>3. run' \in [Executions -> [Runs -> RunState]]
    BY <2>1, <2>2
  <2>4. faults' \in Nat
    BY <1>1, BoundsAssumption DEF StopWorker, Fault, TypeOK
  <2> QED BY <1>1, <2>3, <2>4 DEF TypeOK, StopWorker
<1>2. CASE WorkerGone
  <2>1. run' \in [Executions -> [Runs -> RunState]]
    BY <1>2, RunTypes DEF WorkerGone
  <2>2. faults' \in Nat
    BY <1>2, BoundsAssumption DEF WorkerGone, Fault, TypeOK
  <2>3. jobs' \in [Executions -> Nat]
    <3>1. jobs' = jobs \/ jobs' = [jobs EXCEPT ![cons.exec] = @ + 1]
      BY <1>2 DEF WorkerGone
    <3>2. CASE cons.exec \in Executions
      BY <3>1, <3>2 DEF TypeOK
    <3>3. CASE cons.exec \notin Executions
      BY <3>1, <3>3 DEF TypeOK
    <3> QED BY <3>2, <3>3
  <2>4. cons' \in [pc : ConsumerSteps, exec : Executions \cup {NoExecution},
                   proc : 0..MaxRuns]
    BY <1>2, BoundsAssumption DEF WorkerGone, IdleConsumer, ConsumerSteps
  <2>5. active' \in [Executions -> 0..MaxRuns]
    BY <1>2, BoundsAssumption DEF WorkerGone
  <2> QED BY <1>2, <2>1, <2>2, <2>3, <2>4, <2>5 DEF TypeOK, WorkerGone
<1>3. CASE Boot
  BY <1>3 DEF TypeOK, Boot
<1>4. CASE Recovered
  BY <1>4 DEF TypeOK, Recovered
<1>5. CASE ApiCrash
  <2>1. faults' \in Nat
    BY <1>5, BoundsAssumption DEF ApiCrash, Fault, TypeOK
  <2> QED BY <1>5, <2>1 DEF TypeOK, ApiCrash, ApiSteps
<1>6. ASSUME NEW e \in Executions, Recover(e) PROVE TypeOK'
  <2>1. row' \in [Executions -> Row]
    BY <1>6, FailRowType, SetRowType, Names DEF Recover
  <2> QED BY <1>6, <2>1 DEF TypeOK, Recover
<1>7. ASSUME NEW e \in Executions, RecoverEnqueue(e) PROVE TypeOK'
  <2>1. jobs' \in [Executions -> Nat]
    BY <1>7, EnqueueType DEF RecoverEnqueue
  <2> QED BY <1>7, <2>1 DEF TypeOK, RecoverEnqueue
<1> QED BY <1>1, <1>2, <1>3, <1>4, <1>5, <1>6, <1>7 DEF RestartStep

\* Every step keeps the state well typed.
LEMMA TypeStep == TypeOK /\ [Next]_vars => TypeOK'
<1> SUFFICES ASSUME TypeOK, [Next]_vars PROVE TypeOK'
  OBVIOUS
<1>1. CASE UNCHANGED vars
  BY <1>1 DEF TypeOK, vars
<1>2. ASSUME NEW e \in Executions, ApiStep(e) \/ ConsumerStep(e) PROVE TypeOK'
  BY <1>2, TypeApi, TypeConsumer
<1>3. ASSUME NEW e \in Executions, NEW r \in Runs,
             SignalStep(e, r) \/ Exit(e, r) \/ HandlerStep(e, r)
      PROVE  TypeOK'
  BY <1>3, TypeSignal, TypeExit, TypeHandler
<1>4. CASE RestartStep \/ \E e \in Executions : Recover(e) \/ RecoverEnqueue(e)
  BY <1>4, TypeRestart
<1> QED BY <1>1, <1>2, <1>3, <1>4 DEF Next

\* Every state the three programs reach is well typed; above all, no execution
\* makes more attempts than the publication service allows.
THEOREM TypeCorrect == Spec => []TypeOK
BY TypeInit, TypeStep, PTL DEF Spec
-----------------------------------------------------------------------------
(* One owner per execution.                                                *)
(*                                                                         *)
(* OneOwner is not inductive: Recover resets rows by id, which is harmless *)
(* only because nothing of a former worker is left while a worker boots,   *)
(* and StrictNoDiff hands the row on although the CLI process of its run   *)
(* might, for all OneOwner says, be alive.  Both facts are added.          *)

\* While the worker is down or recovering, no consumer and no run is at work.
Quiet ==
  worker \in {"down", "recovering"} =>
    cons.pc = "idle" /\ \A e \in Executions, r \in Runs : ~Busy(e, r)

\* A handler runs after the exit of its process.
HandlersAfterExit ==
  \A e \in Executions, r \in Runs : run[e][r].alive => run[e][r].pc \in {"deaf", "armed"}

\* No dispatch has failed, so no catch block is about to reset a row by id.
NoUndo == \A e \in Executions : api[e] \notin {"createFailed", "startFailed"}

OwnerInv == OneOwner /\ Quiet /\ HandlersAfterExit /\ NoUndo

\* The theorem is about a queue client that never throws: the undo of a start whose
\* dispatch threw is the one write that can take a row away from its owner.
ReliableDispatch == Faults \cap {"enqueueRefused", "enqueueLost"} = {}

\* A step that lets go of rows, claims and runs and takes none keeps the owner.
LEMMA Shrink ==
  ASSUME OneOwner,
         \A e \in Executions : Fresh(e)' => Fresh(e),
         \A e \in Executions : Held(e)' => Held(e),
         \A e \in Executions, r \in Runs : Busy(e, r)' => Busy(e, r)
  PROVE  OneOwner'
  BY DEF OneOwner

\* The same for the quiet worker.
LEMMA StayQuiet ==
  ASSUME Quiet, worker' = worker,
         worker \in {"down", "recovering"} /\ cons.pc = "idle" => cons'.pc = "idle",
         \A e \in Executions, r \in Runs : Busy(e, r)' => Busy(e, r)
  PROVE  Quiet'
  BY DEF Quiet

\* Rows, claims and runs depend on one variable each.
LEMMA Unchanged ==
  /\ row' = row => \A e \in Executions : Fresh(e)' => Fresh(e)
  /\ cons' = cons => \A e \in Executions : Held(e)' => Held(e)
  /\ run' = run => \A e \in Executions, r \in Runs : Busy(e, r)' => Busy(e, r)
  BY DEF Fresh, Held, Busy

\* A row is written as settled, finalizing or running: it is not fresh afterwards.
LEMMA NotFresh ==
  ASSUME TypeOK, NEW e \in Executions, NEW s \in Statuses \ {"absent"},
         NEW o \in OrchestrationStates, NEW a \in AutomationStatuses,
         SetRow(e, s, o, a), s # "pending" \/ o # "queued"
  PROVE  /\ \A d \in Executions : Fresh(d)' => Fresh(d)
         /\ ~Fresh(e)'
  BY DEF Fresh, SetRow, TypeOK, Row

\* A failed execution cannot be claimed.
LEMMA FailNotFresh ==
  ASSUME TypeOK, NEW e \in Executions, FailRow(e)
  PROVE  /\ \A d \in Executions : Fresh(d)' => Fresh(d)
         /\ ~Fresh(e)'
  BY NotFresh, Names DEF FailRow, Statuses

\* A write of the automation column does not make a row fresh.
LEMMA AutomNotFresh ==
  ASSUME TypeOK, NEW e \in Executions, NEW a,
         row' = [row EXCEPT ![e].autom = a]
  PROVE  \A d \in Executions : Fresh(d)' => Fresh(d)
  BY DEF Fresh, TypeOK, Row

\* At first nobody owns an execution.
LEMMA OwnerInit == Init => OwnerInv
  BY DEF Init, OwnerInv, OneOwner, Quiet, HandlersAfterExit, NoUndo, Held, Busy,
     IdleConsumer, UnusedRun

\* An API request never takes an execution from its owner, for a reliable dispatch
\* never undoes a start that took place.
LEMMA OwnerApi ==
  ASSUME ReliableDispatch, TypeOK, OwnerInv, NEW e \in Executions, ApiStep(e)
  PROVE  OwnerInv'
<1>1. cons' = cons /\ run' = run /\ worker' = worker
  BY DEF ApiStep, CreateExecution, CreateDraft, StartDraft, Dispatch, DispatchThrows,
     UndoDispatch, CancelRead, CancelWrite, butRow
<1>2. ~DispatchThrows(e)
  BY DEF ReliableDispatch, DispatchThrows, Fault
<1>3. ~UndoDispatch(e)
  BY DEF OwnerInv, NoUndo, UndoDispatch
<1>4. NoUndo'
  BY <1>2, <1>3 DEF OwnerInv, NoUndo, TypeOK, ApiStep, CreateExecution, CreateDraft,
     StartDraft, Dispatch, CancelRead, CancelWrite, butRow
<1>5. \A d \in Executions : Fresh(d)' => Fresh(d)
  <2>1. CASE CreateExecution(e)
    BY <2>1 DEF CreateExecution, Fresh, TypeOK, Row
  <2>2. CASE CreateDraft(e)
    BY <2>2 DEF CreateDraft, Fresh, TypeOK, Row
  <2>3. CASE StartDraft(e)
    BY <2>3 DEF StartDraft, Fresh, TypeOK, Row
  <2>4. CASE Dispatch(e) \/ CancelRead(e)
    BY <2>4, Unchanged DEF Dispatch, CancelRead
  <2>5. CASE CancelWrite(e)
    BY <2>5, NotFresh, Names DEF CancelWrite, Statuses
  <2> QED BY <1>2, <1>3, <2>1, <2>2, <2>3, <2>4, <2>5 DEF ApiStep
<1>6. OneOwner'
  BY <1>1, <1>5, Unchanged, Shrink DEF OwnerInv
<1>7. Quiet' /\ HandlersAfterExit'
  BY <1>1, Unchanged, StayQuiet DEF OwnerInv, HandlersAfterExit
<1> QED BY <1>4, <1>6, <1>7 DEF OwnerInv

\* The consumer becomes the owner by claiming a fresh row, hands the ownership to
\* the run it spawns, and gives it up when it fails the row.
LEMMA OwnerConsumer ==
  ASSUME TypeOK, OwnerInv, NEW e \in Executions, ConsumerStep(e)
  PROVE  OwnerInv'
<1>1. worker' = worker /\ api' = api
  BY DEF ConsumerStep, Receive, Claim, Load, Start, Spawn, Listen, StatementFails,
     Acknowledge, butQueue
<1>2. NoUndo'
  BY <1>1 DEF OwnerInv, NoUndo
\* The consumer runs in a worker that is neither down nor recovering.
<1>3. worker \notin {"down", "recovering"}
  BY DEF OwnerInv, Quiet, ConsumerStep, Receive, Claim, Load, Start, Spawn, Listen,
     StatementFails, Acknowledge, At, Consuming
<1>4. Quiet'
  BY <1>1, <1>3 DEF Quiet
<1>5. SUFFICES OneOwner' /\ HandlersAfterExit'
  BY <1>2, <1>4 DEF OwnerInv
<1>h. run' = run => HandlersAfterExit'
  BY DEF OwnerInv, HandlersAfterExit
<1>6. CASE Receive(e)
  <2>1. \A d \in Executions : Held(d)' => Held(d)
    BY <1>6 DEF Receive, Held
  <2> QED BY <1>6, <1>h, <2>1, Unchanged, Shrink DEF Receive, butQueue, OwnerInv
<1>7. CASE Claim(e)
  <2>1. CASE Claimable(e) /\ row' = [row EXCEPT ![e].orch = "running"] /\ GoTo("load")
    <3>1. Fresh(e) /\ ~Fresh(e)' /\ \A d \in Executions : Fresh(d)' => Fresh(d)
      BY <2>1 DEF Claimable, Fresh, TypeOK, Row
    <3>2. \A d \in Executions \ {e} : ~Held(d)'
      BY <1>7, <2>1 DEF Claim, At, GoTo, Held, TypeOK
    <3>3. run' = run
      BY <1>7 DEF Claim
    <3>4. \A d \in Executions, r \in Runs : Busy(d, r)' => Busy(d, r)
      BY <3>3, Unchanged
    <3> QED BY <3>1, <3>2, <3>3, <3>4, <1>h DEF OwnerInv, OneOwner
  <2>2. CASE GoTo("ack") /\ UNCHANGED row
    <3>1. \A d \in Executions : Held(d)' => Held(d)
      BY <2>2 DEF GoTo, Held, TypeOK
    <3> QED BY <1>7, <2>2, <1>h, <3>1, Unchanged, Shrink DEF Claim, OwnerInv
  <2> QED BY <1>7, <2>1, <2>2 DEF Claim
<1>8. CASE Load(e)
  <2>1. \A d \in Executions : Held(d)' => Held(d)
    BY <1>8 DEF Load, At, GoTo, Held, TypeOK
  <2>2. \A d \in Executions : Fresh(d)' => Fresh(d)
    BY <1>8, FailNotFresh, Unchanged DEF Load
  <2> QED BY <1>8, <1>h, <2>1, <2>2, Unchanged, Shrink DEF Load, OwnerInv
<1>9. CASE Start(e)
  <2>1. \A d \in Executions : Held(d)' => Held(d)
    BY <1>9 DEF Start, At, GoTo, Held, TypeOK
  <2>2. \A d \in Executions : Fresh(d)' => Fresh(d)
    <3>1. CASE row' = [row EXCEPT ![e].status = "running"]
      BY <3>1 DEF Fresh, TypeOK, Row
    <3> QED BY <1>9, <3>1, Unchanged DEF Start
  <2> QED BY <1>9, <1>h, <2>1, <2>2, Unchanged, Shrink DEF Start, OwnerInv
<1>10. CASE Spawn(e)
  <2>0. Held(e) /\ ~Fresh(e)
    BY <1>10 DEF Spawn, At, Held, OwnerInv, OneOwner
  <2>1. CASE FailRow(e) /\ GoTo("ack") /\ UNCHANGED <<run, active>>
    <3>1. \A d \in Executions : Held(d)' => Held(d)
      BY <2>1 DEF GoTo, Held, TypeOK
    <3>2. \A d \in Executions : Fresh(d)' => Fresh(d)
      BY <2>1, FailNotFresh
    <3> QED BY <2>1, <1>h, <3>1, <3>2, Unchanged, Shrink DEF OwnerInv
  <2>2. CASE ~(FailRow(e) /\ GoTo("ack") /\ UNCHANGED <<run, active>>)
    <3> PICK r \in Runs :
          /\ run[e][r].pc = "unused"
          /\ run' = [run EXCEPT ![e][r] = [UnusedRun EXCEPT !.alive = TRUE, !.pc = "deaf"]]
          /\ cons' = [cons EXCEPT !.pc = "listen", !.proc = r]
          /\ UNCHANGED row
      BY <1>10, <2>2 DEF Spawn
    <3>1. \A d \in Executions : ~Held(d)'
      BY DEF Held, TypeOK
    <3>2. \A d \in Executions, s \in Runs :
            <<d, s>> # <<e, r>> => run'[d][s] = run[d][s]
      BY DEF TypeOK
    <3>3. \A d \in Executions, s \in Runs :
            <<d, s>> # <<e, r>> => (Busy(d, s)' => Busy(d, s))
      BY <3>2 DEF Busy
    <3>4. \A s \in Runs : ~Busy(e, s)
      BY <2>0 DEF OwnerInv, OneOwner
    <3>5. \A d \in Executions : Fresh(d)' => Fresh(d) /\ d # e
      BY <2>0, Unchanged
    <3>6. OneOwner'
      BY <3>1, <3>3, <3>4, <3>5 DEF OwnerInv, OneOwner
    <3>7. run'[e][r].pc = "deaf"
      BY DEF TypeOK, UnusedRun
    <3>8. HandlersAfterExit'
      BY <3>2, <3>7 DEF OwnerInv, HandlersAfterExit
    <3> QED BY <3>6, <3>8
  <2> QED BY <2>1, <2>2
<1>11. CASE Listen(e)
  <2>1. \A d \in Executions : Held(d)' => Held(d)
    BY <1>11 DEF Listen, GoTo, Held, TypeOK
  <2>2. row' = row
    BY <1>11 DEF Listen
  <2>3. ASSUME NEW d \in Executions, NEW s \in Runs
        PROVE  /\ run'[d][s].alive = run[d][s].alive
               /\ run'[d][s] = run[d][s] \/ run'[d][s].pc = "armed"
    BY <1>11 DEF Listen, Attach, TypeOK, RunState
  <2>4. \A d \in Executions, s \in Runs : Busy(d, s)' => Busy(d, s)
    BY <2>3 DEF Busy
  <2>5. HandlersAfterExit'
    BY <2>3 DEF OwnerInv, HandlersAfterExit
  <2> QED BY <2>1, <2>2, <2>4, <2>5, Unchanged, Shrink DEF OwnerInv
<1>12. CASE StatementFails(e)
  <2>1. \A d \in Executions : Held(d)' => Held(d)
    BY <1>12 DEF StatementFails, GoTo, Held, TypeOK, IdleConsumer
  <2>2. \A d \in Executions : Fresh(d)' => Fresh(d)
    BY <1>12, FailNotFresh, Unchanged DEF StatementFails
  <2> QED BY <1>12, <1>h, <2>1, <2>2, Unchanged, Shrink DEF StatementFails, OwnerInv
<1>13. CASE Acknowledge(e)
  <2>1. \A d \in Executions : Held(d)' => Held(d)
    BY <1>13 DEF Acknowledge, Held, IdleConsumer
  <2> QED BY <1>13, <1>h, <2>1, Unchanged, Shrink DEF Acknowledge, butQueue, OwnerInv
<1> QED BY <1>6, <1>7, <1>8, <1>9, <1>10, <1>11, <1>12, <1>13 DEF ConsumerStep

\* A flag changes no owner.
LEMMA OwnerSignal ==
  ASSUME TypeOK, OwnerInv, NEW e \in Executions, NEW r \in Runs, SignalStep(e, r)
  PROVE  OwnerInv'
<1>1. PICK f : Flag(e, f) /\ UNCHANGED butRun
  BY DEF SignalStep, Timeout, FatalOutput, SyncCancellation
<1>2. ASSUME NEW d \in Executions, NEW s \in Runs
      PROVE  run'[d][s].alive = run[d][s].alive /\ run'[d][s].pc = run[d][s].pc
  BY <1>1 DEF Flag, Entry, TypeOK, RunState
<1>3. \A d \in Executions, s \in Runs : Busy(d, s)' => Busy(d, s)
  BY <1>2 DEF Busy
<1>4. OneOwner'
  BY <1>1, <1>3, Unchanged, Shrink DEF butRun, OwnerInv
<1>5. Quiet'
  BY <1>1, <1>3, StayQuiet DEF butRun, OwnerInv
<1>6. HandlersAfterExit' /\ NoUndo'
  BY <1>1, <1>2 DEF HandlersAfterExit, NoUndo, butRun, OwnerInv
<1> QED BY <1>4, <1>5, <1>6 DEF OwnerInv

\* What an exit makes of the runs: only the run that ended is touched, its timers apart.
LEMMA ExitMoves ==
  ASSUME TypeOK, NEW e \in Executions, NEW r \in Runs, Exit(e, r)
  PROVE  /\ run'[e][r].alive = FALSE
         /\ run'[e][r].pc \in {run[e][r].pc, "read"}
         /\ \A d \in Executions, s \in Runs : <<d, s>> # <<e, r>> =>
              run'[d][s].alive = run[d][s].alive /\ run'[d][s].pc = run[d][s].pc
<1>1. CASE run' = [run EXCEPT ![e][r] = [@ EXCEPT !.alive = FALSE]]
  <2> DEFINE x == [run[e][r] EXCEPT !.alive = FALSE]
  <2>1. x.alive = FALSE /\ x.pc = run[e][r].pc
    BY DEF TypeOK, RunState
  <2>2. run' = [run EXCEPT ![e][r] = x]
    BY <1>1
  <2> HIDE DEF x
  <2> QED BY <2>1, <2>2 DEF TypeOK
<1>2. ASSUME NEW c \in {"zero", "nonzero"}, HandleExit(e, r, c)
      PROVE  /\ run'[e][r].alive = FALSE
             /\ run'[e][r].pc \in {run[e][r].pc, "read"}
             /\ \A d \in Executions, s \in Runs : <<d, s>> # <<e, r>> =>
                  run'[d][s].alive = run[d][s].alive /\ run'[d][s].pc = run[d][s].pc
  <2> DEFINE here(s) ==
               IF s = r THEN [run[e][s] EXCEPT !.alive = FALSE, !.code = c,
                                               !.pc = "read", !.ref = active[e]]
                        ELSE run[e][s]
             next(s) == IF s = active[e] THEN [here(s) EXCEPT !.timers = FALSE]
                                         ELSE here(s)
  <2>0. \A s \in Runs : run[e][s] \in RunState
    BY DEF TypeOK
  <2>1. run' = [run EXCEPT ![e] = [s \in Runs |-> next(s)]]
    BY <1>2 DEF HandleExit
  <2>2. ASSUME NEW s \in Runs
        PROVE  /\ here(s) \in RunState
               /\ s = r => here(s).alive = FALSE /\ here(s).pc = "read"
               /\ s # r => here(s) = run[e][s]
    <3>1. active[e] \in 0..MaxRuns
      BY DEF TypeOK
    <3>2. CASE s = r
      <4> DEFINE y == [run[e][r] EXCEPT !.alive = FALSE, !.code = c, !.pc = "read",
                                        !.ref = active[e]]
      <4>1. here(s) = y
        BY <3>2
      <4>2. y \in RunState
        BY <2>0, <3>1, RecordUpdates
      <4>3. y.alive = FALSE /\ y.pc = "read"
        BY <2>0, <3>1, RecordFields
      <4> HIDE DEF y, here
      <4> QED BY <3>2, <4>1, <4>2, <4>3
    <3>3. CASE s # r
      BY <2>0, <3>3
    <3> QED BY <3>2, <3>3
  <2> HIDE DEF here
  <2>3. ASSUME NEW s \in Runs
        PROVE  next(s).alive = here(s).alive /\ next(s).pc = here(s).pc
    BY <2>2, RecordFields
  <2> HIDE DEF next
  <2>4. \A s \in Runs : run'[e][s] = next(s)
    BY <2>1 DEF TypeOK
  <2>5. \A d \in Executions \ {e} : run'[d] = run[d]
    BY <2>1 DEF TypeOK
  <2>6. run'[e][r].alive = FALSE /\ run'[e][r].pc = "read"
    BY <2>2, <2>3, <2>4
  <2>7. \A s \in Runs \ {r} :
          run'[e][s].alive = run[e][s].alive /\ run'[e][s].pc = run[e][s].pc
    BY <2>2, <2>3, <2>4
  <2> QED BY <2>5, <2>6, <2>7
<1> QED BY <1>1, <1>2 DEF Exit

\* A process that ends hands its execution to its exit handler.
LEMMA OwnerExit ==
  ASSUME TypeOK, OwnerInv, NEW e \in Executions, NEW r \in Runs, Exit(e, r)
  PROVE  OwnerInv'
<1>1. \A d \in Executions, s \in Runs : <<d, s>> # <<e, r>> =>
        run'[d][s].alive = run[d][s].alive /\ run'[d][s].pc = run[d][s].pc
  BY ExitMoves
<1>2. Busy(e, r) /\ ~run'[e][r].alive
  BY ExitMoves DEF Exit, Busy
<1>3. \A d \in Executions, s \in Runs : Busy(d, s)' => Busy(d, s)
  BY <1>1, <1>2 DEF Busy
<1>4. row' = row /\ cons' = cons /\ worker' = worker /\ api' = api
  BY DEF Exit
<1>5. OneOwner' /\ Quiet'
  BY <1>3, <1>4, Unchanged, Shrink, StayQuiet DEF OwnerInv
<1>6. HandlersAfterExit' /\ NoUndo'
  BY <1>1, <1>2, <1>4 DEF HandlersAfterExit, NoUndo, OwnerInv
<1> QED BY <1>5, <1>6 DEF OwnerInv

\* A handler's next step: the run was no live process and moves on to pc.
LEMMA HandlerMoves ==
  ASSUME TypeOK, OwnerInv, NEW e \in Executions, NEW r \in Runs, HandlerStep(e, r)
  PROVE  /\ ~run[e][r].alive
         /\ \A d \in Executions, s \in Runs :
              /\ run'[d][s].alive => run[d][s].alive
              /\ <<d, s>> # <<e, r>> => run'[d][s].pc = run[d][s].pc
         /\ Busy(e, r)' => Busy(e, r)
<1>1. ~run[e][r].alive
  BY DEF OwnerInv, HandlersAfterExit, HandlerStep, ReadRow, WriteOutcome, Route,
     BeginPublication, Publish, PublishFails, StrictNoDiff, Redispatch, Finish, Release,
     Handler
<1>2. CASE ReadRow(e, r)
  BY <1>1, <1>2 DEF ReadRow, Handler, TypeOK, RunState, Busy
<1>3. CASE Release(e, r)
  BY <1>1, <1>3 DEF Release, EndedRun, UnusedRun, TypeOK, Busy
<1>4. CASE WriteOutcome(e, r)
  <2>1. \E x : run' = [run EXCEPT ![e][r] = [@ EXCEPT !.pc = "route", !.result = x]]
    BY <1>4 DEF WriteOutcome
  <2>2. run[e][r].pc = "write"
    BY <1>4 DEF WriteOutcome, Handler
  <2> QED BY <1>1, <2>1, <2>2 DEF TypeOK, RunState, Busy
<1>5. ASSUME NEW pc, Step(e, r, pc),
             Busy(e, r) \/ pc \in {"release", "finishFail"}
      PROVE  /\ \A d \in Executions, s \in Runs :
                  /\ run'[d][s].alive => run[d][s].alive
                  /\ <<d, s>> # <<e, r>> => run'[d][s].pc = run[d][s].pc
             /\ Busy(e, r)' => Busy(e, r)
  BY <1>1, <1>5 DEF Step, TypeOK, RunState, Busy
<1>6. CASE Route(e, r) \/ BeginPublication(e, r) \/ Publish(e, r) \/ PublishFails(e, r)
           \/ StrictNoDiff(e, r)
  <2>1. Busy(e, r) /\ \E pc : Step(e, r, pc)
    BY <1>6 DEF Route, BeginPublication, Publish, PublishFails, StrictNoDiff, Handler, Busy
  <2> QED BY <1>1, <1>5, <2>1
<1>7. CASE Redispatch(e, r) \/ Finish(e, r)
  <2>1. Step(e, r, "release") \/ Step(e, r, "finishFail")
    BY <1>7 DEF Redispatch, Finish
  <2> QED BY <1>1, <1>5, <2>1
<1> QED BY <1>1, <1>2, <1>3, <1>4, <1>6, <1>7 DEF HandlerStep

\* A handler step other than a retry leaves no row fresh that was not.
LEMMA HandlerRow ==
  ASSUME TypeOK, OwnerInv, NEW e \in Executions, NEW r \in Runs, HandlerStep(e, r),
         ~StrictNoDiff(e, r)
  PROVE  \A d \in Executions : Fresh(d)' => Fresh(d)
<1>a. row[e].autom \in AutomationStatuses
  BY DEF TypeOK, Row
<1>n. {"completed", "failed", "cancelled"} \subseteq Statuses \ {"absent"}
  BY DEF Statuses
<1>1. CASE ReadRow(e, r) \/ Release(e, r)
  BY <1>1, Unchanged DEF ReadRow, Release, butRun
<1>2. CASE WriteOutcome(e, r)
  <2>1. \/ SetRow(e, "failed", "failed", row[e].autom) \/ FailRow(e)
        \/ SetRow(e, "cancelled", "done", "not_applicable")
        \/ SetRow(e, "completed", "finalizing", row[e].autom)
    BY <1>2 DEF WriteOutcome, Outcome
  <2> QED BY <2>1, <1>a, <1>n, Names, NotFresh, FailNotFresh
<1>3. CASE Route(e, r)
  <2>1. CASE row' = [row EXCEPT ![e].orch = "done"]
    <3>1. row[e].status # "absent"
      BY <1>3 DEF OwnerInv, OneOwner, Route, Handler, Busy, Fresh
    <3> QED BY <2>1, <3>1 DEF Fresh, TypeOK, Row
  <2> QED BY <1>3, <2>1, <1>a, <1>n, Names, NotFresh, Unchanged DEF Route
<1>4. CASE BeginPublication(e, r) \/ Publish(e, r) \/ PublishFails(e, r)
           \/ Redispatch(e, r)
  <2>1. row' = row \/ \E a : row' = [row EXCEPT ![e].autom = a]
    BY <1>4 DEF BeginPublication, Publish, PublishFails, Redispatch
  <2> QED BY <2>1, AutomNotFresh, Unchanged
<1>5. CASE Finish(e, r)
  <2>1. \/ SetRow(e, "completed", "done", row[e].autom) \/ FailRow(e)
        \/ SetRow(e, "failed", "failed", "no_changes")
    BY <1>5 DEF Finish
  <2> QED BY <2>1, <1>a, <1>n, Names, NotFresh, FailNotFresh
<1> QED BY <1>1, <1>2, <1>3, <1>4, <1>5 DEF HandlerStep

\* A handler gives its execution up only when it settles the row or queues it again.
LEMMA OwnerHandler ==
  ASSUME TypeOK, OwnerInv, NEW e \in Executions, NEW r \in Runs, HandlerStep(e, r)
  PROVE  OwnerInv'
<1>1. cons' = cons /\ worker' = worker /\ api' = api
  BY DEF HandlerStep, ReadRow, WriteOutcome, Route, BeginPublication, Publish,
     PublishFails, StrictNoDiff, Redispatch, Finish, Release, elsewhere, butRun
<1>2. \A d \in Executions, s \in Runs : Busy(d, s)' => Busy(d, s)
  BY HandlerMoves DEF Busy
<1>3. HandlersAfterExit' /\ NoUndo' /\ Quiet'
  BY <1>1, <1>2, HandlerMoves, StayQuiet DEF HandlersAfterExit, NoUndo, OwnerInv
<1>4. CASE ~StrictNoDiff(e, r)
  <2>1. OneOwner'
    BY <1>1, <1>2, <1>4, HandlerRow, Unchanged, Shrink DEF OwnerInv
  <2> QED BY <1>3, <2>1 DEF OwnerInv
<1>5. CASE StrictNoDiff(e, r)
  \* The run hands the row over: it was the owner, and it is not busy any more.
  <2>1. Busy(e, r)
    BY <1>5 DEF StrictNoDiff, Handler, Busy
  <2>2. ~Busy(e, r)'
    <3>1. Step(e, r, "requeue") \/ Step(e, r, "finishNone")
      BY <1>5 DEF StrictNoDiff
    <3>2. ~run'[e][r].alive
      BY HandlerMoves
    <3> QED BY <3>1, <3>2 DEF Step, Busy, TypeOK, RunState
  <2>3. ~Held(e)' /\ \A s \in Runs : ~Busy(e, s)'
    BY <1>1, <1>2, <2>1, <2>2, Unchanged DEF OwnerInv, OneOwner
  <2>4. \A d \in Executions \ {e} : Fresh(d)' => Fresh(d)
    BY <1>5 DEF StrictNoDiff, ResetForRetry, SetRow, Fresh, TypeOK, Row
  <2>5. \A d \in Executions : Held(d)' => Held(d)
    BY <1>1, Unchanged
  <2>6. OneOwner'
    BY <1>2, <2>3, <2>4, <2>5 DEF OwnerInv, OneOwner
  <2> QED BY <1>3, <2>6 DEF OwnerInv
<1> QED BY <1>4, <1>5

\* A crash leaves no owner but the rows; the recovery queues a row once and consumes
\* nothing before it has ended.
LEMMA OwnerRestart ==
  ASSUME TypeOK, OwnerInv,
         RestartStep \/ \E e \in Executions : Recover(e) \/ RecoverEnqueue(e)
  PROVE  OwnerInv'
<1>1. CASE StopWorker
  <2>1. ASSUME NEW d \in Executions, NEW s \in Runs
        PROVE  run'[d][s].alive = run[d][s].alive /\ run'[d][s].pc = run[d][s].pc
    BY <1>1 DEF StopWorker, TypeOK, RunState
  <2>2. \A d \in Executions, s \in Runs : Busy(d, s)' => Busy(d, s)
    BY <2>1 DEF Busy
  <2>3. OneOwner'
    BY <1>1, <2>2, Unchanged, Shrink DEF StopWorker, OwnerInv
  <2> QED BY <1>1, <2>1, <2>3 DEF StopWorker, OwnerInv, Quiet, HandlersAfterExit, NoUndo
<1>2. CASE WorkerGone
  <2>1. \A d \in Executions, s \in Runs : ~run'[d][s].alive /\ ~Busy(d, s)'
    BY <1>2 DEF WorkerGone, UnusedRun, EndedRun, Busy
  <2>2. cons'.pc = "idle" /\ \A d \in Executions : ~Held(d)'
    BY <1>2 DEF WorkerGone, IdleConsumer, Held
  <2> QED BY <1>2, <2>1, <2>2 DEF WorkerGone, OwnerInv, OneOwner, Quiet,
          HandlersAfterExit, NoUndo
<1>3. CASE Boot \/ Recovered
  <2>1. row' = row /\ cons' = cons /\ run' = run /\ api' = api
    BY <1>3 DEF Boot, Recovered
  <2>2. OneOwner' /\ HandlersAfterExit' /\ NoUndo'
    BY <2>1, Unchanged, Shrink DEF OwnerInv, HandlersAfterExit, NoUndo
  <2>3. Quiet'
    BY <1>3, <2>1, Unchanged DEF Boot, Recovered, OwnerInv, Quiet
  <2> QED BY <2>2, <2>3 DEF OwnerInv
<1>4. CASE ApiCrash
  <2>1. row' = row /\ cons' = cons /\ run' = run /\ worker' = worker
    BY <1>4 DEF ApiCrash
  <2>2. NoUndo'
    BY <1>4 DEF ApiCrash, NoUndo
  <2>3. Quiet'
    BY <2>1, Unchanged, StayQuiet DEF OwnerInv
  <2> QED BY <2>1, <2>2, <2>3, Unchanged, Shrink DEF OwnerInv, HandlersAfterExit
\* Recover resets a row, but while the worker recovers nobody is at work.
<1>5. ASSUME NEW e \in Executions, Recover(e) \/ RecoverEnqueue(e) PROVE OwnerInv'
  <2>1. cons' = cons /\ run' = run /\ worker' = worker /\ api' = api /\ worker = "recovering"
    BY <1>5 DEF Recover, RecoverEnqueue
  <2>2. cons'.pc = "idle" /\ \A d \in Executions, s \in Runs : ~Busy(d, s)'
    BY <2>1, Unchanged DEF OwnerInv, Quiet
  <2>3. OneOwner' /\ Quiet'
    BY <2>2 DEF OneOwner, Quiet, Held
  <2> QED BY <2>1, <2>3 DEF OwnerInv, HandlersAfterExit, NoUndo
<1> QED BY <1>1, <1>2, <1>3, <1>4, <1>5 DEF RestartStep

\* Every step keeps the invariant.
LEMMA OwnerStep ==
  ASSUME ReliableDispatch, TypeOK, OwnerInv, [Next]_vars
  PROVE  OwnerInv'
<1>1. CASE UNCHANGED vars
  <2>1. row' = row /\ cons' = cons /\ run' = run /\ worker' = worker /\ api' = api
    BY <1>1 DEF vars
  <2> QED BY <2>1, Unchanged, Shrink, StayQuiet DEF OwnerInv, HandlersAfterExit, NoUndo
<1>2. ASSUME NEW e \in Executions, ApiStep(e) \/ ConsumerStep(e) PROVE OwnerInv'
  BY <1>2, OwnerApi, OwnerConsumer
<1>3. ASSUME NEW e \in Executions, NEW r \in Runs,
             SignalStep(e, r) \/ Exit(e, r) \/ HandlerStep(e, r)
      PROVE  OwnerInv'
  BY <1>3, OwnerSignal, OwnerExit, OwnerHandler
<1>4. CASE RestartStep \/ \E e \in Executions : Recover(e) \/ RecoverEnqueue(e)
  BY <1>4, OwnerRestart
<1> QED BY <1>1, <1>2, <1>3, <1>4 DEF Next

\* Whatever crashes, shutdowns, failing statements and early exits happen, an
\* execution has one owner at a time, as long as the queue client does not throw.
THEOREM OneOwnerHolds ==
  ASSUME ReliableDispatch
  PROVE  Spec => []OneOwner
<1>1. OwnerInv => OneOwner
  BY DEF OwnerInv
<1>2. TypeOK /\ OwnerInv /\ [Next]_vars => OwnerInv'
  BY OwnerStep
<1> QED BY <1>1, <1>2, OwnerInit, TypeCorrect, PTL DEF Spec

\* In particular two CLI processes never work on one execution at the same time.
COROLLARY AtMostOneProcessHolds ==
  ASSUME ReliableDispatch
  PROVE  Spec => []AtMostOneProcess
<1>1. OneOwner => AtMostOneProcess
  BY DEF OneOwner, AtMostOneProcess, Busy
<1> QED BY <1>1, OneOwnerHolds, PTL
-----------------------------------------------------------------------------
(* The table of active executions, in which timers, cancellation and the    *)
(* exit handler look a process up by the id of the execution.               *)
(*                                                                         *)
(* ListenerIsEntry is not inductive.  A process becomes armed in Listen, by  *)
(* when it must be the entry already; and the handler of an earlier run     *)
(* deletes the entry it refers to, which must never be the entry of a later *)
(* run.                                                                     *)

\* The process of run r is alive and its exit is listened to, or about to be.
Heard(e, r) ==
  /\ run[e][r].alive
  /\ run[e][r].pc = "armed" \/ (cons.exec = e /\ cons.pc = "listen" /\ cons.proc = r)

\* The exit handler of run r is at work.
HandlingSteps ==
  {"read", "write", "route", "publish", "publishing", "requeue", "finishOk",
   "finishFail", "finishNone", "release"}
Handling(e, r) == run[e][r].pc \in HandlingSteps

EntryIsHeard == \A e \in Executions, r \in Runs : Heard(e, r) => active[e] = r
RefIsOwn == \A e \in Executions, r \in Runs : Handling(e, r) => run[e][r].ref = r
EntryInv == EntryIsHeard /\ RefIsOwn

\* A step that leaves the table alone, listens to nobody new and starts no handler.
LEMMA EntryStays ==
  ASSUME EntryInv, active' = active,
         \A e \in Executions, r \in Runs : Heard(e, r)' => Heard(e, r),
         \A e \in Executions, r \in Runs :
           Handling(e, r)' => Handling(e, r) /\ run'[e][r].ref = run[e][r].ref
  PROVE  EntryInv'
  BY DEF EntryInv, EntryIsHeard, RefIsOwn

\* A step that changes no run leaves the handlers alone; when it also leaves the
\* consumer alone, or sends it anywhere but to "listen", nobody new is listened to.
LEMMA RunsStay ==
  ASSUME EntryInv, active' = active, run' = run, cons' = cons \/ cons'.pc # "listen"
  PROVE  EntryInv'
<1>1. \A e \in Executions, r \in Runs : Heard(e, r)' => Heard(e, r)
  BY DEF Heard
<1>2. \A e \in Executions, r \in Runs :
        Handling(e, r)' => Handling(e, r) /\ run'[e][r].ref = run[e][r].ref
  BY DEF Handling
<1> QED BY <1>1, <1>2, EntryStays

\* At first there is no process.
LEMMA EntryInit == Init => EntryInv
  BY DEF Init, EntryInv, EntryIsHeard, RefIsOwn, Heard, Handling, HandlingSteps, UnusedRun

\* An API request reaches the table only through the database.
LEMMA EntryApi ==
  ASSUME EntryInv, NEW e \in Executions, ApiStep(e)
  PROVE  EntryInv'
<1>1. run' = run /\ cons' = cons /\ active' = active
  BY DEF ApiStep, CreateExecution, CreateDraft, StartDraft, Dispatch, DispatchThrows,
     UndoDispatch, CancelRead, CancelWrite, butRow
<1> QED BY <1>1, RunsStay

\* A spawned process is the entry: no other process of its execution is alive then.
LEMMA EntrySpawn ==
  ASSUME TypeOK, OwnerInv, EntryInv, NEW e \in Executions, Spawn(e)
  PROVE  EntryInv'
<1>1. CASE FailRow(e) /\ GoTo("ack") /\ UNCHANGED <<run, active>>
  <2>1. cons'.pc = "ack"
    BY <1>1 DEF GoTo, TypeOK
  <2> QED BY <1>1, <2>1, RunsStay
<1>2. CASE ~(FailRow(e) /\ GoTo("ack") /\ UNCHANGED <<run, active>>)
  <2> PICK r \in Runs :
        /\ run' = [run EXCEPT ![e][r] = [UnusedRun EXCEPT !.alive = TRUE, !.pc = "deaf"]]
        /\ active' = [active EXCEPT ![e] = r]
        /\ cons' = [cons EXCEPT !.pc = "listen", !.proc = r]
    BY <1>2 DEF Spawn
  <2>1. cons'.exec = e
    BY DEF Spawn, At, TypeOK
  <2>2. \A s \in Runs : ~run[e][s].alive
    BY DEF Spawn, At, Held, OwnerInv, OneOwner, Busy
  <2>3. \A d \in Executions, s \in Runs : <<d, s>> # <<e, r>> => run'[d][s] = run[d][s]
    BY DEF TypeOK
  <2>4. run'[e][r].pc = "deaf"
    BY DEF TypeOK, UnusedRun
  <2>5. active'[e] = r /\ \A d \in Executions \ {e} : active'[d] = active[d]
    BY DEF TypeOK
  <2>6. ASSUME NEW d \in Executions, NEW s \in Runs, Heard(d, s)'
        PROVE  active'[d] = s
    <3>1. CASE d = e
      BY <2>2, <2>3, <2>5, <2>6, <3>1 DEF Heard
    <3>2. CASE d # e
      <4>1. Heard(d, s)
        BY <2>1, <2>3, <2>6, <3>2 DEF Heard
      <4> QED BY <2>5, <3>2, <4>1 DEF EntryInv, EntryIsHeard
    <3> QED BY <3>1, <3>2
  <2>7. ASSUME NEW d \in Executions, NEW s \in Runs, Handling(d, s)'
        PROVE  run'[d][s].ref = s
    BY <2>3, <2>4, <2>7 DEF Handling, HandlingSteps, EntryInv, RefIsOwn
  <2> QED BY <2>6, <2>7 DEF EntryInv, EntryIsHeard, RefIsOwn
<1> QED BY <1>1, <1>2

\* The listener is attached to the process spawned last.
LEMMA EntryListen ==
  ASSUME TypeOK, EntryInv, NEW e \in Executions, Listen(e)
  PROVE  EntryInv'
<1>1. cons'.pc = "ack" /\ active' = active
  BY DEF Listen, GoTo, TypeOK
<1>2. cons.exec = e /\ cons.pc = "listen"
  BY DEF Listen, At
<1>3. ASSUME NEW d \in Executions, NEW s \in Runs
      PROVE  \/ run'[d][s] = run[d][s]
             \/ d = e /\ s = cons.proc /\ run'[d][s].pc = "armed"
                /\ run'[d][s].alive = run[d][s].alive
  BY DEF Listen, Attach, TypeOK, RunState
<1>4. \A d \in Executions, s \in Runs : Heard(d, s)' => Heard(d, s)
  BY <1>1, <1>2, <1>3 DEF Heard
<1>5. \A d \in Executions, s \in Runs :
        Handling(d, s)' => Handling(d, s) /\ run'[d][s].ref = run[d][s].ref
  BY <1>3 DEF Handling, HandlingSteps
<1> QED BY <1>1, <1>4, <1>5, EntryStays

\* The consumer writes the table when it spawns, and nowhere else.
LEMMA EntryConsumer ==
  ASSUME TypeOK, OwnerInv, EntryInv, NEW e \in Executions, ConsumerStep(e)
  PROVE  EntryInv'
<1>1. CASE Receive(e) \/ Claim(e) \/ Load(e) \/ Start(e) \/ StatementFails(e) \/ Acknowledge(e)
  <2>1. run' = run /\ active' = active
    BY <1>1 DEF Receive, Claim, Load, Start, StatementFails, Acknowledge, butQueue
  <2>2. cons'.pc # "listen"
    BY <1>1 DEF Receive, Claim, Load, Start, StatementFails, Acknowledge, GoTo, TypeOK,
       IdleConsumer
  <2> QED BY <2>1, <2>2, RunsStay
<1> QED BY <1>1, EntrySpawn, EntryListen DEF ConsumerStep

\* A flag is no entry.
LEMMA EntrySignal ==
  ASSUME TypeOK, EntryInv, NEW e \in Executions, NEW r \in Runs, SignalStep(e, r)
  PROVE  EntryInv'
<1>1. PICK f : Flag(e, f) /\ UNCHANGED butRun
  BY DEF SignalStep, Timeout, FatalOutput, SyncCancellation
<1>2. ASSUME NEW d \in Executions, NEW s \in Runs
      PROVE  /\ run'[d][s].alive = run[d][s].alive /\ run'[d][s].pc = run[d][s].pc
             /\ run'[d][s].ref = run[d][s].ref
  BY <1>1 DEF Flag, Entry, TypeOK, RunState
<1>3. cons' = cons /\ active' = active
  BY <1>1 DEF butRun
<1>4. \A d \in Executions, s \in Runs : Heard(d, s)' => Heard(d, s)
  BY <1>2, <1>3 DEF Heard
<1>5. \A d \in Executions, s \in Runs :
        Handling(d, s)' => Handling(d, s) /\ run'[d][s].ref = run[d][s].ref
  BY <1>2 DEF Handling
<1> QED BY <1>3, <1>4, <1>5, EntryStays

\* What the updates of an exit make of the reference of a run.
LEMMA ExitRef ==
  ASSUME NEW x \in RunState
  PROVE  /\ [x EXCEPT !.timers = FALSE].ref = x.ref
         /\ \A c \in {"zero", "nonzero"}, k \in 0..MaxRuns :
              [x EXCEPT !.alive = FALSE, !.code = c, !.pc = "read", !.ref = k].ref = k
  BY DEF RunState

\* The exit handler refers to the entry it found, which was the run's own.
LEMMA EntryExit ==
  ASSUME TypeOK, OwnerInv, EntryInv, NEW e \in Executions, NEW r \in Runs, Exit(e, r)
  PROVE  EntryInv'
<1>1. cons' = cons /\ active' = active /\ run[e][r].alive
  BY DEF Exit
<1>2. \A d \in Executions, s \in Runs : run[d][s] \in RunState
  BY DEF TypeOK
<1>3. ASSUME NEW c \in {"zero", "nonzero"}, HandleExit(e, r, c), run[e][r].pc = "armed"
      PROVE  /\ \A d \in Executions, s \in Runs : <<d, s>> # <<e, r>> => run'[d][s] = run[d][s]
             /\ run'[e][r].alive = FALSE /\ run'[e][r].ref = r
  <2>1. active[e] = r
    BY <1>1, <1>3 DEF Heard, EntryInv, EntryIsHeard
  <2> DEFINE y == [run[e][r] EXCEPT !.alive = FALSE, !.code = c, !.pc = "read", !.ref = r]
             here(s) == IF s = r THEN y ELSE run[e][s]
             next(s) == IF s = r THEN [here(s) EXCEPT !.timers = FALSE] ELSE here(s)
  <2>2. run' = [run EXCEPT ![e] = [s \in Runs |-> next(s)]]
    BY <1>3, <2>1 DEF HandleExit
  <2>3. \A s \in Runs \ {r} : next(s) = run[e][s]
    OBVIOUS
  <2>4. next(r).alive = FALSE /\ next(r).ref = r
    <3>1. r \in 0..MaxRuns
      BY BoundsAssumption DEF Runs
    <3>2. run[e][r] \in RunState
      BY <1>2
    <3>3. y \in RunState
      BY <3>1, <3>2, RecordUpdates
    <3>4. y.alive = FALSE /\ y.ref = r
      BY <3>1, <3>2, RecordFields, ExitRef
    <3>5. next(r) = [y EXCEPT !.timers = FALSE]
      OBVIOUS
    <3> HIDE DEF y, next
    <3> QED BY <3>3, <3>4, <3>5, RecordFields, ExitRef
  <2> HIDE DEF next
  <2>5. \A s \in Runs : run'[e][s] = next(s)
    BY <2>2 DEF TypeOK
  <2>6. \A d \in Executions \ {e} : run'[d] = run[d]
    BY <2>2 DEF TypeOK
  <2> QED BY <2>3, <2>4, <2>5, <2>6
<1>4. CASE run' = [run EXCEPT ![e][r] = [@ EXCEPT !.alive = FALSE]]
  <2>1. ASSUME NEW d \in Executions, NEW s \in Runs
        PROVE  /\ run'[d][s].alive => run[d][s].alive
               /\ run'[d][s].pc = run[d][s].pc /\ run'[d][s].ref = run[d][s].ref
    BY <1>4 DEF TypeOK, RunState
  <2>2. \A d \in Executions, s \in Runs : Heard(d, s)' => Heard(d, s)
    BY <1>1, <2>1 DEF Heard
  <2>3. \A d \in Executions, s \in Runs :
          Handling(d, s)' => Handling(d, s) /\ run'[d][s].ref = run[d][s].ref
    BY <2>1 DEF Handling
  <2> QED BY <1>1, <2>2, <2>3, EntryStays
<1>5. ASSUME NEW c \in {"zero", "nonzero"}, HandleExit(e, r, c), run[e][r].pc = "armed"
      PROVE  EntryInv'
  <2>0. /\ \A d \in Executions, s \in Runs : <<d, s>> # <<e, r>> => run'[d][s] = run[d][s]
        /\ run'[e][r].alive = FALSE /\ run'[e][r].ref = r
    BY <1>3, <1>5
  <2>1. \A d \in Executions, s \in Runs : Heard(d, s)' => active'[d] = s
    BY <1>1, <2>0 DEF Heard, EntryInv, EntryIsHeard
  <2>2. \A d \in Executions, s \in Runs : Handling(d, s)' => run'[d][s].ref = s
    BY <2>0 DEF Handling, EntryInv, RefIsOwn
  <2> QED BY <2>1, <2>2 DEF EntryInv, EntryIsHeard, RefIsOwn
<1> QED BY <1>4, <1>5 DEF Exit

\* A handler's step is a step of a handler that is at work, and keeps what it refers to.
LEMMA HandlerRefs ==
  ASSUME TypeOK, NEW e \in Executions, NEW r \in Runs, HandlerStep(e, r)
  PROVE  /\ Handling(e, r)
         /\ ~Release(e, r) => \A d \in Executions, s \in Runs : run'[d][s].ref = run[d][s].ref
         /\ Release(e, r) => /\ ~Handling(e, r)'
                             /\ \A d \in Executions, s \in Runs :
                                  <<d, s>> # <<e, r>> => run'[d][s] = run[d][s]
<1>1. Handling(e, r)
  BY DEF HandlerStep, ReadRow, WriteOutcome, Route, BeginPublication, Publish,
     PublishFails, StrictNoDiff, Redispatch, Finish, Release, Handler, Handling,
     HandlingSteps
<1>2. ASSUME ~Release(e, r)
      PROVE  \A d \in Executions, s \in Runs : run'[d][s].ref = run[d][s].ref
  <2>1. CASE ReadRow(e, r)
    BY <2>1 DEF ReadRow, TypeOK, RunState
  <2>2. CASE WriteOutcome(e, r)
    <3>1. \E x : run' = [run EXCEPT ![e][r] = [@ EXCEPT !.pc = "route", !.result = x]]
      BY <2>2 DEF WriteOutcome
    <3> QED BY <3>1 DEF TypeOK, RunState
  <2>3. CASE \E pc : Step(e, r, pc)
    BY <2>3 DEF Step, TypeOK, RunState
  <2> QED BY <1>2, <2>1, <2>2, <2>3 DEF HandlerStep, Route, BeginPublication, Publish,
          PublishFails, StrictNoDiff, Redispatch, Finish
<1>3. ASSUME Release(e, r)
      PROVE  /\ ~Handling(e, r)'
             /\ \A d \in Executions, s \in Runs :
                  <<d, s>> # <<e, r>> => run'[d][s] = run[d][s]
  <2>1. run'[e][r] = EndedRun
    BY <1>3 DEF Release, TypeOK
  <2>2. ~Handling(e, r)'
    BY <2>1 DEF Handling, HandlingSteps, EndedRun, UnusedRun
  <2>3. \A d \in Executions, s \in Runs : <<d, s>> # <<e, r>> => run'[d][s] = run[d][s]
    BY <1>3 DEF Release, TypeOK
  <2> QED BY <2>2, <2>3
<1> QED BY <1>1, <1>2, <1>3

\* A handler deletes its own entry, never that of a later run.
LEMMA EntryHandler ==
  ASSUME TypeOK, OwnerInv, EntryInv, NEW e \in Executions, NEW r \in Runs, HandlerStep(e, r)
  PROVE  EntryInv'
<1>1. cons' = cons
  BY DEF HandlerStep, ReadRow, WriteOutcome, Route, BeginPublication, Publish,
     PublishFails, StrictNoDiff, Redispatch, Finish, Release, elsewhere, butRun
<1>2. ~run[e][r].alive /\ \A d \in Executions, s \in Runs : Heard(d, s)' => Heard(d, s)
  BY <1>1, HandlerMoves DEF Heard
<1>3. CASE ~Release(e, r)
  <2>1. active' = active
    BY <1>3 DEF HandlerStep, ReadRow, WriteOutcome, Route, BeginPublication, Publish,
       PublishFails, StrictNoDiff, Redispatch, Finish, elsewhere, butRun
  <2>2. \A d \in Executions, s \in Runs :
          Handling(d, s)' => Handling(d, s) /\ run'[d][s].ref = run[d][s].ref
    BY <1>3, HandlerRefs, HandlerMoves DEF Handling
  <2> QED BY <1>2, <2>1, <2>2, EntryStays
<1>4. CASE Release(e, r)
  <2>1. run[e][r].ref = r
    BY HandlerRefs DEF EntryInv, RefIsOwn
  <2>2. active' = [active EXCEPT ![e] = IF @ = r THEN 0 ELSE @]
    BY <1>4, <2>1 DEF Release, DeleteOwnEntry
  <2>3. ASSUME NEW d \in Executions, NEW s \in Runs, Heard(d, s)'
        PROVE  active'[d] = s
    <3>1. Heard(d, s) /\ active[d] = s
      BY <1>2, <2>3 DEF EntryInv, EntryIsHeard
    <3>2. d = e => s # r
      BY <1>2, <3>1 DEF Heard
    <3> QED BY <2>2, <3>1, <3>2 DEF TypeOK
  <2>4. ASSUME NEW d \in Executions, NEW s \in Runs, Handling(d, s)'
        PROVE  run'[d][s].ref = s
    <3>1. <<d, s>> # <<e, r>>
      BY <1>4, <2>4, HandlerRefs
    <3> QED BY <1>4, <2>4, <3>1, HandlerRefs DEF Handling, EntryInv, RefIsOwn
  <2> QED BY <2>3, <2>4 DEF EntryInv, EntryIsHeard, RefIsOwn
<1> QED BY <1>3, <1>4

\* The table dies with the worker.
LEMMA EntryRestart ==
  ASSUME TypeOK, EntryInv,
         RestartStep \/ \E e \in Executions : Recover(e) \/ RecoverEnqueue(e)
  PROVE  EntryInv'
<1>1. CASE StopWorker
  <2>1. ASSUME NEW d \in Executions, NEW s \in Runs
        PROVE  /\ run'[d][s].alive = run[d][s].alive /\ run'[d][s].pc = run[d][s].pc
               /\ run'[d][s].ref = run[d][s].ref
    BY <1>1 DEF StopWorker, TypeOK, RunState
  <2>2. cons' = cons /\ active' = active
    BY <1>1 DEF StopWorker
  <2>3. \A d \in Executions, s \in Runs : Heard(d, s)' => Heard(d, s)
    BY <2>1, <2>2 DEF Heard
  <2>4. \A d \in Executions, s \in Runs :
          Handling(d, s)' => Handling(d, s) /\ run'[d][s].ref = run[d][s].ref
    BY <2>1 DEF Handling
  <2> QED BY <2>2, <2>3, <2>4, EntryStays
<1>2. CASE WorkerGone
  <2>1. \A d \in Executions, s \in Runs : run'[d][s] \in {UnusedRun, EndedRun}
    BY <1>2 DEF WorkerGone
  <2>2. \A d \in Executions, s \in Runs : ~Heard(d, s)' /\ ~Handling(d, s)'
    BY <2>1 DEF Heard, Handling, HandlingSteps, UnusedRun, EndedRun
  <2> QED BY <2>2 DEF EntryInv, EntryIsHeard, RefIsOwn
<1>3. CASE Boot \/ Recovered \/ ApiCrash
           \/ \E e \in Executions : Recover(e) \/ RecoverEnqueue(e)
  <2>1. run' = run /\ cons' = cons /\ active' = active
    BY <1>3 DEF Boot, Recovered, ApiCrash, Recover, RecoverEnqueue
  <2> QED BY <2>1, RunsStay
<1> QED BY <1>1, <1>2, <1>3 DEF RestartStep

\* Every step keeps the invariant.
LEMMA EntryStep ==
  ASSUME TypeOK, OwnerInv, EntryInv, [Next]_vars
  PROVE  EntryInv'
<1>1. CASE UNCHANGED vars
  BY <1>1, RunsStay DEF vars
<1>2. ASSUME NEW e \in Executions, ApiStep(e) \/ ConsumerStep(e) PROVE EntryInv'
  BY <1>2, EntryApi, EntryConsumer
<1>3. ASSUME NEW e \in Executions, NEW r \in Runs,
             SignalStep(e, r) \/ Exit(e, r) \/ HandlerStep(e, r)
      PROVE  EntryInv'
  BY <1>3, EntrySignal, EntryExit, EntryHandler
<1>4. CASE RestartStep \/ \E e \in Executions : Recover(e) \/ RecoverEnqueue(e)
  BY <1>4, EntryRestart
<1> QED BY <1>1, <1>2, <1>3, <1>4 DEF Next

\* The invariant behind OneOwnerHolds, which the proofs of this module rest on.
LEMMA OwnerInductive ==
  ASSUME ReliableDispatch
  PROVE  Spec => [](TypeOK /\ OwnerInv)
<1>1. TypeOK /\ OwnerInv /\ [Next]_vars => OwnerInv'
  BY OwnerStep
<1> QED BY <1>1, OwnerInit, TypeCorrect, PTL DEF Spec

\* Whatever retries, crashes, shutdowns and early exits happen, a live process that is
\* listened to is the entry of its execution, so its timeout, a cancel and a shutdown
\* reach it, and its exit handler looks at its own flags.
THEOREM ListenerIsEntryHolds ==
  ASSUME ReliableDispatch
  PROVE  Spec => []ListenerIsEntry
<1>1. EntryInv => ListenerIsEntry
  BY DEF EntryInv, EntryIsHeard, Heard, ListenerIsEntry
<1>2. TypeOK /\ OwnerInv /\ EntryInv /\ [Next]_vars => EntryInv'
  BY EntryStep
<1> QED BY <1>1, <1>2, EntryInit, OwnerInductive, PTL DEF Spec

-----------------------------------------------------------------------------
(* Pull requests.                                                          *)
(*                                                                         *)
(* OnePullRequest is not inductive: nothing in it says that an execution   *)
(* with a pull request gets no further run.  The row of such an execution  *)
(* is over for good: it is neither claimed nor queued again, and it is no  *)
(* candidate of the recovery, whose writes go by id.                       *)

OverStatuses == {"completed", "failed", "cancelled"}
Over(e) == row[e].status \in OverStatuses

\* Run r of e is between the verdict on its process and the pull request.
Publishing(e, r) == run[e][r].pc \in {"route", "publish", "publishing"}

\* Nobody works on the execution, and nobody will.
Spent(e) == Over(e) /\ ~Held(e) /\ e \notin orphans /\ \A r \in Runs : ~Busy(e, r)

OpenedIsSpent == \A e \in Executions : opened[e] = 0 \/ (opened[e] = 1 /\ Spent(e))
PublisherIsOver == \A e \in Executions, r \in Runs : Publishing(e, r) => Over(e)
OrphansOfBoot == (orphans # {} => worker = "recovering") /\ revived \subseteq orphans

PullRequestInv == OpenedIsSpent /\ PublisherIsOver /\ OrphansOfBoot

\* A step that opens no pull request and wakes no spent execution up.
LEMMA SpentStays ==
  ASSUME OpenedIsSpent, opened' = opened,
         \A e \in Executions : Spent(e) => Spent(e)'
  PROVE  OpenedIsSpent'
  BY DEF OpenedIsSpent

\* A step after which every row that was over is over, and that gives nobody an execution
\* whose row is over.
LEMMA OverStays ==
  ASSUME PullRequestInv, opened' = opened, orphans' \subseteq orphans,
         \A e \in Executions : Over(e) => Over(e)' /\ (Held(e)' => Held(e)),
         \A e \in Executions, r \in Runs : Busy(e, r)' => Busy(e, r),
         \A e \in Executions, r \in Runs : Publishing(e, r)' => Publishing(e, r) \/ Over(e)'
  PROVE  OpenedIsSpent' /\ PublisherIsOver'
<1>1. \A e \in Executions : Spent(e) => Spent(e)'
  BY DEF Spent
<1>2. OpenedIsSpent'
  BY <1>1, SpentStays DEF PullRequestInv
<1>3. PublisherIsOver'
  BY DEF PullRequestInv, PublisherIsOver
<1> QED BY <1>2, <1>3

\* A row that is written as over is over, and the others are what they were.
LEMMA SetOver ==
  ASSUME TypeOK, NEW e \in Executions, NEW s \in OverStatuses, NEW o, NEW a, SetRow(e, s, o, a)
  PROVE  Over(e)' /\ \A d \in Executions : Over(d) => Over(d)'
  BY DEF Over, SetRow, TypeOK, Row, OverStatuses

\* A failed row is over.
LEMMA FailOver ==
  ASSUME TypeOK, NEW e \in Executions, FailRow(e)
  PROVE  Over(e)' /\ \A d \in Executions : Over(d) => Over(d)'
  BY SetOver DEF FailRow, OverStatuses

\* A write of the automation column leaves the status alone.
LEMMA AutomOver ==
  ASSUME TypeOK, NEW e \in Executions, NEW a, row' = [row EXCEPT ![e].autom = a]
  PROVE  \A d \in Executions : Over(d) => Over(d)'
  BY DEF Over, TypeOK, Row

\* Runs whose step and life are what they were.
LEMMA SameRuns ==
  ASSUME \A e \in Executions, r \in Runs :
           run'[e][r].alive = run[e][r].alive /\ run'[e][r].pc = run[e][r].pc
  PROVE  \A e \in Executions, r \in Runs :
           (Busy(e, r)' => Busy(e, r)) /\ (Publishing(e, r)' => Publishing(e, r))
  BY DEF Busy, Publishing

\* At first there is no row.
LEMMA PullRequestInit == Init => PullRequestInv
  BY DEF Init, PullRequestInv, OpenedIsSpent, PublisherIsOver, OrphansOfBoot, Publishing,
     UnusedRun

\* The API process cancels what is over, but it never starts it again.
LEMMA PullRequestApi ==
  ASSUME TypeOK, OwnerInv, PullRequestInv, NEW e \in Executions, ApiStep(e)
  PROVE  PullRequestInv'
<1>1. /\ cons' = cons /\ run' = run /\ worker' = worker /\ orphans' = orphans
      /\ revived' = revived /\ opened' = opened
  BY DEF ApiStep, CreateExecution, CreateDraft, StartDraft, Dispatch, DispatchThrows,
     UndoDispatch, CancelRead, CancelWrite, butRow
<1>2. \A d \in Executions : Over(d) => Over(d)'
  <2>1. CASE CreateExecution(e)
    BY <2>1 DEF CreateExecution, Over, OverStatuses, TypeOK, Row
  <2>2. CASE CreateDraft(e)
    BY <2>2 DEF CreateDraft, Over, OverStatuses, TypeOK, Row
  <2>3. CASE StartDraft(e)
    BY <2>3 DEF StartDraft, Over, OverStatuses, TypeOK, Row
  <2>4. CASE Dispatch(e) \/ DispatchThrows(e) \/ CancelRead(e)
    BY <2>4 DEF Dispatch, DispatchThrows, CancelRead, Over
  <2>5. CASE CancelWrite(e)
    BY <2>5, SetOver DEF CancelWrite, OverStatuses
  <2>6. ~UndoDispatch(e)
    BY DEF OwnerInv, NoUndo, UndoDispatch
  <2> QED BY <2>1, <2>2, <2>3, <2>4, <2>5, <2>6 DEF ApiStep
<1>3. /\ \A d \in Executions : Held(d)' => Held(d)
      /\ \A d \in Executions, r \in Runs :
           (Busy(d, r)' => Busy(d, r)) /\ (Publishing(d, r)' => Publishing(d, r))
  BY <1>1, Unchanged, SameRuns
<1>4. OpenedIsSpent' /\ PublisherIsOver'
  BY <1>1, <1>2, <1>3, OverStays
<1>5. OrphansOfBoot'
  BY <1>1 DEF PullRequestInv, OrphansOfBoot
<1> QED BY <1>4, <1>5 DEF PullRequestInv

\* The consumer claims only rows that are pending, and spawns only what it has claimed.
LEMMA PullRequestConsumer ==
  ASSUME TypeOK, OwnerInv, PullRequestInv, NEW e \in Executions, ConsumerStep(e)
  PROVE  PullRequestInv'
<1>1. worker' = worker /\ orphans' = orphans /\ revived' = revived /\ opened' = opened
  BY DEF ConsumerStep, Receive, Claim, Load, Start, Spawn, Listen, StatementFails,
     Acknowledge, butQueue
<1>2. OrphansOfBoot'
  BY <1>1 DEF PullRequestInv, OrphansOfBoot
<1>3. SUFFICES OpenedIsSpent' /\ PublisherIsOver'
  BY <1>2 DEF PullRequestInv
<1>4. CASE Spawn(e) /\ ~(FailRow(e) /\ GoTo("ack") /\ UNCHANGED <<run, active>>)
  <2> PICK r \in Runs :
        /\ run' = [run EXCEPT ![e][r] = [UnusedRun EXCEPT !.alive = TRUE, !.pc = "deaf"]]
        /\ cons' = [cons EXCEPT !.pc = "listen", !.proc = r]
        /\ UNCHANGED row
    BY <1>4 DEF Spawn
  <2>1. \A d \in Executions, s \in Runs : <<d, s>> # <<e, r>> => run'[d][s] = run[d][s]
    BY DEF TypeOK
  <2>2. run'[e][r].pc = "deaf"
    BY DEF TypeOK, UnusedRun
  <2>3. ~Spent(e)
    BY <1>4 DEF Spawn, At, Held, Spent
  <2>4. \A d \in Executions : ~Held(d)'
    BY DEF Held, TypeOK
  <2>5. ASSUME NEW d \in Executions, Spent(d) PROVE Spent(d)'
    BY <1>1, <2>1, <2>3, <2>4, <2>5 DEF Spent, Over, Busy
  <2>6. \A d \in Executions, s \in Runs : Publishing(d, s)' => Publishing(d, s)
    BY <2>1, <2>2 DEF Publishing
  <2>7. PublisherIsOver'
    BY <2>6 DEF PullRequestInv, PublisherIsOver, Over
  <2> QED BY <1>1, <2>5, <2>7, SpentStays DEF PullRequestInv
<1>5. CASE ~(Spawn(e) /\ ~(FailRow(e) /\ GoTo("ack") /\ UNCHANGED <<run, active>>))
  <2>1. \A d \in Executions : Over(d) => Over(d)' /\ (Held(d)' => Held(d))
    <3>1. CASE Receive(e) \/ Acknowledge(e)
      <4>1. row' = row /\ \A d \in Executions : Held(d)' => Held(d)
        BY <3>1 DEF Receive, Acknowledge, butQueue, Held, IdleConsumer
      <4> QED BY <4>1 DEF Over
    <3>2. CASE Claim(e)
      <4>1. CASE Claimable(e) /\ row' = [row EXCEPT ![e].orch = "running"] /\ GoTo("load")
        <5>1. ~Over(e) /\ \A d \in Executions : Over(d) => Over(d)'
          BY <4>1 DEF Claimable, Over, OverStatuses, TypeOK, Row
        <5>2. \A d \in Executions : Held(d)' => d = e
          BY <3>2, <4>1 DEF Claim, At, GoTo, Held, TypeOK
        <5> QED BY <5>1, <5>2
      <4>2. CASE GoTo("ack") /\ UNCHANGED row
        BY <4>2 DEF GoTo, Held, TypeOK, Over
      <4> QED BY <3>2, <4>1, <4>2 DEF Claim
    <3>3. CASE Load(e)
      <4>1. \A d \in Executions : Held(d)' => Held(d)
        BY <3>3 DEF Load, At, GoTo, Held, TypeOK
      <4>2. FailRow(e) \/ row' = row
        BY <3>3 DEF Load
      <4> QED BY <4>1, <4>2, FailOver DEF Over
    <3>4. CASE Start(e)
      <4>1. \A d \in Executions : Held(d)' => Held(d)
        BY <3>4 DEF Start, At, GoTo, Held, TypeOK
      <4>2. \/ row[e].status = "pending" /\ row' = [row EXCEPT ![e].status = "running"]
            \/ row' = row
        BY <3>4 DEF Start
      <4>3. \A d \in Executions : Over(d) => Over(d)'
        BY <4>2 DEF Over, OverStatuses, TypeOK, Row
      <4> QED BY <4>1, <4>3
    <3>5. CASE Spawn(e)
      <4>1. FailRow(e) /\ GoTo("ack")
        BY <1>5, <3>5
      <4>2. \A d \in Executions : ~Held(d)'
        BY <4>1 DEF GoTo, Held, TypeOK
      <4> QED BY <4>1, <4>2, FailOver
    <3>6. CASE Listen(e)
      BY <3>6 DEF Listen, GoTo, Held, TypeOK, Over
    <3>7. CASE StatementFails(e)
      <4>1. \A d \in Executions : ~Held(d)'
        BY <3>7 DEF StatementFails, GoTo, Held, TypeOK, IdleConsumer
      <4>2. FailRow(e) \/ row' = row
        BY <3>7 DEF StatementFails
      <4> QED BY <4>1, <4>2, FailOver DEF Over
    <3> QED BY <3>1, <3>2, <3>3, <3>4, <3>5, <3>6, <3>7 DEF ConsumerStep
  <2>2. \A d \in Executions, s \in Runs :
          (Busy(d, s)' => Busy(d, s)) /\ (Publishing(d, s)' => Publishing(d, s))
    <3>1. CASE Listen(e)
      <4>1. ASSUME NEW d \in Executions, NEW s \in Runs
            PROVE  /\ run'[d][s].alive = run[d][s].alive
                   /\ run'[d][s] = run[d][s] \/ run'[d][s].pc = "armed"
        BY <3>1 DEF Listen, Attach, TypeOK, RunState
      <4> QED BY <4>1 DEF Busy, Publishing
    <3>2. CASE ~Listen(e)
      <4>1. run' = run
        BY <1>5, <3>2 DEF ConsumerStep, Receive, Claim, Load, Start, Spawn, StatementFails,
           Acknowledge, butQueue
      <4> QED BY <4>1, SameRuns
    <3> QED BY <3>1, <3>2
  <2> QED BY <1>1, <2>1, <2>2, OverStays
<1> QED BY <1>4, <1>5

\* The steps of the processes and of their signals write no row.
LEMMA PullRequestProcess ==
  ASSUME TypeOK, PullRequestInv, NEW e \in Executions, NEW r \in Runs,
         SignalStep(e, r) \/ Exit(e, r)
  PROVE  PullRequestInv'
<1>1. /\ row' = row /\ cons' = cons /\ worker' = worker /\ orphans' = orphans
      /\ revived' = revived /\ opened' = opened
  BY DEF SignalStep, Timeout, FatalOutput, SyncCancellation, Exit, butRun
<1>2. \A d \in Executions, s \in Runs :
        (Busy(d, s)' => Busy(d, s)) /\ (Publishing(d, s)' => Publishing(d, s))
  <2>1. CASE SignalStep(e, r)
    <3>1. PICK f : Flag(e, f)
      BY <2>1 DEF SignalStep, Timeout, FatalOutput, SyncCancellation
    <3>2. \A d \in Executions, s \in Runs :
            run'[d][s].alive = run[d][s].alive /\ run'[d][s].pc = run[d][s].pc
      BY <3>1 DEF Flag, Entry, TypeOK, RunState
    <3> QED BY <3>2, SameRuns
  <2>2. CASE Exit(e, r)
    <3>1. Busy(e, r)
      BY <2>2 DEF Exit, Busy
    <3>2. \A d \in Executions, s \in Runs : <<d, s>> # <<e, r>> =>
            run'[d][s].alive = run[d][s].alive /\ run'[d][s].pc = run[d][s].pc
      BY <2>2, ExitMoves
    <3>3. run'[e][r].pc \in {run[e][r].pc, "read"}
      BY <2>2, ExitMoves
    <3> QED BY <3>1, <3>2, <3>3 DEF Busy, Publishing
  <2> QED BY <2>1, <2>2
<1>3. OpenedIsSpent' /\ PublisherIsOver'
  BY <1>1, <1>2, Unchanged, OverStays DEF Over
<1> QED BY <1>1, <1>3 DEF PullRequestInv, OrphansOfBoot

\* A handler settles rows or takes them back; only the one that opens the pull request
\* makes an execution spent.
LEMMA PullRequestHandler ==
  ASSUME TypeOK, OwnerInv, PullRequestInv, NEW e \in Executions, NEW r \in Runs,
         HandlerStep(e, r)
  PROVE  PullRequestInv'
<1>1. cons' = cons /\ worker' = worker /\ orphans' = orphans /\ revived' = revived
  BY DEF HandlerStep, ReadRow, WriteOutcome, Route, BeginPublication, Publish,
     PublishFails, StrictNoDiff, Redispatch, Finish, Release, elsewhere, butRun
<1>2. \A d \in Executions, s \in Runs : Busy(d, s)' => Busy(d, s)
  BY HandlerMoves DEF Busy
<1>3. \A d \in Executions, s \in Runs :
        <<d, s>> # <<e, r>> => (Publishing(d, s)' => Publishing(d, s))
  BY HandlerMoves DEF Publishing
<1>4. OrphansOfBoot'
  BY <1>1 DEF PullRequestInv, OrphansOfBoot
<1>5. \A d \in Executions : Held(d)' => Held(d)
  BY <1>1, Unchanged
<1>6. CASE Publish(e, r)
  <2>1. Publishing(e, r) /\ Busy(e, r)
    BY <1>6 DEF Publish, Handler, Publishing, Busy
  <2>2. row' = [row EXCEPT ![e].autom = "published"] /\ opened' = [opened EXCEPT ![e] = @ + 1]
    BY <1>6 DEF Publish
  <2>3. \A d \in Executions : Over(d) => Over(d)'
    BY <2>2 DEF Over, TypeOK, Row
  <2>4. ~Busy(e, r)' /\ ~Publishing(e, r)'
    <3>1. Step(e, r, "finishOk") /\ ~run'[e][r].alive
      BY <1>6, HandlerMoves DEF Publish
    <3> QED BY <3>1 DEF Step, Busy, Publishing, TypeOK, RunState
  <2>5. ~Held(e)' /\ \A s \in Runs : ~Busy(e, s)'
    BY <1>2, <1>5, <2>1, <2>4 DEF OwnerInv, OneOwner
  <2>6. e \notin orphans
    BY <2>1 DEF OwnerInv, Quiet, PullRequestInv, OrphansOfBoot
  <2>7. Over(e)
    BY <2>1 DEF PullRequestInv, PublisherIsOver
  <2>8. Spent(e)'
    BY <1>1, <2>3, <2>5, <2>6, <2>7 DEF Spent
  <2>9. opened[e] = 0
    BY <2>1 DEF PullRequestInv, OpenedIsSpent, Spent
  <2>10. \A d \in Executions \ {e} : opened'[d] = opened[d]
    BY <2>2 DEF TypeOK
  <2>11. opened'[e] = 1
    BY <2>2, <2>9 DEF TypeOK
  <2>12. \A d \in Executions : Spent(d) => Spent(d)'
    BY <1>1, <1>2, <1>5, <2>3 DEF Spent
  <2>13. OpenedIsSpent'
    BY <2>8, <2>10, <2>11, <2>12 DEF PullRequestInv, OpenedIsSpent
  <2>14. PublisherIsOver'
    BY <1>3, <2>3, <2>4 DEF PullRequestInv, PublisherIsOver
  <2> QED BY <1>4, <2>13, <2>14 DEF PullRequestInv
<1>7. CASE StrictNoDiff(e, r)
  <2>1. Busy(e, r)
    BY <1>7 DEF StrictNoDiff, Handler, Busy
  <2>2. \A d \in Executions \ {e} : row'[d] = row[d]
    BY <1>7 DEF StrictNoDiff, ResetForRetry, SetRow, TypeOK
  <2>3. \A s \in Runs : ~Publishing(e, s)'
    <3>1. Step(e, r, "requeue") \/ Step(e, r, "finishNone")
      BY <1>7 DEF StrictNoDiff
    <3>2. ~Publishing(e, r)'
      BY <3>1 DEF Step, Publishing, TypeOK, RunState
    <3>3. \A s \in Runs : Publishing(e, s) => s = r
      BY <2>1 DEF OwnerInv, OneOwner, Busy, Publishing
    <3> QED BY <1>3, <3>2, <3>3
  <2>4. opened' = opened
    BY <1>7 DEF StrictNoDiff
  <2>5. \A d \in Executions : Spent(d) => Spent(d)'
    BY <1>1, <1>2, <1>5, <2>1, <2>2 DEF Spent, Over
  <2>6. PublisherIsOver'
    BY <1>3, <2>2, <2>3 DEF PullRequestInv, PublisherIsOver, Over
  <2> QED BY <1>4, <2>4, <2>5, <2>6, SpentStays DEF PullRequestInv
<1>8. CASE ~Publish(e, r) /\ ~StrictNoDiff(e, r)
  <2>1. opened' = opened
    BY <1>8 DEF HandlerStep, ReadRow, WriteOutcome, Route, BeginPublication, PublishFails,
       Redispatch, Finish, Release, elsewhere, butRun
  <2>2. /\ \A d \in Executions : Over(d) => Over(d)'
        /\ Publishing(e, r)' => Publishing(e, r) \/ Over(e)'
    <3>1. CASE ReadRow(e, r)
      <4>1. row' = row
        BY <3>1 DEF ReadRow, butRun
      <4>2. ~Publishing(e, r)'
        BY <3>1 DEF ReadRow, Handler, Publishing, TypeOK, RunState
      <4> QED BY <4>1, <4>2 DEF Over
    <3>2. CASE WriteOutcome(e, r)
      <4>1. \/ SetRow(e, "failed", "failed", row[e].autom) \/ FailRow(e)
            \/ SetRow(e, "cancelled", "done", "not_applicable")
            \/ SetRow(e, "completed", "finalizing", row[e].autom)
        BY <3>2 DEF WriteOutcome, Outcome
      <4> QED BY <4>1, SetOver, FailOver DEF OverStatuses
    <3>3. CASE Route(e, r)
      <4>1. Publishing(e, r)
        BY <3>3 DEF Route, Handler, Publishing
      <4>2. \/ SetRow(e, "completed", "finalizing", row[e].autom)
            \/ row' = [row EXCEPT ![e].orch = "done"]
            \/ row' = row
        BY <3>3 DEF Route
      <4>3. CASE row' = [row EXCEPT ![e].orch = "done"]
        BY <4>1, <4>3 DEF Over, TypeOK, Row
      <4> QED BY <4>1, <4>2, <4>3, SetOver DEF Over, OverStatuses
    <3>4. CASE BeginPublication(e, r) \/ PublishFails(e, r) \/ Redispatch(e, r) \/ Release(e, r)
      <4>1. row' = row \/ \E a : row' = [row EXCEPT ![e].autom = a]
        BY <3>4 DEF BeginPublication, PublishFails, Redispatch, Release
      <4>2. \A d \in Executions : Over(d) => Over(d)'
        BY <4>1, AutomOver DEF Over
      <4>3. CASE BeginPublication(e, r) \/ PublishFails(e, r)
        BY <4>2, <4>3 DEF BeginPublication, PublishFails, Handler, Publishing
      <4>4. CASE Redispatch(e, r)
        <5>1. Step(e, r, "release") \/ Step(e, r, "finishFail")
          BY <4>4 DEF Redispatch
        <5>2. ~Publishing(e, r)'
          BY <5>1 DEF Step, Publishing, TypeOK, RunState
        <5> QED BY <4>2, <5>2
      <4>5. CASE Release(e, r)
        <5>1. ~Handling(e, r)'
          BY <4>5, HandlerRefs
        <5> QED BY <4>2, <5>1 DEF Handling, HandlingSteps, Publishing
      <4> QED BY <3>4, <4>3, <4>4, <4>5
    <3>5. CASE Finish(e, r)
      <4>1. \/ SetRow(e, "completed", "done", row[e].autom) \/ FailRow(e)
            \/ SetRow(e, "failed", "failed", "no_changes")
        BY <3>5 DEF Finish
      <4> QED BY <4>1, SetOver, FailOver DEF OverStatuses
    <3> QED BY <1>8, <3>1, <3>2, <3>3, <3>4, <3>5 DEF HandlerStep
  <2>3. OpenedIsSpent' /\ PublisherIsOver'
    BY <1>1, <1>2, <1>3, <1>5, <2>1, <2>2, OverStays
  <2> QED BY <1>4, <2>3 DEF PullRequestInv
<1> QED BY <1>6, <1>7, <1>8

\* The recovery resets rows by id, but it has read them while nobody was at work.
LEMMA PullRequestRestart ==
  ASSUME TypeOK, OwnerInv, PullRequestInv,
         RestartStep \/ \E e \in Executions : Recover(e) \/ RecoverEnqueue(e)
  PROVE  PullRequestInv'
<1>1. CASE StopWorker
  <2>1. row' = row /\ cons' = cons /\ orphans' = orphans /\ revived' = revived /\ opened' = opened
    BY <1>1 DEF StopWorker
  <2>2. \A d \in Executions, s \in Runs :
          run'[d][s].alive = run[d][s].alive /\ run'[d][s].pc = run[d][s].pc
    BY <1>1 DEF StopWorker, TypeOK, RunState
  <2>3. OpenedIsSpent' /\ PublisherIsOver'
    BY <2>1, <2>2, SameRuns, Unchanged, OverStays DEF Over
  <2>4. OrphansOfBoot'
    BY <1>1 DEF StopWorker, PullRequestInv, OrphansOfBoot
  <2> QED BY <2>3, <2>4 DEF PullRequestInv
<1>2. CASE WorkerGone
  <2>1. row' = row /\ opened' = opened /\ orphans' = {} /\ revived' = {}
    BY <1>2 DEF WorkerGone
  <2>2. \A d \in Executions, s \in Runs : run'[d][s] \in {UnusedRun, EndedRun}
    BY <1>2 DEF WorkerGone
  <2>3. \A d \in Executions, s \in Runs : ~Busy(d, s)' /\ ~Publishing(d, s)'
    BY <2>2 DEF UnusedRun, EndedRun, Busy, Publishing
  <2>4. \A d \in Executions : ~Held(d)'
    BY <1>2 DEF WorkerGone, IdleConsumer, Held
  <2>5. OpenedIsSpent' /\ PublisherIsOver'
    BY <2>1, <2>3, <2>4, OverStays DEF Over
  <2> QED BY <2>1, <2>5 DEF PullRequestInv, OrphansOfBoot
<1>3. CASE Boot
  <2>1. row' = row /\ cons' = cons /\ run' = run /\ revived' = revived /\ opened' = opened
    BY <1>3 DEF Boot
  <2>2. orphans = {} /\ revived = {} /\ worker' = "recovering"
    BY <1>3 DEF Boot, PullRequestInv, OrphansOfBoot
  <2>3. \A d \in Executions : Over(d) => d \notin orphans'
    BY <1>3 DEF Boot, Orphan, Over, OverStatuses
  <2>4. \A d \in Executions : Spent(d) => Spent(d)'
    BY <2>1, <2>3 DEF Spent, Over, Held, Busy
  <2>5. OpenedIsSpent' /\ PublisherIsOver'
    BY <2>1, <2>4, SpentStays DEF PullRequestInv, PublisherIsOver, Publishing, Over
  <2> QED BY <2>1, <2>2, <2>5 DEF PullRequestInv, OrphansOfBoot
<1>4. CASE Recovered \/ ApiCrash
  <2>1. /\ row' = row /\ cons' = cons /\ run' = run /\ revived' = revived
        /\ opened' = opened /\ orphans' = orphans
    BY <1>4 DEF Recovered, ApiCrash
  <2>2. OpenedIsSpent' /\ PublisherIsOver'
    BY <2>1, SameRuns, Unchanged, OverStays DEF Over
  <2>3. OrphansOfBoot'
    BY <1>4, <2>1 DEF Recovered, ApiCrash, PullRequestInv, OrphansOfBoot
  <2> QED BY <2>2, <2>3 DEF PullRequestInv
<1>5. ASSUME NEW e \in Executions, Recover(e) PROVE PullRequestInv'
  <2>1. /\ cons' = cons /\ run' = run /\ worker' = worker /\ opened' = opened
        /\ worker = "recovering" /\ e \in orphans
    BY <1>5 DEF Recover
  <2>2. \A d \in Executions \ {e} : row'[d] = row[d]
    BY <1>5 DEF Recover, FailRow, SetRow, TypeOK
  <2>3. orphans' \subseteq orphans /\ revived' \subseteq orphans'
    BY <1>5 DEF Recover
  <2>4. \A d \in Executions : Spent(d) => Spent(d)'
    BY <2>1, <2>2, <2>3 DEF Spent, Over, Held, Busy
  <2>5. \A d \in Executions, s \in Runs : ~Publishing(d, s)
    BY <2>1 DEF OwnerInv, Quiet, Busy, Publishing
  <2>6. PublisherIsOver'
    BY <2>1, <2>5 DEF PublisherIsOver, Publishing
  <2>7. OpenedIsSpent'
    BY <2>1, <2>4, SpentStays DEF PullRequestInv
  <2> QED BY <2>1, <2>3, <2>6, <2>7 DEF PullRequestInv, OrphansOfBoot
<1>6. ASSUME NEW e \in Executions, RecoverEnqueue(e) PROVE PullRequestInv'
  <2>1. /\ row' = row /\ cons' = cons /\ run' = run /\ opened' = opened
        /\ orphans' \subseteq orphans /\ revived' = {} /\ worker' = worker
    BY <1>6 DEF RecoverEnqueue
  <2>2. OpenedIsSpent' /\ PublisherIsOver'
    BY <2>1, SameRuns, Unchanged, OverStays DEF Over
  <2> QED BY <2>1, <2>2 DEF PullRequestInv, OrphansOfBoot
<1> QED BY <1>1, <1>2, <1>3, <1>4, <1>5, <1>6 DEF RestartStep

\* Every step keeps the invariant.
LEMMA PullRequestStep ==
  ASSUME TypeOK, OwnerInv, PullRequestInv, [Next]_vars
  PROVE  PullRequestInv'
<1>1. CASE UNCHANGED vars
  <2>1. /\ row' = row /\ cons' = cons /\ run' = run /\ opened' = opened /\ worker' = worker
        /\ orphans' = orphans /\ revived' = revived
    BY <1>1 DEF vars
  <2> QED BY <2>1, SameRuns, Unchanged, OverStays DEF Over, PullRequestInv, OrphansOfBoot
<1>2. ASSUME NEW e \in Executions, ApiStep(e) \/ ConsumerStep(e) PROVE PullRequestInv'
  BY <1>2, PullRequestApi, PullRequestConsumer
<1>3. ASSUME NEW e \in Executions, NEW r \in Runs,
             SignalStep(e, r) \/ Exit(e, r) \/ HandlerStep(e, r)
      PROVE  PullRequestInv'
  BY <1>3, PullRequestProcess, PullRequestHandler
<1>4. CASE RestartStep \/ \E e \in Executions : Recover(e) \/ RecoverEnqueue(e)
  BY <1>4, PullRequestRestart
<1> QED BY <1>1, <1>2, <1>3, <1>4 DEF Next

\* Over all its runs and restarts, and whatever fails around them, an execution opens one
\* pull request at most.
THEOREM OnePullRequestHolds ==
  ASSUME ReliableDispatch
  PROVE  Spec => []OnePullRequest
<1>1. PullRequestInv => OnePullRequest
  BY DEF PullRequestInv, OpenedIsSpent, OnePullRequest
<1>2. TypeOK /\ OwnerInv /\ PullRequestInv /\ [Next]_vars => PullRequestInv'
  BY PullRequestStep
<1> QED BY <1>1, <1>2, PullRequestInit, OwnerInductive, PTL DEF Spec
=============================================================================
