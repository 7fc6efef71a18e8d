---------------------------- MODULE ManualDrafts ----------------------------
(***************************************************************************)
(* Drafts of one user's tasks: the automation rules, the reconcile loop    *)
(* that keeps one ready draft for every task a draft rule matches, the     *)
(* user who edits tasks and rules, starts and discards drafts, and the     *)
(* workflow state that is derived for manual tasks from their executions.  *)
(*                                                                         *)
(* The loop runs in the API process, one at a time for a user, and is      *)
(* interrupted at every await; state reconciles are promises nobody waits  *)
(* for, in the API and in the worker.  Tasks of a task manager appear as   *)
(* rows that do not change (TaskSync models their synchronisation).        *)
(***************************************************************************)
EXTENDS AutomationRules, SequencesExt, FiniteSetsExt

CONSTANTS
  ManualTasks,   \* tasks the user writes
  SyncedTasks,   \* tasks of a task manager
  ScopesOf,      \* the scopes of each synced task
  TitleOf,       \* the title of each task, in each of its versions
  Rules,         \* bound, 1..n: rule ids, in the order of their creation
  RuleDtos,      \* the requests that create a rule
  Patches,       \* the requests that change one
  Editors,       \* bound, 1..n: requests to change or delete a rule at a time
  StateJobs,     \* bound, 1..n: workflow state reconciles at a time
  Starters,      \* bound, 1..n: requests to start a draft at a time
  MaxRows,       \* bound: executions and drafts
  MaxVersions,   \* bound: contents a manual task has
  MaxChanges,    \* bound: requests of the user
  Faults,        \* which of FaultKinds may happen
  MaxFaults      \* bound: how many of them

FaultKinds ==
  { "database",    \* a statement of a reconcile fails
    "queue",       \* the queue answers a dispatch with an error
    "unstarted" }  \* the worker fails an execution before its CLI runs

ASSUME DraftsAssumption ==
  /\ ManualTasks \cap SyncedTasks = {}
  /\ Rules = 1..Cardinality(Rules)
  /\ \A dto \in RuleDtos : CreateDto(dto)
  /\ \A dto \in Patches : UpdateDto(dto)
  /\ MaxRows \in Nat /\ MaxVersions \in Nat \ {0}
  /\ MaxChanges \in Nat /\ MaxFaults \in Nat /\ Faults \subseteq FaultKinds

VARIABLES
  task,     \* manual_tasks: there, content version, workflow state; and the version
            \* an update between its read and its save will write, or 0
  rule,     \* automation_rules
  edit,     \* updates and deletions of rules, between their read and their write
  rows,     \* executions, in the order of their creation
  queued,   \* queuedReconcileProviders of the user
  loop,     \* the reconcile loop: where it is and what it has read
  job,      \* the workflow state reconciles in flight
  start,    \* the start requests in flight
  sent,     \* history: how often each row was dispatched
  taken,    \* history: tasks whose draft the user started or discarded
  unheard,  \* history: a write undid another change of its rule, and did not tell the drafts
  tangled,  \* history: tasks two of whose state reconciles overlapped
  changes, faults

ruleVars == <<rule, edit, unheard>>
vars == <<task, ruleVars, rows, queued, loop, job, start, sent, taken, tangled, changes, faults>>

Tasks == ManualTasks \cup SyncedTasks
WorkflowStates == {"inbox", "drafted", "in_progress", "blocked", "done"}
NoRule == [enabled |-> FALSE]                      \* not created yet
GoneRule == [enabled |-> FALSE, gone |-> TRUE]    \* deleted
NoEdit == [rule |-> 0]
NoFind == 0
NewTask == [here |-> "no", ver |-> 0, state |-> "inbox", next |-> 0]
FreeJob == [pc |-> "free"]
IdleStart == [pc |-> "idle", row |-> 0]
IdleLoop == [pc |-> "idle", providers |-> {}, rules |-> {}, todo |-> {}, seen |-> {},
             found |-> NoFind, stale |-> {}]

\* The user has no manual task yet, and at most a rule for manual tasks.
Init ==
  /\ task = [t \in ManualTasks |-> NewTask]
  /\ \E v \in {NoRule} \cup {Created(dto) : dto \in RuleDtos} :
       /\ v # NoRule => v.provider = "manual" /\ Valid(v)
       /\ rule = [r \in Rules |-> IF r = 1 THEN v ELSE NoRule]
  /\ edit = [e \in Editors |-> NoEdit] /\ unheard = FALSE
  /\ rows = <<>>
  /\ queued = {} /\ loop = IdleLoop
  /\ job = [j \in StateJobs |-> FreeJob]
  /\ start = [s \in Starters |-> IdleStart]
  /\ sent = [n \in 1..MaxRows |-> 0]
  /\ taken = {} /\ tangled = {}
  /\ changes = 0 /\ faults = 0

Change == changes < MaxChanges /\ changes' = changes + 1
Fault(kind) == kind \in Faults /\ faults < MaxFaults /\ faults' = faults + 1

-----------------------------------------------------------------------------
(* Rules and what they match.                                              *)

ProviderOf(t) == IF t \in ManualTasks THEN "manual" ELSE "asana"
Here(t) == t \in ManualTasks => task[t].here \in {"yes", "leaving"}
Version(t) == IF t \in SyncedTasks THEN 0 ELSE task[t].ver

\* mapManualWorkflowStateToTaskStatus; a synced task is open.
StatusOf(t) ==
  IF t \in SyncedTasks THEN "open"
  ELSE CASE task[t].state = "in_progress" -> "in_progress"
         [] task[t].state = "done" -> "done"
         [] task[t].state = "blocked" -> "unknown"
         [] OTHER -> "open"

\* The task as the rules are asked about it, with status s; manual tasks have no scopes.
ItemAs(t, s) ==
  [task |-> t, ver |-> Version(t), status |-> s, provider |-> ProviderOf(t),
   title |-> TitleOf[t][Version(t)], scopes |-> IF t \in SyncedTasks THEN ScopesOf[t] ELSE {}]

\* listActiveRulesForUser.
There(r) == rule[r] \notin {NoRule, GoneRule}
ActiveRules == {[id |-> r, value |-> rule[r]] : r \in {q \in Rules : rule[q].enabled}}

-----------------------------------------------------------------------------
(* Drafts.  A row counts the entries the worker has of it and has not answered *)
(* (jobs) and, as history, the dispatches of it that threw after the queue had *)
(* taken the entry (lost).                                                  *)

Draft(item, x) ==
  [task |-> item.task, ver |-> item.ver, rule |-> x.id, repo |-> x.value.repositoryId,
   does |-> x.value.suggestedAction, draft |-> "ready", run |-> "none", jobs |-> 0, lost |-> 0]
Ready(n) == rows[n].draft = "ready"

\* The updates that supersede ready drafts: those of the tasks ts, except row keep.
Superseded(rs, ts, keep) ==
  [n \in DOMAIN rs |->
     IF rs[n].draft = "ready" /\ rs[n].task \in ts /\ n # keep
       THEN [rs[n] EXCEPT !.draft = "superseded"] ELSE rs[n]]

\* isSameDraftVersion.
SameVersion(row, x, item) == row.does = x.value.suggestedAction /\ row.ver = item.ver

-----------------------------------------------------------------------------
(* ManualTaskAutomationStateService: read the task, read its executions,    *)
(* write the state unless the task already had it when it was read.        *)

Busy(t) == {j \in StateJobs : job[j].pc # "free" /\ job[j].task = t}
FirstFree(j) == job[j].pc = "free" /\ \A i \in StateJobs : i < j => job[i].pc # "free"

\* A state reconcile of task t is started and not waited for.  Overlaps are recorded.
LaunchedUnlessBusy(t) ==                                          \* mutant
  IF Busy(t) # {} THEN UNCHANGED <<job, tangled>>
  ELSE /\ \E j \in StateJobs : FirstFree(j) /\ job' = [job EXCEPT ![j] = [pc |-> "task", task |-> t]]
       /\ UNCHANGED tangled
Launched(t) ==
  /\ \E j \in StateJobs : FirstFree(j) /\ job' = [job EXCEPT ![j] = [pc |-> "task", task |-> t]]
  /\ tangled' = IF Busy(t) = {} THEN tangled ELSE tangled \cup {t}
Launch(t) == IF t \in ManualTasks THEN Launched(t) ELSE UNCHANGED <<job, tangled>>

\* The executions of task t for its content version v.
OwnRows(t, v) == {n \in DOMAIN rows : rows[n].task = t /\ rows[n].ver = v}

\* resolveWorkflowState: an active run, a ready draft, the latest run, in this order.
Resolved(t, v) ==
  LET run == {n \in OwnRows(t, v) : rows[n].draft = "none"} IN
    IF \E n \in run : rows[n].run = "active" THEN "in_progress"
    ELSE IF \E n \in OwnRows(t, v) : Ready(n) THEN "drafted"
    ELSE IF run = {} THEN "inbox"
    ELSE IF rows[Max(run)].run = "done" THEN "done" ELSE "blocked"

\* loadExecutionPointers: the draft and the execution the page of the task leads to.
Latest(ns) == Max(ns \cup {NoFind})
Pointers(t) ==
  LET own == {n \in DOMAIN rows : rows[n].task = t}
  IN [draft |-> Latest({n \in own : rows[n].draft # "none"}),
      execution |-> Latest({n \in own : rows[n].draft = "none"})]

ReadTask(j) ==
  /\ job[j].pc = "task"
  /\ LET t == job[j].task IN
       job' = [job EXCEPT ![j] =
                 IF Here(t) THEN [pc |-> "executions", task |-> t,
                                  saw |-> [ver |-> task[t].ver, state |-> task[t].state]]
                 ELSE FreeJob]
  /\ UNCHANGED <<task, ruleVars, rows, queued, loop, start, sent, taken, tangled, changes, faults>>

ReadExecutions(j) ==
  /\ job[j].pc = "executions"
  /\ LET t == job[j].task
         s == Resolved(t, job[j].saw.ver)
     IN  job' = [job EXCEPT ![j] =
                   IF s = job[j].saw.state THEN FreeJob ELSE [pc |-> "write", task |-> t, state |-> s]]
  /\ UNCHANGED <<task, ruleVars, rows, queued, loop, start, sent, taken, tangled, changes, faults>>

PersistState(j) ==
  /\ job[j].pc = "write"
  /\ task' = IF Here(job[j].task) THEN [task EXCEPT ![job[j].task].state = job[j].state]
                                 ELSE task
  /\ job' = [job EXCEPT ![j] = FreeJob]
  /\ UNCHANGED <<ruleVars, rows, queued, loop, start, sent, taken, tangled, changes, faults>>

-----------------------------------------------------------------------------
(* AutomationRulesService: the reconcile loop.                             *)

Scheduled == loop.pc # "idle"

\* enqueueReconcileReadyDrafts: the providers are added in any case; a loop that is
\* neither scheduled nor processing is scheduled.
EnqueueUnlessBusy(ps) ==                                          \* mutant
  IF Scheduled THEN UNCHANGED <<queued, loop>>
  ELSE queued' = queued \cup ps /\ loop' = [IdleLoop EXCEPT !.pc = "scheduled"]
Enqueue(ps) ==
  /\ queued' = queued \cup ps
  /\ loop' = IF Scheduled THEN loop ELSE [IdleLoop EXCEPT !.pc = "scheduled"]

\* drainQueuedReconcileProviders, at the head of the loop of processQueuedReconcile.
DrainedKept == UNCHANGED queued                                   \* mutant
Drained == queued' = {}
Drain ==
  /\ loop.pc \in {"scheduled", "again"}
  /\ Drained
  /\ loop' = IF queued = {} THEN IdleLoop
             ELSE [IdleLoop EXCEPT !.pc = "rules", !.providers = queued]
  /\ UNCHANGED <<task, ruleVars, rows, job, start, sent, taken, tangled, changes, faults>>

LoadRules ==
  /\ loop.pc = "rules"
  /\ loop' = [loop EXCEPT !.pc = "tasks", !.rules = ActiveRules]
  /\ UNCHANGED <<task, ruleVars, rows, queued, job, start, sent, taken, tangled, changes, faults>>

\* loadReconciledTasks.
LoadTasks ==
  /\ loop.pc = "tasks"
  /\ LET ts == {t \in Tasks : Here(t) /\ ProviderOf(t) \in loop.providers}
     IN  loop' = [loop EXCEPT !.pc = "each", !.seen = ts,
                    !.todo = {ItemAs(t, StatusOf(t)) : t \in ts}]
  /\ UNCHANGED <<task, ruleVars, rows, queued, job, start, sent, taken, tangled, changes, faults>>

\* The item whose turn it is.
Item == CHOOSE item \in loop.todo : TRUE
MatchOf(item) == FirstMatch(loop.rules, item)
ItemDone == [loop EXCEPT !.pc = "each", !.todo = @ \ {Item}, !.found = NoFind]

\* No draft rule matches: the ready drafts of the task are superseded.
NoMatch ==
  /\ loop.pc = "each" /\ loop.todo # {} /\ ~Drafts(MatchOf(Item))
  /\ rows' = Superseded(rows, {Item.task}, NoFind)
  /\ loop' = ItemDone
  /\ Launch(Item.task)
  /\ UNCHANGED <<task, ruleVars, queued, start, sent, taken, changes, faults>>

\* createOrRefreshDraftForTask: the look-up of its transaction.
FindDraft ==
  /\ loop.pc = "each" /\ loop.todo # {} /\ Drafts(MatchOf(Item))
  /\ \E x \in MatchOf(Item) :
       LET own == {n \in DOMAIN rows : Ready(n) /\ rows[n].task = Item.task
                                       /\ rows[n].rule = x.id
                                       /\ rows[n].repo = x.value.repositoryId}
       IN  loop' = [loop EXCEPT !.pc = "refresh", !.found = Max(own \cup {NoFind})]
  /\ UNCHANGED <<task, ruleVars, rows, queued, job, start, sent, taken, tangled, changes, faults>>

\* The draft that was found is kept if it is of this version; otherwise one is inserted.
\* All other ready drafts of the task are superseded with it.
RefreshDraft ==
  /\ loop.pc = "refresh"
  /\ \E x \in MatchOf(Item) :
       LET kept == loop.found # NoFind /\ SameVersion(rows[loop.found], x, Item) IN
         \/ kept /\ rows' = Superseded(rows, {Item.task}, loop.found) /\ UNCHANGED taken
         \/ /\ ~kept /\ Len(rows) < MaxRows
            /\ rows' = Superseded(Append(rows, Draft(Item, x)), {Item.task}, Len(rows) + 1)
            /\ taken' = taken \ {Item.task}
  /\ loop' = ItemDone
  /\ Launch(Item.task)
  /\ UNCHANGED <<task, ruleVars, queued, start, sent, changes, faults>>

\* listReadyDraftTaskIdsForUser: ready drafts of tasks that were not there.
ListStale ==
  /\ loop.pc = "each" /\ loop.todo = {}
  /\ LET stale == {rows[n].task : n \in {m \in DOMAIN rows :
                     Ready(m) /\ ProviderOf(rows[m].task) \in loop.providers}} \ loop.seen
     IN  loop' = [loop EXCEPT !.pc = IF stale = {} THEN "again" ELSE "stale", !.stale = stale]
  /\ UNCHANGED <<task, ruleVars, rows, queued, job, start, sent, taken, tangled, changes, faults>>

\* They are superseded.  The state reconcile for them finds no manual task.
SupersedeStale ==
  /\ loop.pc = "stale"
  /\ rows' = Superseded(rows, loop.stale, NoFind)
  /\ loop' = [loop EXCEPT !.pc = "again"]
  /\ UNCHANGED <<task, ruleVars, queued, job, start, sent, taken, tangled, changes, faults>>

\* A statement fails: the pass is logged and given up, the loop goes on.
PassFails ==
  /\ loop.pc \in {"rules", "tasks", "each", "refresh", "stale"}
  /\ Fault("database")
  /\ loop' = [IdleLoop EXCEPT !.pc = "again"]
  /\ UNCHANGED <<task, ruleVars, rows, queued, job, start, sent, taken, tangled, changes>>

-----------------------------------------------------------------------------
(* The user: tasks and rules.                                              *)

CreateTask(t) ==
  /\ Change /\ task[t].here = "no"
  /\ task' = [task EXCEPT ![t] = [NewTask EXCEPT !.here = "yes", !.ver = 1]]
  /\ Enqueue({"manual"})
  /\ UNCHANGED <<ruleVars, rows, job, start, sent, taken, tangled, faults>>

\* updateForUser up to its save: the task is read and changed in memory.  The bound is
\* one update of a task at a time.
AskUpdateTask(t) ==
  /\ Change /\ Here(t) /\ task[t].next = 0 /\ task[t].ver < MaxVersions
  /\ task' = [task EXCEPT ![t].next = task[t].ver + 1]
  /\ UNCHANGED <<ruleVars, rows, queued, loop, job, start, sent, taken, tangled, faults>>

\* The save inserts the task again if it was deleted meanwhile.
SaveTask(t) ==
  /\ task[t].next # 0
  /\ task' = [task EXCEPT ![t] = [here |-> IF Here(t) THEN task[t].here ELSE "yes",
                                  ver |-> task[t].next, state |-> "inbox", next |-> 0]]
  /\ Enqueue({"manual"})
  /\ UNCHANGED <<ruleVars, rows, job, start, sent, taken, tangled, changes, faults>>

\* deleteForUser supersedes the ready drafts, then removes the row and reconciles.
DeleteTask(t) ==
  /\ Change /\ task[t].here = "yes"
  /\ rows' = Superseded(rows, {t}, NoFind)
  /\ task' = [task EXCEPT ![t].here = "leaving"]
  /\ Launch(t)
  /\ UNCHANGED <<ruleVars, queued, loop, start, sent, taken, faults>>

RemoveTask(t) ==
  /\ task[t].here = "leaving"
  /\ task' = [task EXCEPT ![t] = [NewTask EXCEPT !.here = "gone", !.next = task[t].next]]
  /\ Enqueue({"manual"})
  /\ UNCHANGED <<ruleVars, rows, job, start, sent, taken, tangled, changes, faults>>

\* createForUser of a rule: an enabled one is reconciled.
CreateRule(r, dto) ==
  /\ Change /\ rule[r] = NoRule /\ \A q \in 1..(r - 1) : rule[q] # NoRule
  /\ ActionsAgree(dto) /\ Valid(Created(dto))
  /\ rule' = [rule EXCEPT ![r] = Created(dto)]
  /\ IF Created(dto).enabled THEN Enqueue({dto.provider}) ELSE UNCHANGED <<queued, loop>>
  /\ UNCHANGED <<task, edit, unheard, rows, job, start, sent, taken, tangled, faults>>

\* An update or a deletion of rule r has read it and will write `new`.
Asked(r, new) ==
  /\ Change /\ There(r)
  /\ \E e \in Editors :
       /\ edit[e] = NoEdit /\ \A d \in Editors : d < e => edit[d] # NoEdit
       /\ edit' = [edit EXCEPT ![e] = [rule |-> r, old |-> rule[r], new |-> new]]
  /\ UNCHANGED <<task, rule, unheard, rows, queued, loop, job, start, sent, taken, tangled, faults>>

\* updateForUser up to its save: the rule is read, changed in memory and validated.
AskUpdateRule(r, dto) ==
  /\ There(r) /\ ~PatchEmpty(dto) /\ ActionsAgree(dto) /\ Valid(Patched(rule[r], dto))
  /\ Asked(r, Patched(rule[r], dto))

\* deleteForUser up to its remove.
AskDeleteRule(r) == Asked(r, GoneRule)

\* The providers whose drafts are told when a rule that was `old` is now `new`.
Touched(old, new) ==
  IF new = GoneRule THEN IF old = GoneRule THEN {} ELSE {old.provider}
  ELSE IF old = GoneRule THEN {new.provider}
  ELSE IF ShouldReconcile(old, new) THEN {old.provider, new.provider} ELSE {}

\* The save writes the whole rule, and inserts it again if it was deleted meanwhile; the
\* remove deletes it by its id.  What the drafts are told depends on what was read.
WriteRule(e) ==
  LET x == edit[e]
      told == Touched(x.old, x.new)
  IN  /\ x # NoEdit
      /\ rule' = [rule EXCEPT ![x.rule] = x.new]
      /\ edit' = [edit EXCEPT ![e] = NoEdit]
      /\ IF told = {} THEN UNCHANGED <<queued, loop>> ELSE Enqueue(told)
      /\ unheard' = (unheard \/ ~(Touched(rule[x.rule], x.new) \subseteq told))
      /\ UNCHANGED <<task, rows, job, start, sent, taken, tangled, changes, faults>>

-----------------------------------------------------------------------------
(* The user: drafts and executions.                                        *)

Took(n) == taken' = taken \cup {rows[n].task}

\* startDraftForUser up to its transaction: the draft is read and ready.
AskStart(s, n) ==
  /\ Change /\ Ready(n)
  /\ start[s].pc = "idle" /\ \A u \in Starters : u < s => start[u].pc # "idle"
  /\ start' = [start EXCEPT ![s] = [pc |-> "claim", row |-> n]]
  /\ UNCHANGED <<task, ruleVars, rows, queued, loop, job, sent, taken, tangled, faults>>

\* The WHERE clause of the transaction.
StartableUnready(n) == rows[n].draft # "superseded"               \* mutant
Startable(n) == Ready(n) /\ rows[n].run = "none"

Claim(s) ==
  /\ start[s].pc = "claim"
  /\ LET n == start[s].row IN
       \/ /\ Startable(n)
          /\ rows' = [rows EXCEPT ![n].draft = "none", ![n].run = "active"]
          /\ start' = [start EXCEPT ![s].pc = "dispatch"]
          /\ Took(n)
       \/ ~Startable(n) /\ start' = [start EXCEPT ![s] = IdleStart] /\ UNCHANGED <<rows, taken>>
  /\ UNCHANGED <<task, ruleVars, queued, loop, job, sent, tangled, changes, faults>>

Dispatch(s) ==
  /\ start[s].pc = "dispatch"
  /\ sent' = [sent EXCEPT ![start[s].row] = @ + 1]
  /\ rows' = [rows EXCEPT ![start[s].row].jobs = @ + 1]
  /\ start' = [start EXCEPT ![s] = IdleStart]
  /\ Launch(rows[start[s].row].task)
  /\ UNCHANGED <<task, ruleVars, queued, loop, taken, changes, faults>>

\* The dispatch throws; the entry may have reached the queue all the same.
DispatchFails(s) ==
  /\ start[s].pc = "dispatch" /\ Fault("queue")
  /\ start' = [start EXCEPT ![s].pc = "undo"]
  /\ \/ UNCHANGED <<rows, sent>>
     \/ /\ sent' = [sent EXCEPT ![start[s].row] = @ + 1]
        /\ rows' = [rows EXCEPT ![start[s].row].jobs = @ + 1, ![start[s].row].lost = @ + 1]
  /\ UNCHANGED <<task, ruleVars, queued, loop, job, taken, tangled, changes>>

\* The catch block: the row is a ready draft again, whatever the worker made of it.
UndoStart(s) ==
  /\ start[s].pc = "undo"
  /\ rows' = [rows EXCEPT ![start[s].row].draft = "ready", ![start[s].row].run = "none"]
  /\ start' = [start EXCEPT ![s] = IdleStart]
  /\ Launch(rows[start[s].row].task)
  /\ UNCHANGED <<task, ruleVars, queued, loop, sent, taken, changes, faults>>

\* supersedeDraftsForUser: its update repeats the condition it has read.
Discard(n) ==
  /\ Change /\ Ready(n)
  /\ rows' = [rows EXCEPT ![n].draft = "superseded"]
  /\ Took(n)
  /\ Launch(rows[n].task)
  /\ UNCHANGED <<task, ruleVars, queued, loop, start, sent, faults>>

\* The worker settles a run it has an entry of, and reconciles the task unless the run
\* never started.  A start that was undone (run is "none") may be running all the same.
Settle(n) ==
  /\ rows[n].run \in {"active", "none"} /\ rows[n].jobs > 0
  /\ \/ /\ \E end \in {"done", "failed"} :
             rows' = [rows EXCEPT ![n].run = end, ![n].jobs = @ - 1]
        /\ Launch(rows[n].task)
        /\ UNCHANGED faults
     \/ /\ Fault("unstarted")
        /\ rows' = [rows EXCEPT ![n].run = "failed", ![n].jobs = @ - 1]
        /\ UNCHANGED <<job, tangled>>
  /\ UNCHANGED <<task, ruleVars, queued, loop, start, sent, taken, changes>>

-----------------------------------------------------------------------------
LoopStep ==
  \/ Drain \/ LoadRules \/ LoadTasks \/ NoMatch \/ FindDraft \/ RefreshDraft
  \/ ListStale \/ SupersedeStale

JobStep(j) == ReadTask(j) \/ ReadExecutions(j) \/ PersistState(j)

Next ==
  \/ LoopStep \/ PassFails
  \/ \E j \in StateJobs : JobStep(j)
  \/ \E t \in ManualTasks : \/ CreateTask(t) \/ AskUpdateTask(t) \/ SaveTask(t)
                            \/ DeleteTask(t) \/ RemoveTask(t)
  \/ \E e \in Editors : WriteRule(e)
  \/ \E r \in Rules : \/ AskDeleteRule(r) \/ \E dto \in RuleDtos : CreateRule(r, dto)
                      \/ \E dto \in Patches : AskUpdateRule(r, dto)
  \/ \E s \in Starters : Claim(s) \/ Dispatch(s) \/ DispatchFails(s) \/ UndoStart(s)
                        \/ \E n \in DOMAIN rows : AskStart(s, n)
  \/ \E n \in DOMAIN rows : Discard(n) \/ Settle(n)

Spec == Init /\ [][Next]_vars

(* The API process runs its callbacks and the statements of its requests; a pass that
   fails over and over is bounded by the faults.                            *)
Fairness ==
  /\ WF_vars(LoopStep)
  /\ \A e \in Editors : WF_vars(WriteRule(e))
  /\ \A j \in StateJobs : WF_vars(JobStep(j))
  /\ \A t \in ManualTasks : WF_vars(RemoveTask(t)) /\ WF_vars(SaveTask(t))
  /\ \A s \in Starters : WF_vars(Claim(s) \/ Dispatch(s) \/ UndoStart(s))

FairSpec == Spec /\ Fairness

-----------------------------------------------------------------------------
(* Properties.                                                             *)

\* Type invariant of the rows and of the programs at work on them.
TypeOK ==
  /\ task \in [ManualTasks -> [here : {"no", "yes", "leaving", "gone"}, ver : 0..MaxVersions,
                               state : WorkflowStates, next : 0..MaxVersions]]
  /\ \A r \in Rules : There(r) => Valid(rule[r])
  /\ Len(rows) <= MaxRows
  /\ \A n \in DOMAIN rows :
       rows[n] \in [task : Tasks, rule : Rules, does : Actions, repo : STRING, ver : 0..MaxVersions,
                    draft : {"ready", "superseded", "none"},
                    run : {"none", "active", "done", "failed"}, jobs : Nat, lost : Nat]
  /\ queued \subseteq Providers
  /\ loop.pc \in {"idle", "scheduled", "rules", "tasks", "each", "refresh", "stale", "again"}
  /\ queued # {} => Scheduled
  /\ \A s \in Starters : start[s].pc \in {"idle", "claim", "dispatch", "undo"} /\ start[s].row \in 0..Len(rows)
  /\ sent \in [1..MaxRows -> Nat] /\ taken \subseteq Tasks /\ tangled \subseteq Tasks
  /\ changes \in 0..MaxChanges /\ faults \in 0..MaxFaults

Quiet ==
  /\ ~Scheduled /\ \A e \in Editors : edit[e] = NoEdit
  /\ \A j \in StateJobs : job[j].pc = "free"
  /\ \A s \in Starters : start[s].pc = "idle"
  /\ \A t \in ManualTasks : task[t].here # "leaving" /\ task[t].next = 0

\* Draft n is what a rule says of its task as it is, whatever its status.
Current(n) ==
  /\ Here(rows[n].task) /\ rows[n].ver = Version(rows[n].task)
  /\ \E s \in Statuses :
       \E x \in FirstMatch(ActiveRules, ItemAs(rows[n].task, s)) :
         /\ Drafts({x}) /\ x.id = rows[n].rule
         /\ x.value.suggestedAction = rows[n].does /\ x.value.repositoryId = rows[n].repo

\* Once the loop is idle, the drafts follow the tasks and the rules, whatever changed
\* while it ran: no ready draft is out of date, no task has two of them, and a task that
\* is drafted in every status has one unless the user started or discarded it.  Excepted
\* is the lost update of a rule: an update or a deletion that read the rule before another
\* one wrote it, undoes that change, and tells only the providers of what it has read.
DraftsFollowRules ==
  Quiet /\ faults = 0 /\ ~unheard =>
    /\ \A n \in DOMAIN rows : Ready(n) => Current(n)
    /\ \A m, n \in DOMAIN rows : Ready(m) /\ Ready(n) /\ rows[m].task = rows[n].task => m = n
    /\ \A t \in Tasks \ taken :
         /\ Here(t)
         /\ \A s \in Statuses : Drafts(FirstMatch(ActiveRules, ItemAs(t, s)))
         => \E n \in DOMAIN rows : Ready(n) /\ rows[n].task = t

\* Save the dispatches that threw although the queue had taken the entry (they are undone,
\* and the draft can be started again: a known limit), a draft is dispatched once at most,
\* by however many requests it is started, and not after it was superseded.
StartedOnce ==
  \A n \in DOMAIN rows :
    /\ sent[n] <= rows[n].lost + 1
    /\ sent[n] > rows[n].lost => rows[n].draft = "none"

\* When everything is quiet, the workflow state of a task is what its executions say, and
\* its page leads to the draft or the execution the state is about, unless two reconciles
\* of the task overlapped or its run ended before it started.
WorkflowFollows ==
  Quiet /\ faults = 0 =>
    \A t \in ManualTasks \ tangled : Here(t) =>
      /\ task[t].state = Resolved(t, Version(t))
      /\ task[t].state = "drafted" =>
           Pointers(t).draft # NoFind /\ Ready(Pointers(t).draft)
      /\ task[t].state \in {"done", "blocked"} =>
           /\ Pointers(t).execution \in OwnRows(t, Version(t))
           /\ rows[Pointers(t).execution].run = IF task[t].state = "done" THEN "done" ELSE "failed"

\* When the user is silent, the loop and the reconciles come to rest.
Quiesces == <>[]Quiet
=============================================================================
