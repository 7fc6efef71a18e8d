--------------------------- MODULE DraftsProofs ---------------------------
(***************************************************************************)
(* Theorems about ManualDrafts and AutomationInbox for any number of       *)
(* tasks, rules, requests, reconciles, rows and changes.                   *)
(***************************************************************************)
EXTENDS AutomationInbox, TLAPS, FiniteSetTheorems, SequenceTheorems

-----------------------------------------------------------------------------
(* Types.                                                                  *)

\* The fields of a rule.
RuleFields == Fields \cup {"suggestedAction"}

\* A rule as the requests make it.
ProperRule(v) ==
  /\ v = [f \in RuleFields |-> v[f]]
  /\ v.enabled \in BOOLEAN /\ v.priority \in Nat /\ v.provider \in Providers /\ v.mode \in Modes
  /\ v.repositoryId \in STRING /\ v.suggestedAction \in Actions \cup {Null}
  /\ Valid(v)

\* What was read to be changed was a rule, which had been created.
EditRight(x, rs) ==
  /\ x.rule \in Rules /\ rs[x.rule] # NoRule /\ ProperRule(x.old)
  /\ x.new = GoneRule \/ ProperRule(x.new)
RuleTypes ==
  /\ rule = [r \in Rules |-> rule[r]]
  /\ \A r \in Rules : There(r) => ProperRule(rule[r])
  /\ edit = [e \in Editors |-> edit[e]] /\ \A e \in Editors : edit[e] # NoEdit => EditRight(edit[e], rule)
  /\ unheard \in BOOLEAN

\* A manual task, a row, and the rows.
TaskState == [here : {"no", "yes", "leaving", "gone"}, ver : 0..MaxVersions, state : WorkflowStates,
              next : 0..MaxVersions]
RowState == [task : Tasks, rule : Rules, does : Actions, repo : STRING, ver : 0..MaxVersions,
             draft : {"ready", "superseded", "none"}, run : {"none", "active", "done", "failed"},
             jobs : Nat, lost : Nat]
RowTypes == rows \in Seq(RowState) /\ Len(rows) <= MaxRows

\* A task as the loop may have read it.
ItemOf(t, v, s) ==
  [task |-> t, ver |-> v, status |-> s, provider |-> ProviderOf(t), title |-> TitleOf[t][v],
   scopes |-> IF t \in SyncedTasks THEN ScopesOf[t] ELSE {}]

\* A rule as the loop may have read it.
LoadedRule(x) ==
  x = [id |-> x.id, value |-> x.value] /\ x.id \in Rules /\ ProperRule(x.value) /\ x.value.enabled

\* Where the loop can be, and what it holds.
LoopSteps == {"idle", "scheduled", "rules", "tasks", "each", "refresh", "stale", "again"}
LoopTypes ==
  /\ loop = [pc |-> loop.pc, providers |-> loop.providers, rules |-> loop.rules, todo |-> loop.todo,
             seen |-> loop.seen, found |-> loop.found, stale |-> loop.stale]
  /\ loop.pc \in LoopSteps /\ loop.providers \subseteq Providers
  /\ \A x \in loop.rules : LoadedRule(x) /\ \A y \in loop.rules : x.id = y.id => x = y
  /\ \A i \in loop.todo : /\ i.task \in loop.seen /\ i.ver \in 0..MaxVersions /\ i.status \in Statuses
                          /\ i = ItemOf(i.task, i.ver, i.status)
                          /\ \A k \in loop.todo : i.task = k.task => i = k
  /\ loop.seen \subseteq Tasks /\ loop.stale \subseteq Tasks
  /\ \A t \in loop.seen : ProviderOf(t) \in loop.providers
  /\ loop.found \in 0..Len(rows)
  /\ loop.pc = "refresh" => loop.todo # {} /\ Drafts(MatchOf(Item))
  /\ queued \subseteq Providers /\ (queued # {} => Scheduled)

\* What a workflow state reconcile holds.
JobState ==
  {FreeJob} \cup [pc : {"task"}, task : ManualTasks]
            \cup [pc : {"executions"}, task : ManualTasks,
                saw : [ver : 0..MaxVersions, state : WorkflowStates]]
            \cup [pc : {"write"}, task : ManualTasks, state : WorkflowStates]

\* A start request, and what it holds.
StartState == [pc : {"idle", "claim", "dispatch", "undo"}, row : 0..MaxRows]
StartTypes ==
  /\ start \in [Starters -> StartState]
  /\ \A s \in Starters : /\ start[s].row \in 0..Len(rows)
                         /\ start[s].pc # "idle" => start[s].row \in DOMAIN rows

\* All of them.
Typed ==
  /\ task \in [ManualTasks -> TaskState]
  /\ RuleTypes /\ RowTypes /\ LoopTypes /\ StartTypes
  /\ job \in [StateJobs -> JobState]
  /\ sent \in [1..MaxRows -> Nat]
  /\ taken \subseteq Tasks /\ tangled \subseteq Tasks
  /\ changes \in 0..MaxChanges /\ faults \in 0..MaxFaults

-----------------------------------------------------------------------------
(* Starts.                                                                 *)

\* What is no draft has a run; what is one has none, unless a dispatch of it was lost.
DraftOrRun ==
  \A n \in DOMAIN rows :
    /\ rows[n].draft = "none" => rows[n].run # "none"
    /\ rows[n].lost = 0 /\ rows[n].run # "none" => rows[n].draft = "none"

\* A request dispatches a row it has claimed, or undoes that, and no other request does.
Holds(s) == start[s].pc \in {"dispatch", "undo"}
ClaimedRows ==
  \A s \in Starters : Holds(s) =>
    LET row == rows[start[s].row] IN
      /\ row.draft = "none" /\ (row.lost = 0 => row.run = "active")
      /\ sent[start[s].row] = row.lost
      /\ \A u \in Starters : Holds(u) /\ start[u].row = start[s].row => u = s

\* The worker has no entries but those that were sent, and no more of them were lost.
Entries == \A n \in DOMAIN rows : rows[n].jobs <= sent[n] /\ rows[n].lost <= sent[n]

\* Without a fault nothing is lost or undone.
NoneLost ==
  faults = 0 => /\ \A n \in DOMAIN rows : rows[n].lost = 0
                /\ \A s \in Starters : start[s].pc # "undo"

\* What is no row yet was not dispatched.
NotSentYet == \A n \in 1..MaxRows : n \notin DOMAIN rows => sent[n] = 0

\* The invariant of the starts.
StartInv == StartedOnce /\ DraftOrRun /\ ClaimedRows /\ Entries /\ NoneLost /\ NotSentYet

-----------------------------------------------------------------------------
(* Rows and versions.                                                      *)

\* No row of a task is of a later version than the next ones, than what the loop has read,
\* or than the task.
RowsInOrder ==
  /\ \A m, n \in DOMAIN rows : m < n /\ rows[m].task = rows[n].task => rows[m].ver <= rows[n].ver
  /\ \A i \in loop.todo, n \in DOMAIN rows : rows[n].task = i.task => rows[n].ver <= i.ver
  /\ \A n \in DOMAIN rows : Here(rows[n].task) => rows[n].ver <= Version(rows[n].task)
  /\ \A i \in loop.todo : Here(i.task) => i.ver <= Version(i.task)

\* The version an update is about to save is later than all of them.
NextIsLater ==
  \A t \in ManualTasks : task[t].next # 0 =>
    /\ Here(t) => task[t].ver < task[t].next
    /\ \A n \in DOMAIN rows : rows[n].task = t => rows[n].ver < task[t].next
    /\ \A i \in loop.todo : i.task = t => i.ver < task[t].next

\* A task that does not exist yet has no rows, and was not read.
NotYet ==
  \A t \in ManualTasks : task[t].here = "no" =>
    task[t].next = 0 /\ t \notin loop.seen /\ \A n \in DOMAIN rows : rows[n].task # t

\* A task the loop did not find is new or gone, unless it will look again.
Unseen ==
  loop.pc \in {"each", "refresh"} =>
    \A t \in Tasks \ loop.seen :
      ProviderOf(t) \in loop.providers /\ Here(t) =>
        \/ \A n \in DOMAIN rows : rows[n].task # t
        \/ t \in ManualTasks /\ "manual" \in queued

\* A task that is to lose its stale drafts is gone, unless the loop will look again.
StaleIsGone ==
  loop.pc = "stale" =>
    \A t \in loop.stale : t \in ManualTasks /\ (task[t].here = "gone" \/ "manual" \in queued)

\* A ready draft is the last row of its task.
ReadyIsLast ==
  faults = 0 => \A m, n \in DOMAIN rows : Ready(n) /\ rows[m].task = rows[n].task => m <= n

\* The invariant of the rows and versions.
OrderInv == RowsInOrder /\ NextIsLater /\ NotYet /\ Unseen /\ StaleIsGone /\ ReadyIsLast

-----------------------------------------------------------------------------
(* Drafts.                                                                 *)

\* What the first match says of an item, in the fields a draft is made of.
Verdict(active, item) ==
  {<<x.id, x.value.mode, x.value.suggestedAction, x.value.repositoryId>> :
     x \in FirstMatch(active, item)}

\* What the rules say of a draft for version v of task t, and whether they always say it.
Says(active, t, v, row) ==
  \E s \in Statuses : \E x \in FirstMatch(active, ItemOf(t, v, s)) :
    /\ Drafts({x}) /\ x.id = row.rule
    /\ x.value.suggestedAction = row.does /\ x.value.repositoryId = row.repo
Always(active, t, v) == \A s \in Statuses : Drafts(FirstMatch(active, ItemOf(t, v, s)))

\* Draft n of task t is of its version, and what the rules say of it.
RightRow(n, t) ==
  /\ Here(t) /\ rows[n].ver = Version(t)
  /\ ~unheard => Says(ActiveRules, t, Version(t), rows[n])

\* A task that is not about to be deleted.
Stays(t) == Here(t) /\ (t \in ManualTasks => task[t].here = "yes")

\* The drafts of task t are as they should be.
Right(t) == \A n \in DOMAIN rows : Ready(n) /\ rows[n].task = t => RightRow(n, t)
Drafted(t) ==
  /\ ~unheard /\ t \notin taken
  /\ Stays(t) /\ Always(ActiveRules, t, Version(t))
  => \E n \in DOMAIN rows : Ready(n) /\ rows[n].task = t
Settled(t) == Right(t) /\ Drafted(t)

\* The loop will come to task t.
Queues(t) == \E i \in loop.todo : i.task = t
Waits(t) ==
  \/ ProviderOf(t) \in queued
  \/ /\ ProviderOf(t) \in loop.providers
     /\ \/ loop.pc \in {"rules", "tasks"}
        \/ loop.pc \in {"each", "refresh"} /\ (Queues(t) \/ t \notin loop.seen)
        \/ loop.pc = "stale" /\ t \in loop.stale

\* The rules of provider p are what the loop has read.
Fresh(p) ==
  ~unheard =>
    \A t \in Tasks, n \in 0..MaxVersions, s \in Statuses :
      ProviderOf(t) = p => Verdict(loop.rules, ItemOf(t, n, s)) = Verdict(ActiveRules, ItemOf(t, n, s))

\* So are its tasks.
TasksFresh(p) ==
  /\ \A t \in Tasks : ProviderOf(t) = p => (t \in loop.seen <=> Here(t))
  /\ \A i \in loop.todo : i.provider = p => i.ver = Version(i.task)

\* Of a provider nothing has changed of since the loop turned to it.
LoopIsFresh ==
  \A p \in loop.providers \ queued :
    /\ loop.pc \in {"tasks", "each", "refresh"} => Fresh(p)
    /\ loop.pc \in {"each", "refresh"} => TasksFresh(p)

\* The draft that was found, until it is refreshed.
FoundIsOwn ==
  loop.pc = "refresh" /\ loop.found # NoFind =>
      /\ rows[loop.found].task = Item.task
      /\ \E x \in MatchOf(Item) :
           rows[loop.found].rule = x.id /\ rows[loop.found].repo = x.value.repositoryId
      /\ Ready(loop.found) \/ Item.task \in taken \/ ~Stays(Item.task) \/ ProviderOf(Item.task) \in queued

\* The loop will come to every task whose drafts are not as they should be.
DraftInv ==
  faults = 0 => /\ \A t \in Tasks : Waits(t) \/ Settled(t)
                /\ LoopIsFresh /\ FoundIsOwn

-----------------------------------------------------------------------------
(* Workflow states.                                                        *)

\* A reconcile that was not overtaken.
JobRight(j) ==
  LET t == job[j].task IN
    /\ job[j].pc = "executions" => job[j].saw = [ver |-> task[t].ver, state |-> task[t].state]
    /\ job[j].pc = "write" => job[j].state = Resolved(t, Version(t))

\* What is about to start a reconcile of the task's state: the loop, or a start request.
LoopComes(t) ==
  \/ "manual" \in queued
  \/ /\ "manual" \in loop.providers
     /\ loop.pc \in {"rules", "tasks"} \/ (loop.pc \in {"each", "refresh"} /\ Queues(t))
Starting(t) == \E s \in Starters : start[s].pc = "dispatch" /\ rows[start[s].row].task = t

\* The state of a task follows what it is derived from, or is about to.
Followed(t) ==
  \/ LoopComes(t) \/ Starting(t)
  \/ /\ \A j \in Busy(t) : JobRight(j)
     /\ Busy(t) = {} => task[t].state = Resolved(t, Version(t))

\* The invariant of the workflow states.
WorkInv ==
  faults = 0 =>
    \A t \in ManualTasks \ tangled :
      /\ \A i, j \in Busy(t) : i = j
      /\ Here(t) => Followed(t)

\* The inductive invariant.
DraftsInv == Typed /\ StartInv /\ OrderInv /\ DraftInv /\ WorkInv

-----------------------------------------------------------------------------
(* Operators.                                                              *)

\* A set of row numbers has a greatest one.
LEMMA HasMax ==
  ASSUME NEW N \in Nat, NEW S, S \subseteq 0..N, S # {}
  PROVE  Max(S) \in S /\ \A x \in S : x <= Max(S)
<1> DEFINE Above(x) == {y \in S : y > x}
           T == {Above(x) : x \in S}
<1>1. IsFiniteSet(S)
  <2>1. S \in SUBSET Nat /\ \A s \in S : s <= N
    OBVIOUS
  <2> QED BY <2>1, FS_BoundedSetOfNaturals
<1>2. T \subseteq SUBSET S /\ T # {}
  OBVIOUS
<1>3. PICK A \in T : \A B \in T : ~ (<<B, A>> \in StrictSubsetOrdering(S))
  <2>1. IsWellFoundedOn(StrictSubsetOrdering(S), SUBSET S)
    BY <1>1, FS_FiniteSubsetsOfFinite, FS_StrictSubsetOrderingWellFounded
  <2> HIDE DEF T
  <2> QED BY <1>2, <2>1, WFMin
<1>4. PICK m \in S : A = Above(m)
  BY <1>3
<1>5. \A x \in S : m >= x
  <2> SUFFICES ASSUME NEW x \in S, ~(m >= x) PROVE FALSE
    OBVIOUS
  <2>1. x \in Nat /\ m \in Nat /\ m < x /\ \A y \in S : y \in Nat
    OBVIOUS
  <2>2. x \in Above(m) /\ x \notin Above(x)
    BY <2>1
  <2>3. Above(x) \subseteq Above(m)
    <3> SUFFICES ASSUME NEW y \in S, y > x PROVE y > m
      OBVIOUS
    <3> QED BY <2>1
  <2>4. <<Above(x), Above(m)>> \in StrictSubsetOrdering(S)
    <3> HIDE DEF Above
    <3>1. Above(x) \in SUBSET S /\ Above(m) \in SUBSET S
      BY DEF Above
    <3> QED BY <2>2, <2>3, <3>1 DEF StrictSubsetOrdering
  <2> QED BY <1>3, <1>4, <2>4
<1>6. Max(S) \in S /\ \A x \in S : Max(S) >= x
  BY <1>5 DEF Max
<1> QED BY <1>6

\* What a request that creates a rule makes is one, and so is what an update makes of one.
LEMMA CreatedProper ==
  ASSUME NEW dto, CreateDto(dto), Valid(Created(dto))
  PROVE  ProperRule(Created(dto)) /\ Created(dto).provider = dto.provider
<1> DEFINE v == Created(dto)
<1>1. \A f \in Fields : v[f] = IF f \in DOMAIN dto THEN dto[f] ELSE Defaults[f]
  BY DEF Created, Fields, Required
<1>2. \A f \in DOMAIN dto : f \in DOMAIN Ranges => dto[f] \in Ranges[f]
  BY DEF CreateDto, InRange
<1>3. v.enabled \in BOOLEAN /\ v.priority \in Nat /\ v.mode \in Modes
  <2>1. /\ Defaults["enabled"] = TRUE /\ Defaults["priority"] = 0 /\ Defaults["mode"] = "suggest"
        /\ {"enabled", "priority", "mode"} \subseteq DOMAIN Ranges
        /\ Ranges["enabled"] = BOOLEAN /\ Ranges["priority"] = Nat /\ Ranges["mode"] = Modes
    BY DEF Defaults, Ranges
  <2>2. v["enabled"] \in BOOLEAN
    BY <1>1, <1>2, <2>1 DEF Fields
  <2>3. v["priority"] \in Nat
    BY <1>1, <1>2, <2>1 DEF Fields
  <2>4. v["mode"] \in Modes
    BY <1>1, <1>2, <2>1 DEF Fields, Modes
  <2> QED BY <2>2, <2>3, <2>4
<1>4. /\ v.provider = dto.provider /\ v.provider \in Providers
      /\ v.repositoryId \in STRING
  BY <1>1, <1>2 DEF Fields, Ranges, Required, CreateDto
<1>5. v.suggestedAction \in Actions \cup {Null}
  BY <1>2 DEF Created, ResolvedAction, Ranges
<1>6. v = [f \in RuleFields |-> v[f]]
  BY DEF Created, RuleFields
<1> QED BY <1>3, <1>4, <1>5, <1>6 DEF ProperRule

\* An update of a rule keeps it one.
LEMMA PatchedProper ==
  ASSUME NEW v, ProperRule(v), NEW dto, UpdateDto(dto), Valid(Patched(v, dto))
  PROVE  ProperRule(Patched(v, dto))
<1> DEFINE w == Patched(v, dto)
<1>1. DOMAIN v = RuleFields
  BY DEF ProperRule
<1>2. \A f \in Fields : w[f] = IF f \in DOMAIN dto THEN dto[f] ELSE v[f]
  BY <1>1 DEF Patched, Fields, Required, RuleFields
<1>3. \A f \in DOMAIN dto : f \in DOMAIN Ranges => dto[f] \in Ranges[f]
  BY DEF UpdateDto, InRange
<1>4. /\ w.enabled \in BOOLEAN /\ w.priority \in Nat /\ w.mode \in Modes /\ w.provider \in Providers
      /\ w.repositoryId \in STRING
  BY <1>2, <1>3 DEF Fields, Required, Ranges, ProperRule
<1>5. w.suggestedAction \in Actions \cup {Null}
  BY <1>1, <1>3 DEF Patched, ResolvedAction, Ranges, ProperRule, RuleFields
<1>6. w = [f \in RuleFields |-> w[f]]
  BY <1>1 DEF Patched
<1> QED BY <1>4, <1>5, <1>6 DEF ProperRule

-----------------------------------------------------------------------------
(* Steps, and who writes what.                                             *)

\* A request of the user that only counts here.
Elsewhere ==
  Change /\ UNCHANGED <<task, ruleVars, rows, queued, loop, job, start, sent, taken, tangled, faults>>

\* A step of the drafts, as the inbox and ManualDrafts make them.
DraftsStep == [Next]_vars \/ Elsewhere

\* The steps of a task, of the rules, and of a start request.
TaskEdits(t) ==
  CreateTask(t) \/ AskUpdateTask(t) \/ SaveTask(t) \/ DeleteTask(t) \/ RemoveTask(t)
RuleEdits ==
  \/ \E e \in Editors : WriteRule(e)
  \/ \E r \in Rules : \/ AskDeleteRule(r) \/ \E dto \in RuleDtos : CreateRule(r, dto)
                      \/ \E dto \in Patches : AskUpdateRule(r, dto)
StartEdits(s) ==
  Claim(s) \/ Dispatch(s) \/ DispatchFails(s) \/ UndoStart(s) \/ \E n \in DOMAIN rows : AskStart(s, n)

\* Who writes the tasks.
LEMMA TaskWriters ==
  ASSUME DraftsStep
  PROVE  \/ UNCHANGED task
         \/ \E j \in StateJobs : PersistState(j)
         \/ \E t \in ManualTasks : TaskEdits(t)
<1> USE DEF vars, ruleVars
<1>1. CASE Elsewhere
  BY <1>1 DEF Elsewhere
<1>2. CASE LoopStep \/ PassFails
  BY <1>2 DEF LoopStep, PassFails, Drain, LoadRules, LoadTasks, NoMatch, FindDraft, RefreshDraft,
     ListStale, SupersedeStale
<1>3. CASE \E j \in StateJobs : JobStep(j)
  BY <1>3 DEF JobStep, ReadTask, ReadExecutions
<1>4. CASE RuleEdits
  BY <1>4 DEF RuleEdits, WriteRule, AskDeleteRule, Asked, CreateRule, AskUpdateRule
<1>5. CASE \E s \in Starters : StartEdits(s)
  BY <1>5 DEF StartEdits, Claim, Dispatch, DispatchFails, UndoStart, AskStart
<1>6. CASE \E n \in DOMAIN rows : Discard(n) \/ Settle(n)
  BY <1>6 DEF Discard, Settle
<1> QED BY <1>1, <1>2, <1>3, <1>4, <1>5, <1>6 DEF DraftsStep, Next, TaskEdits, RuleEdits, StartEdits

\* Who writes the rules.
LEMMA RuleWriters ==
  ASSUME DraftsStep
  PROVE  \/ UNCHANGED ruleVars
         \/ RuleEdits
<1> USE DEF vars
<1>1. CASE Elsewhere
  BY <1>1 DEF Elsewhere
<1>2. CASE LoopStep \/ PassFails
  BY <1>2 DEF LoopStep, PassFails, Drain, LoadRules, LoadTasks, NoMatch, FindDraft, RefreshDraft,
     ListStale, SupersedeStale
<1>3. CASE \E j \in StateJobs : JobStep(j)
  BY <1>3 DEF JobStep, ReadTask, ReadExecutions, PersistState
<1>4. CASE \E t \in ManualTasks : TaskEdits(t)
  BY <1>4 DEF TaskEdits, CreateTask, AskUpdateTask, SaveTask, DeleteTask, RemoveTask
<1>5. CASE \E s \in Starters : StartEdits(s)
  BY <1>5 DEF StartEdits, Claim, Dispatch, DispatchFails, UndoStart, AskStart
<1>6. CASE \E n \in DOMAIN rows : Discard(n) \/ Settle(n)
  BY <1>6 DEF Discard, Settle
<1> QED BY <1>1, <1>2, <1>3, <1>4, <1>5, <1>6 DEF DraftsStep, Next, TaskEdits, RuleEdits, StartEdits

-----------------------------------------------------------------------------
(* Types of tasks and rules.                                               *)

\* The tasks keep their types.
LEMMA TaskTyped ==
  ASSUME Typed, DraftsStep
  PROVE  task' \in [ManualTasks -> TaskState]
<1> USE DEF Typed
<1>1. ASSUME NEW j \in StateJobs, PersistState(j) PROVE task' \in [ManualTasks -> TaskState]
  <2>1. job[j] \in JobState /\ job[j].pc = "write"
    BY <1>1 DEF PersistState
  <2>2. job[j].task \in ManualTasks /\ job[j].state \in WorkflowStates
    BY <2>1 DEF JobState, FreeJob
  <2> QED BY <1>1, <2>2 DEF PersistState, TaskState
<1>2. ASSUME NEW t \in ManualTasks, TaskEdits(t)
      PROVE  task' \in [ManualTasks -> TaskState]
  <2>0. NewTask \in TaskState
    BY DraftsAssumption DEF NewTask, TaskState, WorkflowStates
  <2>1. task[t] \in TaskState
    OBVIOUS
  <2>2. CASE CreateTask(t)
    <3>1. \A x \in TaskState, k \in 0..MaxVersions : [x EXCEPT !.here = "yes", !.ver = k] \in TaskState
      BY DEF TaskState
    <3>2. 1 \in 0..MaxVersions
      BY DraftsAssumption
    <3> QED BY <2>0, <2>2, <3>1, <3>2 DEF CreateTask
  <2>3. CASE AskUpdateTask(t)
    <3>1. task[t].ver + 1 \in 0..MaxVersions
      BY <2>1, <2>3, DraftsAssumption DEF AskUpdateTask, TaskState
    <3>2. task' = [task EXCEPT ![t].next = task[t].ver + 1]
      BY <2>3 DEF AskUpdateTask
    <3>3. [task[t] EXCEPT !.next = task[t].ver + 1] \in TaskState
      BY <2>1, <3>1 DEF TaskState
    <3> QED BY <3>2, <3>3
  <2>6. CASE SaveTask(t)
    <3> DEFINE v == [here |-> IF Here(t) THEN task[t].here ELSE "yes", ver |-> task[t].next,
                     state |-> "inbox", next |-> 0]
    <3>1. task' = [task EXCEPT ![t] = v]
      BY <2>6 DEF SaveTask
    <3>2. v \in TaskState
      BY <2>1, DraftsAssumption DEF TaskState, WorkflowStates
    <3> QED BY <3>1, <3>2
  <2>4. CASE DeleteTask(t)
    BY <2>1, <2>4 DEF DeleteTask, TaskState
  <2>5. CASE RemoveTask(t)
    <3>1. \A x \in TaskState, k \in 0..MaxVersions : [x EXCEPT !.here = "gone", !.next = k] \in TaskState
      BY DEF TaskState
    <3>2. task[t].next \in 0..MaxVersions
      BY <2>1 DEF TaskState
    <3> QED BY <2>0, <2>5, <3>1, <3>2 DEF RemoveTask
  <2> QED BY <1>2, <2>2, <2>3, <2>4, <2>5, <2>6 DEF TaskEdits
<1> QED BY <1>1, <1>2, TaskWriters

\* What is no rule is none that was made.
LEMMA NoProperRule ==
  ~ProperRule(NoRule) /\ ~ProperRule(GoneRule) /\ NoRule # GoneRule
<1>1. "priority" \in RuleFields /\ "priority" \notin DOMAIN NoRule /\ "priority" \notin DOMAIN GoneRule
  BY DEF RuleFields, Fields, NoRule, GoneRule
<1>2. "gone" \in DOMAIN GoneRule /\ "gone" \notin DOMAIN NoRule
  BY DEF NoRule, GoneRule
<1>3. \A v : ProperRule(v) => DOMAIN v = RuleFields
  BY DEF ProperRule
<1> QED BY <1>1, <1>2, <1>3

\* A rule can always be asked whether it is enabled; one that is not there is not.
LEMMA EnabledType ==
  ASSUME RuleTypes, NEW r \in Rules
  PROVE  /\ rule[r].enabled \in BOOLEAN
         /\ rule[r].enabled => There(r) /\ ProperRule(rule[r])
<1>1. NoRule.enabled = FALSE /\ GoneRule.enabled = FALSE
  BY DEF NoRule, GoneRule
<1>2. There(r) => ProperRule(rule[r]) /\ rule[r].enabled \in BOOLEAN
  BY DEF RuleTypes, ProperRule
<1>3. ~There(r) => rule[r].enabled = FALSE
  BY <1>1 DEF There
<1> QED BY <1>2, <1>3

\* The rules keep their types.
LEMMA RuleTyped ==
  ASSUME Typed, DraftsStep
  PROVE  RuleTypes'
<1>0. RuleTypes
  BY DEF Typed
<1>1. CASE UNCHANGED ruleVars
  BY <1>0, <1>1 DEF RuleTypes, ruleVars, There
<1>2. ASSUME NEW e \in Editors, WriteRule(e) PROVE RuleTypes'
  <2>1. PICK x : x = edit[e]
    OBVIOUS
  <2>2. EditRight(x, rule) /\ edit' = [edit EXCEPT ![e] = NoEdit] /\ rule' = [rule EXCEPT ![x.rule] = x.new]
    BY <1>0, <1>2, <2>1 DEF RuleTypes, WriteRule
  <2>3. unheard' \in BOOLEAN
    BY <1>0, <1>2 DEF RuleTypes, WriteRule
  <2>4. /\ rule' = [r \in Rules |-> rule'[r]] /\ rule'[x.rule] = x.new
        /\ \A r \in Rules : r # x.rule => rule'[r] = rule[r]
    BY <1>0, <2>2 DEF RuleTypes, EditRight
  <2>5. \A r \in Rules : There(r)' => ProperRule(rule'[r])
    BY <1>0, <2>2, <2>4, NoProperRule DEF RuleTypes, There, EditRight
  <2>6. \A d \in Editors : edit'[d] # NoEdit => EditRight(edit'[d], rule')
    BY <1>0, <2>2, <2>4, NoProperRule DEF RuleTypes, EditRight
  <2>7. edit' = [d \in Editors |-> edit'[d]]
    BY <1>0, <2>2 DEF RuleTypes
  <2> QED BY <2>3, <2>4, <2>5, <2>6, <2>7 DEF RuleTypes
<1>3. ASSUME NEW r \in Rules, NEW new, Asked(r, new), new = GoneRule \/ ProperRule(new)
      PROVE  RuleTypes'
  <2>1. /\ UNCHANGED <<rule, unheard>> /\ There(r)
        /\ \E e \in Editors : edit' = [edit EXCEPT ![e] = [rule |-> r, old |-> rule[r], new |-> new]]
    BY <1>3 DEF Asked
  <2>2. EditRight([rule |-> r, old |-> rule[r], new |-> new], rule)
    BY <1>0, <1>3, <2>1, NoProperRule DEF RuleTypes, EditRight, There
  <2> QED BY <1>0, <2>1, <2>2 DEF RuleTypes, There, EditRight
<1>4. ASSUME NEW r \in Rules, NEW dto \in RuleDtos, CreateRule(r, dto) PROVE RuleTypes'
  <2>1. /\ rule' = [rule EXCEPT ![r] = Created(dto)] /\ UNCHANGED <<edit, unheard>>
        /\ ProperRule(Created(dto))
    BY <1>4, CreatedProper, DraftsAssumption DEF CreateRule
  <2> QED BY <1>0, <2>1, NoProperRule DEF RuleTypes, There, EditRight
<1>5. ASSUME NEW r \in Rules, NEW dto \in Patches, AskUpdateRule(r, dto) PROVE RuleTypes'
  <2>1. ProperRule(rule[r]) /\ Valid(Patched(rule[r], dto)) /\ Asked(r, Patched(rule[r], dto))
    BY <1>0, <1>5 DEF AskUpdateRule, RuleTypes
  <2>2. ProperRule(Patched(rule[r], dto))
    BY <2>1, PatchedProper, DraftsAssumption
  <2> QED BY <1>3, <2>1, <2>2
<1>6. ASSUME NEW r \in Rules, AskDeleteRule(r) PROVE RuleTypes'
  BY <1>3, <1>6 DEF AskDeleteRule
<1> QED BY <1>1, <1>2, <1>4, <1>5, <1>6, RuleWriters DEF RuleEdits

-----------------------------------------------------------------------------
(* Types of rows and starts.                                               *)

\* Who writes rows, starts or what was sent.
LEMMA RowWriters ==
  ASSUME DraftsStep
  PROVE  \/ UNCHANGED <<rows, start, sent>>
         \/ NoMatch \/ RefreshDraft \/ SupersedeStale
         \/ \E t \in ManualTasks : DeleteTask(t)
         \/ \E s \in Starters : StartEdits(s)
         \/ \E n \in DOMAIN rows : Discard(n) \/ Settle(n)
<1> USE DEF vars
<1>1. CASE Elsewhere
  BY <1>1 DEF Elsewhere
<1>2. CASE LoopStep \/ PassFails
  BY <1>2 DEF LoopStep, PassFails, Drain, LoadRules, LoadTasks, FindDraft, ListStale
<1>3. CASE \E j \in StateJobs : JobStep(j)
  BY <1>3 DEF JobStep, ReadTask, ReadExecutions, PersistState
<1>4. CASE \E t \in ManualTasks : CreateTask(t) \/ AskUpdateTask(t) \/ SaveTask(t) \/ RemoveTask(t)
  BY <1>4 DEF CreateTask, AskUpdateTask, SaveTask, RemoveTask
<1>5. CASE RuleEdits
  BY <1>5 DEF RuleEdits, WriteRule, AskDeleteRule, Asked, CreateRule, AskUpdateRule
<1> QED BY <1>1, <1>2, <1>3, <1>4, <1>5 DEF DraftsStep, Next, TaskEdits, RuleEdits, StartEdits

\* What an update that supersedes drafts leaves.
LEMMA SupersededRows ==
  ASSUME NEW rs \in Seq(RowState), NEW ts, NEW keep, NEW out, out = Superseded(rs, ts, keep)
  PROVE  /\ out \in Seq(RowState) /\ Len(out) = Len(rs) /\ DOMAIN out = DOMAIN rs
         /\ \A n \in DOMAIN rs :
              out[n] = IF rs[n].draft = "ready" /\ rs[n].task \in ts /\ n # keep
                         THEN [rs[n] EXCEPT !.draft = "superseded"] ELSE rs[n]
<1>1. DOMAIN out = 1..Len(rs) /\ Len(rs) \in Nat
  BY DEF Superseded
<1>2. \A n \in DOMAIN rs : rs[n] \in RowState
  OBVIOUS
<1>3. \A n \in DOMAIN rs :
              out[n] = IF rs[n].draft = "ready" /\ rs[n].task \in ts /\ n # keep
                         THEN [rs[n] EXCEPT !.draft = "superseded"] ELSE rs[n]
  BY DEF Superseded
<1>4. ASSUME NEW n \in 1..Len(rs) PROVE out[n] \in RowState
  <2>1. rs[n] \in RowState
    BY <1>2
  <2>2. [rs[n] EXCEPT !.draft = "superseded"] \in RowState
    BY <2>1 DEF RowState
  <2> QED BY <1>3, <2>1, <2>2
<1>5. out = [n \in 1..Len(rs) |-> out[n]]
  BY DEF Superseded
<1>6. out \in Seq(RowState) /\ Len(out) = Len(rs)
  BY <1>1, <1>4, <1>5
<1> QED BY <1>1, <1>3, <1>6

\* The item whose turn it is is one of them, and its match is a rule that was read.
LEMMA ItemType ==
  ASSUME LoopTypes, loop.todo # {}
  PROVE  /\ Item \in loop.todo /\ Item.task \in Tasks /\ Item.ver \in 0..MaxVersions
         /\ Item = ItemOf(Item.task, Item.ver, Item.status) /\ Item.status \in Statuses
         /\ Item.provider = ProviderOf(Item.task)
<1>1. Item \in loop.todo
  BY DEF Item
<1>2. Item = ItemOf(Item.task, Item.ver, Item.status)
  BY <1>1 DEF LoopTypes
<1>3. Item.provider = ProviderOf(Item.task)
  BY <1>2 DEF ItemOf
<1> QED BY <1>1, <1>2, <1>3 DEF LoopTypes

\* A match is a rule that was read and that matches; there is one at most.
LEMMA MatchType ==
  ASSUME LoopTypes, NEW i, NEW x \in MatchOf(i)
  PROVE  /\ x \in loop.rules /\ LoadedRule(x) /\ x.id \in Rules /\ x.value.repositoryId \in STRING
         /\ x.value.provider = i.provider
         /\ Drafts(MatchOf(i)) => x.value.mode = "draft" /\ x.value.suggestedAction \in Actions
         /\ MatchOf(i) = {x}
<1>1. /\ x \in loop.rules /\ LoadedRule(x) /\ x.id \in Rules /\ x.value.repositoryId \in STRING
      /\ x.value.provider = i.provider
  BY DEF MatchOf, FirstMatch, LoopTypes, LoadedRule, Matches, ProperRule
<1>2. ASSUME NEW y \in MatchOf(i), y # x PROVE FALSE
  <2>1. Precedes(x, y) /\ Precedes(y, x)
    BY <1>2 DEF MatchOf, FirstMatch
  <2>2. y \in loop.rules /\ x.id # y.id /\ LoadedRule(y)
    BY <1>1, <1>2 DEF MatchOf, FirstMatch, LoopTypes
  <2>3. /\ x.id \in 1..Cardinality(Rules) /\ y.id \in 1..Cardinality(Rules)
        /\ x.value.priority \in Nat /\ y.value.priority \in Nat
    BY <1>1, <2>2, DraftsAssumption DEF LoadedRule, ProperRule
  <2> QED BY <2>1, <2>2, <2>3 DEF Precedes
<1>3. MatchOf(i) = {x}
  BY <1>2
<1>4. Drafts(MatchOf(i)) => x.value.mode = "draft" /\ x.value.suggestedAction \in Actions
  BY <1>1, <1>3 DEF Drafts, LoadedRule, ProperRule
<1> QED BY <1>1, <1>3, <1>4

\* A row.
LEMMA RowType ==
  ASSUME Typed, NEW n \in DOMAIN rows
  PROVE  /\ rows[n] \in RowState /\ rows[n].task \in Tasks /\ rows[n].rule \in Rules
         /\ rows[n].ver \in 0..MaxVersions /\ n \in Nat /\ n > 0
<1>1. rows[n] \in RowState
  BY DEF Typed, RowTypes
<1>2. n \in Nat /\ n > 0
  BY DEF Typed, RowTypes
<1> QED BY <1>1, <1>2 DEF RowState

\* A row is only ever changed in what becomes of it.
SameDraft(a, b) ==
  a.task = b.task /\ a.ver = b.ver /\ a.rule = b.rule /\ a.repo = b.repo /\ a.does = b.does

\* Rows are appended, and only changed in what becomes of them.
RowsKept ==
  /\ rows' \in Seq(RowState) /\ Len(rows') <= MaxRows /\ Len(rows) <= Len(rows')
  /\ DOMAIN rows \subseteq DOMAIN rows'
  /\ \A n \in DOMAIN rows : SameDraft(rows'[n], rows[n])

\* An update that supersedes drafts keeps the rows.
LEMMA SupersedingKeeps ==
  ASSUME Typed, NEW ts, NEW keep, rows' = Superseded(rows, ts, keep)
  PROVE  /\ RowsKept /\ Len(rows') = Len(rows) /\ DOMAIN rows' = DOMAIN rows
         /\ \A n \in DOMAIN rows :
              rows'[n] = IF Ready(n) /\ rows[n].task \in ts /\ n # keep
                           THEN [rows[n] EXCEPT !.draft = "superseded"] ELSE rows[n]
<1>1. rows \in Seq(RowState) /\ Len(rows) <= MaxRows
  BY DEF Typed, RowTypes
<1>2. /\ rows' \in Seq(RowState) /\ Len(rows') = Len(rows) /\ DOMAIN rows' = DOMAIN rows
      /\ \A n \in DOMAIN rows :
           rows'[n] = IF rows[n].draft = "ready" /\ rows[n].task \in ts /\ n # keep
                        THEN [rows[n] EXCEPT !.draft = "superseded"] ELSE rows[n]
  BY <1>1, SupersededRows
<1>3. \A n \in DOMAIN rows : SameDraft(rows'[n], rows[n])
  <2> SUFFICES ASSUME NEW n \in DOMAIN rows PROVE SameDraft(rows'[n], rows[n])
    OBVIOUS
  <2>1. rows[n] \in RowState
    BY <1>1
  <2> QED BY <1>2, <2>1 DEF SameDraft, RowState
<1> QED BY <1>1, <1>2, <1>3 DEF RowsKept, Ready

\* So does one that changes what becomes of row n.
LEMMA EditingKeeps ==
  ASSUME Typed, NEW n \in DOMAIN rows, NEW v \in RowState, SameDraft(v, rows[n]),
         rows' = [rows EXCEPT ![n] = v]
  PROVE  /\ RowsKept /\ DOMAIN rows' = DOMAIN rows
         /\ rows'[n] = v /\ \A m \in DOMAIN rows : m # n => rows'[m] = rows[m]
<1>1. rows \in Seq(RowState) /\ Len(rows) <= MaxRows
  BY DEF Typed, RowTypes
<1>2. /\ DOMAIN rows = 1..Len(rows) /\ Len(rows) \in Nat /\ DOMAIN rows' = DOMAIN rows
      /\ rows'[n] = v /\ \A m \in DOMAIN rows : m # n => rows'[m] = rows[m]
  BY <1>1
<1>3. rows' \in Seq(RowState) /\ Len(rows') = Len(rows)
  <2>1. rows \in Seq(RowState) /\ n \in 1..Len(rows) /\ v \in RowState
    BY <1>1, <1>2
  <2>2. [rows EXCEPT ![n] = v] \in Seq(RowState) /\ Len([rows EXCEPT ![n] = v]) = Len(rows)
    BY <2>1, ExceptSeq, Zenon
  <2> QED BY <2>2
<1>4. \A m \in DOMAIN rows : SameDraft(rows'[m], rows[m])
  BY <1>2 DEF SameDraft
<1> QED BY <1>1, <1>2, <1>3, <1>4 DEF RowsKept

\* A step that changes row n makes it a row with draft d, run r, j entries and l lost ones.
Edited(n, d, r, j, l) ==
  /\ RowsKept /\ DOMAIN rows' = DOMAIN rows /\ rows'[n] \in RowState
  /\ rows'[n].draft = d /\ rows'[n].run = r /\ rows'[n].jobs = j /\ rows'[n].lost = l
  /\ \A m \in DOMAIN rows : m # n => rows'[m] = rows[m]

\* What the steps make of the row.
LEMMA EditSteps ==
  ASSUME Typed, NEW n \in DOMAIN rows
  PROVE  /\ rows' = [rows EXCEPT ![n].draft = "none", ![n].run = "active"]
              => Edited(n, "none", "active", rows[n].jobs, rows[n].lost)
         /\ rows' = [rows EXCEPT ![n].draft = "ready", ![n].run = "none"]
              => Edited(n, "ready", "none", rows[n].jobs, rows[n].lost)
         /\ rows' = [rows EXCEPT ![n].draft = "superseded"]
              => Edited(n, "superseded", rows[n].run, rows[n].jobs, rows[n].lost)
         /\ rows' = [rows EXCEPT ![n].jobs = @ + 1]
              => Edited(n, rows[n].draft, rows[n].run, rows[n].jobs + 1, rows[n].lost)
         /\ rows' = [rows EXCEPT ![n].jobs = @ + 1, ![n].lost = @ + 1]
              => Edited(n, rows[n].draft, rows[n].run, rows[n].jobs + 1, rows[n].lost + 1)
         /\ \A r \in {"done", "failed"} :
              rows' = [rows EXCEPT ![n].run = r, ![n].jobs = @ - 1] /\ rows[n].jobs > 0
                => Edited(n, rows[n].draft, r, rows[n].jobs - 1, rows[n].lost)
<1>1. rows[n] \in RowState /\ rows \in Seq(RowState)
  BY DEF Typed, RowTypes
<1>2. ASSUME NEW v \in RowState, SameDraft(v, rows[n]), rows' = [rows EXCEPT ![n] = v]
      PROVE  Edited(n, v.draft, v.run, v.jobs, v.lost)
  BY <1>2, EditingKeeps DEF Edited
<1>3. ASSUME rows' = [rows EXCEPT ![n].draft = "none", ![n].run = "active"]
      PROVE  Edited(n, "none", "active", rows[n].jobs, rows[n].lost)
  <2> DEFINE v == [rows[n] EXCEPT !.draft = "none", !.run = "active"]
  <2>1. /\ v \in RowState /\ SameDraft(v, rows[n])
        /\ v.draft = "none" /\ v.run = "active" /\ v.jobs = rows[n].jobs /\ v.lost = rows[n].lost
    BY <1>1 DEF RowState, SameDraft
  <2>2. rows' = [rows EXCEPT ![n] = v]
    BY <1>3
  <2> HIDE DEF v
  <2> QED BY <1>2, <2>1, <2>2
<1>4. ASSUME rows' = [rows EXCEPT ![n].draft = "ready", ![n].run = "none"]
      PROVE  Edited(n, "ready", "none", rows[n].jobs, rows[n].lost)
  <2> DEFINE v == [rows[n] EXCEPT !.draft = "ready", !.run = "none"]
  <2>1. /\ v \in RowState /\ SameDraft(v, rows[n])
        /\ v.draft = "ready" /\ v.run = "none" /\ v.jobs = rows[n].jobs /\ v.lost = rows[n].lost
    BY <1>1 DEF RowState, SameDraft
  <2>2. rows' = [rows EXCEPT ![n] = v]
    BY <1>4
  <2> HIDE DEF v
  <2> QED BY <1>2, <2>1, <2>2
<1>5. ASSUME rows' = [rows EXCEPT ![n].draft = "superseded"]
      PROVE  Edited(n, "superseded", rows[n].run, rows[n].jobs, rows[n].lost)
  <2> DEFINE v == [rows[n] EXCEPT !.draft = "superseded"]
  <2>1. /\ v \in RowState /\ SameDraft(v, rows[n])
        /\ v.draft = "superseded" /\ v.run = rows[n].run /\ v.jobs = rows[n].jobs /\ v.lost = rows[n].lost
    BY <1>1 DEF RowState, SameDraft
  <2>2. rows' = [rows EXCEPT ![n] = v]
    BY <1>5
  <2> HIDE DEF v
  <2> QED BY <1>2, <2>1, <2>2
<1>6. ASSUME rows' = [rows EXCEPT ![n].jobs = @ + 1]
      PROVE  Edited(n, rows[n].draft, rows[n].run, rows[n].jobs + 1, rows[n].lost)
  <2>0. PICK j \in Nat : j = rows[n].jobs + 1
    BY <1>1 DEF RowState
  <2> DEFINE v == [rows[n] EXCEPT !.jobs = j]
  <2>1. /\ v \in RowState /\ SameDraft(v, rows[n])
        /\ v.draft = rows[n].draft /\ v.run = rows[n].run /\ v.jobs = j /\ v.lost = rows[n].lost
    BY <1>1 DEF RowState, SameDraft
  <2>2. rows' = [rows EXCEPT ![n] = v]
    BY <1>6, <2>0
  <2> HIDE DEF v
  <2> QED BY <1>2, <2>0, <2>1, <2>2
<1>7. ASSUME rows' = [rows EXCEPT ![n].jobs = @ + 1, ![n].lost = @ + 1]
      PROVE  Edited(n, rows[n].draft, rows[n].run, rows[n].jobs + 1, rows[n].lost + 1)
  <2>3. rows[n].jobs \in Nat /\ rows[n].lost \in Nat
    BY <1>1 DEF RowState
  <2>4. PICK j \in Nat : j = rows[n].jobs + 1
    BY <2>3
  <2>5. PICK l \in Nat : l = rows[n].lost + 1
    BY <2>3
  <2> DEFINE v == [rows[n] EXCEPT !.jobs = j, !.lost = l]
  <2>1. /\ v \in RowState /\ SameDraft(v, rows[n])
        /\ v.draft = rows[n].draft /\ v.run = rows[n].run /\ v.jobs = j /\ v.lost = l
    BY <1>1 DEF RowState, SameDraft
  <2>2. rows' = [rows EXCEPT ![n] = v]
    BY <1>1, <1>7, <2>4, <2>5
  <2> HIDE DEF v
  <2> QED BY <1>2, <2>1, <2>2, <2>4, <2>5
<1>8. ASSUME NEW r \in {"done", "failed"}, rows[n].jobs > 0,
             rows' = [rows EXCEPT ![n].run = r, ![n].jobs = @ - 1]
      PROVE  Edited(n, rows[n].draft, r, rows[n].jobs - 1, rows[n].lost)
  <2> DEFINE v == [rows[n] EXCEPT !.run = r, !.jobs = rows[n].jobs - 1]
  <2>1. /\ v \in RowState /\ SameDraft(v, rows[n])
        /\ v.draft = rows[n].draft /\ v.run = r /\ v.jobs = rows[n].jobs - 1 /\ v.lost = rows[n].lost
    BY <1>1, <1>8 DEF RowState, SameDraft
  <2>2. rows' = [rows EXCEPT ![n] = v]
    BY <1>1, <1>8
  <2> HIDE DEF v
  <2> QED BY <1>2, <2>1, <2>2
<1> QED BY <1>3, <1>4, <1>5, <1>6, <1>7, <1>8

\* A start request that changes a row changes the one it holds.
LEMMA StartEdited ==
  ASSUME Typed, NEW s \in Starters, StartEdits(s)
  PROVE  \/ UNCHANGED rows
         \/ /\ start[s].pc # "idle" /\ start[s].row \in DOMAIN rows
            /\ \E d, r, j, l : Edited(start[s].row, d, r, j, l)
<1>1. start[s].pc # "idle" => start[s].row \in DOMAIN rows
  BY DEF Typed, StartTypes
<1> QED BY <1>1, EditSteps DEF StartEdits, Claim, Dispatch, DispatchFails, UndoStart, AskStart

\* The draft that was found is refreshed or a new one is inserted.
LEMMA RefreshingKeeps ==
  ASSUME Typed, RefreshDraft
  PROVE  \E x \in MatchOf(Item) :
           /\ x.value.suggestedAction \in Actions /\ LoadedRule(x) /\ x.value.mode = "draft"
           /\ RowsKept
           /\ \/ /\ loop.found # NoFind /\ SameVersion(rows[loop.found], x, Item)
                 /\ Len(rows') = Len(rows) /\ DOMAIN rows' = DOMAIN rows /\ UNCHANGED taken
                 /\ \A n \in DOMAIN rows :
                      rows'[n] = IF Ready(n) /\ rows[n].task = Item.task /\ n # loop.found
                                   THEN [rows[n] EXCEPT !.draft = "superseded"] ELSE rows[n]
              \/ /\ ~(loop.found # NoFind /\ SameVersion(rows[loop.found], x, Item))
                 /\ Len(rows') = Len(rows) + 1 /\ DOMAIN rows' = DOMAIN rows \cup {Len(rows) + 1}
                 /\ Len(rows) + 1 \notin DOMAIN rows
                 /\ rows'[Len(rows) + 1] = Draft(Item, x) /\ taken' = taken \ {Item.task}
                 /\ \A n \in DOMAIN rows :
                      rows'[n] = IF Ready(n) /\ rows[n].task = Item.task
                                   THEN [rows[n] EXCEPT !.draft = "superseded"] ELSE rows[n]
<1>1. LoopTypes /\ loop.todo # {} /\ Drafts(MatchOf(Item)) /\ rows \in Seq(RowState)
  BY DEF Typed, LoopTypes, RefreshDraft, RowTypes
<1>2. PICK x \in MatchOf(Item) :
        LET kept == loop.found # NoFind /\ SameVersion(rows[loop.found], x, Item) IN
         \/ kept /\ rows' = Superseded(rows, {Item.task}, loop.found) /\ UNCHANGED taken
         \/ /\ ~kept /\ Len(rows) < MaxRows
            /\ rows' = Superseded(Append(rows, Draft(Item, x)), {Item.task}, Len(rows) + 1)
            /\ taken' = taken \ {Item.task}
  BY DEF RefreshDraft
<1>3. /\ LoadedRule(x) /\ x.value.suggestedAction \in Actions /\ x.id \in Rules
      /\ x.value.repositoryId \in STRING /\ x.value.mode = "draft"
  BY <1>1, MatchType
<1> DEFINE kept == loop.found # NoFind /\ SameVersion(rows[loop.found], x, Item)
<1>4. CASE kept /\ rows' = Superseded(rows, {Item.task}, loop.found) /\ UNCHANGED taken
  <2>1. /\ RowsKept /\ Len(rows') = Len(rows) /\ DOMAIN rows' = DOMAIN rows
        /\ \A n \in DOMAIN rows :
             rows'[n] = IF Ready(n) /\ rows[n].task \in {Item.task} /\ n # loop.found
                          THEN [rows[n] EXCEPT !.draft = "superseded"] ELSE rows[n]
    BY <1>4, SupersedingKeeps
  <2> QED BY <1>3, <1>4, <2>1
<1>5. CASE /\ ~kept /\ Len(rows) < MaxRows
           /\ rows' = Superseded(Append(rows, Draft(Item, x)), {Item.task}, Len(rows) + 1)
           /\ taken' = taken \ {Item.task}
  <2> DEFINE d == Draft(Item, x)
             k == Len(rows) + 1
             rs == Append(rows, d)
  <2>1. d \in RowState /\ d.draft = "ready" /\ d.task = Item.task
    BY <1>1, <1>3, ItemType DEF Draft, RowState
  <2>2. Len(rows) \in Nat /\ MaxRows \in Nat /\ DOMAIN rows = 1..Len(rows)
    BY <1>1, DraftsAssumption
  <2> HIDE DEF d
  <2>3. /\ rs \in Seq(RowState) /\ Len(rs) = k /\ DOMAIN rs = DOMAIN rows \cup {k} /\ rs[k] = d
        /\ k \notin DOMAIN rows /\ \A n \in DOMAIN rows : rs[n] = rows[n]
    BY <1>1, <2>1, <2>2
  <2> HIDE DEF rs
  <2>4. rows' = Superseded(rs, {Item.task}, k)
    BY <1>5 DEF rs, d
  <2>5. /\ rows' \in Seq(RowState) /\ Len(rows') = k /\ DOMAIN rows' = DOMAIN rs
        /\ \A n \in DOMAIN rs :
             rows'[n] = IF rs[n].draft = "ready" /\ rs[n].task \in {Item.task} /\ n # k
                          THEN [rs[n] EXCEPT !.draft = "superseded"] ELSE rs[n]
    <3> HIDE DEF k
    <3> QED BY <2>3, <2>4, SupersededRows
  <2>6. rows'[k] = d
    BY <2>3, <2>5
  <2>7. \A n \in DOMAIN rows :
             rows'[n] = IF Ready(n) /\ rows[n].task = Item.task
                          THEN [rows[n] EXCEPT !.draft = "superseded"] ELSE rows[n]
    BY <2>3, <2>5 DEF Ready
  <2>8. ASSUME NEW n \in DOMAIN rows PROVE SameDraft(rows'[n], rows[n])
    <3>1. rows[n] \in RowState
      BY <1>1
    <3> QED BY <2>7, <3>1 DEF SameDraft, RowState
  <2>9. RowsKept
    <3>1. Len(rows') <= MaxRows /\ Len(rows) <= Len(rows')
      BY <1>5, <2>2, <2>5
    <3> QED BY <2>3, <2>5, <2>8, <3>1 DEF RowsKept
  <2> QED BY <1>3, <1>5, <2>3, <2>5, <2>6, <2>7, <2>9 DEF d
<1> QED BY <1>2, <1>4, <1>5

\* No step does anything else to a row.
LEMMA RowsStep ==
  ASSUME Typed, DraftsStep
  PROVE  RowsKept /\ (~RefreshDraft => DOMAIN rows' = DOMAIN rows)
<1>1. rows \in Seq(RowState) /\ Len(rows) <= MaxRows /\ StartTypes
  BY DEF Typed, RowTypes
<1>2. \A n \in DOMAIN rows : rows[n] \in RowState
  BY <1>1
<1>3. CASE UNCHANGED rows
  BY <1>1, <1>3 DEF RowsKept, SameDraft
<1>4. CASE NoMatch \/ SupersedeStale \/ \E t \in ManualTasks : DeleteTask(t)
  BY <1>4, SupersedingKeeps DEF NoMatch, SupersedeStale, DeleteTask
<1>5. CASE RefreshDraft
  BY <1>5, RefreshingKeeps
<1>6. ASSUME NEW s \in Starters, StartEdits(s) PROVE RowsKept /\ DOMAIN rows' = DOMAIN rows
  BY <1>3, <1>6, StartEdited DEF Edited
<1>7. ASSUME NEW n \in DOMAIN rows, Discard(n) \/ Settle(n) PROVE RowsKept /\ DOMAIN rows' = DOMAIN rows
  BY <1>7, EditSteps DEF Discard, Settle, Edited
<1> QED BY <1>3, <1>4, <1>5, <1>6, <1>7, RowWriters

\* The start requests and the history of the rows keep their types.
LEMMA StartTyped ==
  ASSUME Typed, DraftsStep
  PROVE  /\ StartTypes' /\ sent' \in [1..MaxRows -> Nat]
<1>0. /\ StartTypes /\ sent \in [1..MaxRows -> Nat] /\ rows \in Seq(RowState) /\ Len(rows) <= MaxRows
      /\ DOMAIN rows \subseteq 1..MaxRows /\ DOMAIN rows = 1..Len(rows) /\ Len(rows) \in Nat /\ MaxRows \in Nat
  BY DraftsAssumption DEF Typed, RowTypes
<1>1. RowsKept
  BY RowsStep
<1>2. /\ DOMAIN rows \subseteq DOMAIN rows' /\ 0..Len(rows) \subseteq 0..Len(rows')
      /\ 0..Len(rows) \subseteq 0..MaxRows
  BY <1>0, <1>1 DEF RowsKept
<1>3. ASSUME UNCHANGED start PROVE StartTypes'
  <2>1. \A s \in Starters : start'[s] = start[s]
    BY <1>3
  <2> QED BY <1>0, <1>2, <1>3 DEF StartTypes
<1>4. ASSUME NEW s \in Starters, NEW v \in StartState, start' = [start EXCEPT ![s] = v],
             v.row \in 0..Len(rows), v.pc # "idle" => v.row \in DOMAIN rows
      PROVE  StartTypes'
  BY <1>0, <1>2, <1>4 DEF StartTypes
<1>5. CASE UNCHANGED <<start, sent>>
  BY <1>0, <1>3, <1>5
<1>6. IdleStart \in StartState /\ IdleStart.row = 0 /\ IdleStart.pc = "idle" /\ 0 \in 0..Len(rows)
  BY <1>0 DEF IdleStart, StartState
<1>7. ASSUME NEW s \in Starters, Claim(s) PROVE StartTypes' /\ UNCHANGED sent
  <2>1. start[s].row \in DOMAIN rows /\ start[s] \in StartState
    BY <1>0, <1>7 DEF Claim, StartTypes
  <2> DEFINE v == [start[s] EXCEPT !.pc = "dispatch"]
  <2>2. v \in StartState /\ v.row = start[s].row
    BY <2>1 DEF StartState
  <2>3. v.row \in DOMAIN rows /\ v.row \in 0..Len(rows)
    BY <1>0, <2>1, <2>2
  <2>4. CASE start' = [start EXCEPT ![s].pc = "dispatch"]
    <3>1. start' = [start EXCEPT ![s] = v]
      BY <2>4
    <3> HIDE DEF v
    <3> QED BY <1>4, <1>7, <2>2, <2>3, <3>1 DEF Claim
  <2>5. CASE start' = [start EXCEPT ![s] = IdleStart]
    BY <1>4, <1>6, <1>7, <2>5 DEF Claim
  <2> QED BY <1>7, <2>4, <2>5 DEF Claim
<1>8. ASSUME NEW n \in 1..MaxRows, sent' = [sent EXCEPT ![n] = @ + 1] PROVE sent' \in [1..MaxRows -> Nat]
  <2>1. sent[n] + 1 \in Nat
    BY <1>0
  <2> QED BY <1>0, <1>8, <2>1
<1>9. ASSUME NEW s \in Starters, Dispatch(s) \/ UndoStart(s) PROVE StartTypes' /\ sent' \in [1..MaxRows -> Nat]
  <2>1. start[s].row \in 1..MaxRows
    BY <1>0, <1>9 DEF Dispatch, UndoStart, StartTypes
  <2> QED BY <1>0, <1>4, <1>6, <1>8, <1>9, <2>1 DEF Dispatch, UndoStart
<1>13. ASSUME NEW s \in Starters, DispatchFails(s) PROVE StartTypes' /\ sent' \in [1..MaxRows -> Nat]
  <2>1. start[s].row \in 1..MaxRows /\ start[s].row \in DOMAIN rows /\ start[s] \in StartState
    BY <1>0, <1>13 DEF DispatchFails, StartTypes
  <2> DEFINE v == [start[s] EXCEPT !.pc = "undo"]
  <2>2. v \in StartState /\ v.row = start[s].row
    BY <2>1 DEF StartState
  <2>3. v.row \in DOMAIN rows /\ v.row \in 0..Len(rows)
    BY <1>0, <2>1, <2>2
  <2>4. start' = [start EXCEPT ![s] = v]
    BY <1>13 DEF DispatchFails
  <2> HIDE DEF v
  <2>5. StartTypes'
    BY <1>4, <2>2, <2>3, <2>4
  <2> QED BY <1>0, <1>8, <1>13, <2>1, <2>5 DEF DispatchFails
<1>10. ASSUME NEW s \in Starters, NEW n \in DOMAIN rows, AskStart(s, n)
       PROVE  StartTypes' /\ UNCHANGED sent
  <2> DEFINE v == [pc |-> "claim", row |-> n]
  <2>1. v \in StartState /\ v.row = n /\ n \in 0..Len(rows)
    BY <1>0 DEF StartState
  <2> HIDE DEF v
  <2> QED BY <1>4, <1>10, <2>1 DEF AskStart, v
<1>11. CASE NoMatch \/ RefreshDraft \/ SupersedeStale \/ \E t \in ManualTasks : DeleteTask(t)
  BY <1>5, <1>11 DEF NoMatch, RefreshDraft, SupersedeStale, DeleteTask
<1>12. CASE \E n \in DOMAIN rows : Discard(n) \/ Settle(n)
  BY <1>5, <1>12 DEF Discard, Settle
<1> QED BY <1>0, <1>5, <1>7, <1>9, <1>10, <1>11, <1>12, <1>13, RowWriters DEF StartEdits

-----------------------------------------------------------------------------
(* Types of the workflow state reconciles.                                 *)

\* A reconcile starts in a free place.
LEMMA LaunchTyped ==
  ASSUME job \in [StateJobs -> JobState], tangled \subseteq Tasks, NEW t \in Tasks, Launch(t)
  PROVE  job' \in [StateJobs -> JobState] /\ tangled' \subseteq Tasks
<1>1. CASE t \in ManualTasks
  <2>1. PICK j \in StateJobs : job' = [job EXCEPT ![j] = [pc |-> "task", task |-> t]]
    BY <1>1 DEF Launch, Launched
  <2>2. [pc |-> "task", task |-> t] \in JobState
    BY <1>1 DEF JobState
  <2>3. tangled' \subseteq Tasks
    BY <1>1 DEF Launch, Launched
  <2> QED BY <2>1, <2>2, <2>3
<1>2. CASE t \notin ManualTasks
  BY <1>2 DEF Launch
<1> QED BY <1>1, <1>2

\* Who writes the reconciles.
LEMMA JobWriters ==
  ASSUME Typed, DraftsStep
  PROVE  \/ UNCHANGED <<job, tangled>>
         \/ \E j \in StateJobs : JobStep(j)
         \/ \E t \in Tasks : Launch(t)
<1>0. /\ LoopTypes /\ \A n \in DOMAIN rows : rows[n].task \in Tasks
      /\ \A s \in Starters : start[s].pc # "idle" => start[s].row \in DOMAIN rows
  BY RowType DEF Typed, StartTypes
<1> USE DEF vars
<1>1. CASE Elsewhere
  BY <1>1 DEF Elsewhere
<1>2. CASE LoopStep \/ PassFails
  <2>1. CASE NoMatch \/ RefreshDraft
    <3>1. Launch(Item.task) /\ loop.todo # {}
      BY <1>0, <2>1 DEF NoMatch, RefreshDraft, LoopTypes
    <3> QED BY <1>0, <3>1, ItemType
  <2> QED BY <1>2, <2>1 DEF LoopStep, PassFails, Drain, LoadRules, LoadTasks, FindDraft, ListStale, SupersedeStale
<1>3. CASE \E t \in ManualTasks : TaskEdits(t)
  BY <1>3 DEF TaskEdits, CreateTask, AskUpdateTask, SaveTask, DeleteTask, RemoveTask, Tasks
<1>4. CASE RuleEdits
  BY <1>4 DEF RuleEdits, WriteRule, AskDeleteRule, Asked, CreateRule, AskUpdateRule
<1>5. CASE \E s \in Starters : StartEdits(s)
  BY <1>0, <1>5 DEF StartEdits, Claim, Dispatch, DispatchFails, UndoStart, AskStart
<1>6. CASE \E n \in DOMAIN rows : Discard(n) \/ Settle(n)
  BY <1>0, <1>6 DEF Discard, Settle
<1> QED BY <1>1, <1>2, <1>3, <1>4, <1>5, <1>6 DEF DraftsStep, Next, TaskEdits, RuleEdits, StartEdits

\* What resolveWorkflowState says is a state.
LEMMA ResolvedType ==
  ASSUME NEW t, NEW v PROVE Resolved(t, v) \in WorkflowStates
<1> DEFINE run == {n \in OwnRows(t, v) : rows[n].draft = "none"}
<1>1. Resolved(t, v) = IF \E n \in run : rows[n].run = "active" THEN "in_progress"
                       ELSE IF \E n \in OwnRows(t, v) : Ready(n) THEN "drafted"
                       ELSE IF run = {} THEN "inbox"
                       ELSE IF rows[Max(run)].run = "done" THEN "done" ELSE "blocked"
  BY DEF Resolved
<1> HIDE DEF run
<1> QED BY <1>1 DEF WorkflowStates

\* The reconciles keep their types.
LEMMA JobTyped ==
  ASSUME Typed, DraftsStep
  PROVE  job' \in [StateJobs -> JobState] /\ tangled' \subseteq Tasks
<1>0. job \in [StateJobs -> JobState] /\ tangled \subseteq Tasks /\ task \in [ManualTasks -> TaskState]
  BY DEF Typed
<1>1. FreeJob \in JobState
  BY DEF JobState
<1>2. ASSUME NEW j \in StateJobs, NEW v \in JobState, job' = [job EXCEPT ![j] = v], UNCHANGED tangled
      PROVE job' \in [StateJobs -> JobState] /\ tangled' \subseteq Tasks
  BY <1>0, <1>2
<1>3. ASSUME NEW j \in StateJobs, JobStep(j)
      PROVE job' \in [StateJobs -> JobState] /\ tangled' \subseteq Tasks
  <2>1. CASE ReadTask(j)
    <3>1. job[j].task \in ManualTasks
      BY <1>0, <2>1 DEF ReadTask, JobState, FreeJob
    <3> DEFINE v == IF Here(job[j].task) THEN [pc |-> "executions", task |-> job[j].task, saw |-> [ver |-> task[job[j].task].ver, state |-> task[job[j].task].state]]
                                         ELSE FreeJob
    <3>2. v \in JobState
      BY <1>0, <1>1, <3>1 DEF JobState, TaskState
    <3>3. job' = [job EXCEPT ![j] = v] /\ UNCHANGED tangled
      BY <2>1 DEF ReadTask
    <3> HIDE DEF v
    <3> QED BY <1>2, <3>2, <3>3
  <2>2. CASE ReadExecutions(j)
    <3>1. job[j].task \in ManualTasks
      BY <1>0, <2>2 DEF ReadExecutions, JobState, FreeJob
    <3> DEFINE s == Resolved(job[j].task, job[j].saw.ver)
               v == IF s = job[j].saw.state THEN FreeJob
                    ELSE [pc |-> "write", task |-> job[j].task, state |-> s]
    <3>2. s \in WorkflowStates
      BY ResolvedType
    <3>3. job' = [job EXCEPT ![j] = v] /\ UNCHANGED tangled
      BY <2>2 DEF ReadExecutions
    <3> HIDE DEF s
    <3>4. v \in JobState
      BY <1>1, <3>1, <3>2 DEF JobState
    <3> HIDE DEF v
    <3> QED BY <1>2, <3>3, <3>4
  <2>3. CASE PersistState(j)
    BY <1>1, <1>2, <2>3 DEF PersistState
  <2> QED BY <1>3, <2>1, <2>2, <2>3 DEF JobStep
<1>4. ASSUME NEW t \in Tasks, Launch(t)
      PROVE job' \in [StateJobs -> JobState] /\ tangled' \subseteq Tasks
  BY <1>0, <1>4, LaunchTyped
<1> QED BY <1>0, <1>3, <1>4, JobWriters

-----------------------------------------------------------------------------
(* Types of the loop.                                                      *)

\* Who writes the queue and the loop.
LEMMA LoopWriters ==
  ASSUME Typed, DraftsStep
  PROVE  \/ UNCHANGED <<queued, loop>>
         \/ LoopStep \/ PassFails
         \/ \E ps \in SUBSET Providers : Enqueue(ps)
<1>0. RuleTypes
  BY DEF Typed
<1> USE DEF vars
<1>1. CASE Elsewhere
  BY <1>1 DEF Elsewhere
<1>2. CASE \E j \in StateJobs : JobStep(j)
  BY <1>2 DEF JobStep, ReadTask, ReadExecutions, PersistState
<1>3. CASE \E t \in ManualTasks : TaskEdits(t)
  BY <1>3 DEF TaskEdits, CreateTask, AskUpdateTask, SaveTask, DeleteTask, RemoveTask, Providers
<1>4. ASSUME NEW e \in Editors, WriteRule(e)
      PROVE  UNCHANGED <<queued, loop>> \/ \E ps \in SUBSET Providers : Enqueue(ps)
  <2>1. EditRight(edit[e], rule)
    BY <1>0, <1>4 DEF WriteRule, RuleTypes
  <2>2. Touched(edit[e].old, edit[e].new) \subseteq Providers
    BY <2>1 DEF Touched, EditRight, ProperRule
  <2> QED BY <1>4, <2>2 DEF WriteRule
<1>5. ASSUME NEW r \in Rules, AskDeleteRule(r) PROVE UNCHANGED <<queued, loop>>
  BY <1>5 DEF AskDeleteRule, Asked
<1>6. ASSUME NEW r \in Rules, NEW dto \in RuleDtos, CreateRule(r, dto)
      PROVE  UNCHANGED <<queued, loop>> \/ \E ps \in SUBSET Providers : Enqueue(ps)
  <2>1. dto.provider \in Providers
    BY <1>6, CreatedProper, DraftsAssumption DEF CreateRule, ProperRule
  <2> QED BY <1>6, <2>1 DEF CreateRule
<1>7. ASSUME NEW r \in Rules, NEW dto \in Patches, AskUpdateRule(r, dto) PROVE UNCHANGED <<queued, loop>>
  BY <1>7 DEF AskUpdateRule, Asked
<1>8. CASE \E s \in Starters : StartEdits(s)
  BY <1>8 DEF StartEdits, Claim, Dispatch, DispatchFails, UndoStart, AskStart
<1>9. CASE \E n \in DOMAIN rows : Discard(n) \/ Settle(n)
  BY <1>9 DEF Discard, Settle
<1> QED BY <1>1, <1>2, <1>3, <1>4, <1>5, <1>6, <1>7, <1>8, <1>9 DEF DraftsStep, Next, TaskEdits, RuleEdits, StartEdits

\* A task as the loop reads it.
LEMMA ReadItem ==
  ASSUME Typed, NEW t \in Tasks
  PROVE  /\ Version(t) \in 0..MaxVersions /\ StatusOf(t) \in Statuses /\ ProviderOf(t) \in Providers
         /\ \A s : ItemAs(t, s) = ItemOf(t, Version(t), s)
<1>1. t \in ManualTasks => task[t] \in TaskState
  BY DEF Typed
<1>2. Version(t) \in 0..MaxVersions
  BY <1>1, DraftsAssumption DEF Version, TaskState, Tasks
<1>3. StatusOf(t) \in Statuses
  BY DEF StatusOf, Statuses
<1>4. ProviderOf(t) \in Providers
  BY DEF ProviderOf, Providers
<1> QED BY <1>2, <1>3, <1>4 DEF ItemAs, ItemOf

\* A rule as the loop reads it.
LEMMA ReadRules ==
  ASSUME RuleTypes
  PROVE  \A x \in ActiveRules : /\ LoadedRule(x) /\ x.value = rule[x.id]
                                /\ \A y \in ActiveRules : x.id = y.id => x = y
<1>1. ASSUME NEW x \in ActiveRules PROVE LoadedRule(x) /\ x.value = rule[x.id] /\ x = [id |-> x.id, value |-> rule[x.id]]
  <2>1. PICK r \in Rules : rule[r].enabled /\ x = [id |-> r, value |-> rule[r]]
    BY <1>1 DEF ActiveRules
  <2>2. ProperRule(rule[r])
    BY <2>1, EnabledType
  <2> QED BY <2>1, <2>2 DEF LoadedRule
<1> QED BY <1>1

\* The loop as it is started, or goes on after it gave a pass up.
RestingLoop(pc, ps) == [pc |-> pc, providers |-> ps, rules |-> {}, todo |-> {}, seen |-> {},
                        found |-> NoFind, stale |-> {}]

\* The loop is started with nothing read.
LEMMA Resting ==
  /\ IdleLoop = RestingLoop("idle", {})
  /\ [IdleLoop EXCEPT !.pc = "scheduled"] = RestingLoop("scheduled", {})
  /\ [IdleLoop EXCEPT !.pc = "again"] = RestingLoop("again", {})
  /\ \A ps \in SUBSET Providers : [IdleLoop EXCEPT !.pc = "rules", !.providers = ps] = RestingLoop("rules", ps)
<1>1. IdleLoop = RestingLoop("idle", {})
  BY DEF IdleLoop, RestingLoop
<1>2. [IdleLoop EXCEPT !.pc = "scheduled"] = RestingLoop("scheduled", {})
  BY DEF IdleLoop, RestingLoop
<1>3. [IdleLoop EXCEPT !.pc = "again"] = RestingLoop("again", {})
  BY DEF IdleLoop, RestingLoop
<1>4. ASSUME NEW ps \in SUBSET Providers PROVE [IdleLoop EXCEPT !.pc = "rules", !.providers = ps] = RestingLoop("rules", ps)
  <2>1. [IdleLoop EXCEPT !.pc = "rules"] = RestingLoop("rules", {})
    BY DEF IdleLoop, RestingLoop
  <2>2. [RestingLoop("rules", {}) EXCEPT !.providers = ps] = RestingLoop("rules", ps)
    BY DEF RestingLoop
  <2> QED BY <2>1, <2>2
<1> QED BY <1>1, <1>2, <1>3, <1>4

\* Such a loop keeps its type.
LEMMA RestingTyped ==
  ASSUME NEW pc \in {"idle", "scheduled", "rules", "again"}, NEW ps \in SUBSET Providers, RowTypes',
         loop' = RestingLoop(pc, ps), queued' \subseteq Providers, pc = "idle" => queued' = {}
  PROVE  LoopTypes'
<1>1. /\ loop' = [pc |-> pc, providers |-> ps, rules |-> {}, todo |-> {}, seen |-> {}, found |-> 0, stale |-> {}]
  BY DEF RestingLoop, NoFind
<1>2. 0 \in 0..Len(rows')
  BY DEF RowTypes
<1> QED BY <1>1, <1>2 DEF LoopTypes, Scheduled, LoopSteps

\* The loop and its queue keep their types.
LEMMA LoopTyped ==
  ASSUME Typed, DraftsStep
  PROVE  LoopTypes'
<1>0. LoopTypes /\ RuleTypes /\ RowTypes /\ RowsKept
  BY RowsStep DEF Typed
<1>1. RowTypes' /\ 0..Len(rows) \subseteq 0..Len(rows') /\ 0 \in 0..Len(rows)
  BY <1>0 DEF RowsKept, RowTypes
<1>2. ASSUME UNCHANGED <<queued, loop>> PROVE LoopTypes'
  <2>1. Drafts(MatchOf(Item))' <=> Drafts(MatchOf(Item))
    BY <1>2 DEF MatchOf, Item
  <2> QED BY <1>0, <1>1, <1>2, <2>1 DEF LoopTypes, Scheduled
<1>3. ASSUME NEW ps \in SUBSET Providers, Enqueue(ps) PROVE LoopTypes'
  <2>1. CASE Scheduled
    <3>1. Drafts(MatchOf(Item))' <=> Drafts(MatchOf(Item))
      BY <1>3, <2>1 DEF MatchOf, Item, Enqueue
    <3> QED BY <1>0, <1>1, <1>3, <2>1, <3>1 DEF LoopTypes, Enqueue, Scheduled
  <2>2. CASE ~Scheduled
    <3>1. loop' = RestingLoop("scheduled", {}) /\ queued' \subseteq Providers
      BY <1>0, <1>3, <2>2, Resting DEF Enqueue, LoopTypes
    <3> QED BY <1>1, <3>1, RestingTyped
  <2> QED BY <2>1, <2>2
<1>4. CASE PassFails
  <2>1. loop' = RestingLoop("again", {}) /\ queued' \subseteq Providers
    BY <1>0, <1>4, Resting DEF PassFails, LoopTypes
  <2> QED BY <1>1, <2>1, RestingTyped
<1>5. CASE Drain
  <2>1. queued' = {} /\ queued \subseteq Providers
    BY <1>0, <1>5 DEF Drain, Drained, LoopTypes
  <2>2. queued = {} \/ queued \in SUBSET Providers
    BY <2>1
  <2>3. \/ loop' = RestingLoop("idle", {})
        \/ loop' = RestingLoop("rules", queued)
    BY <1>5, <2>2, Resting DEF Drain
  <2> QED BY <1>1, <2>1, <2>3, RestingTyped
<1>6. CASE LoadRules
  <2>1. /\ loop' = [loop EXCEPT !.pc = "tasks", !.rules = ActiveRules] /\ UNCHANGED <<queued, rows>>
        /\ loop.pc = "rules"
    BY <1>6 DEF LoadRules
  <2>2. \A x \in ActiveRules : LoadedRule(x) /\ \A y \in ActiveRules : x.id = y.id => x = y
    BY <1>0, ReadRules
  <2> QED BY <1>0, <2>1, <2>2 DEF LoopTypes, Scheduled, LoopSteps
<1>7. CASE LoadTasks
  <2> DEFINE ts == {t \in Tasks : Here(t) /\ ProviderOf(t) \in loop.providers}
             items == {ItemAs(t, StatusOf(t)) : t \in ts}
  <2>1. /\ loop' = [loop EXCEPT !.pc = "each", !.seen = ts, !.todo = items] /\ UNCHANGED <<queued, rows>>
        /\ loop.pc = "tasks"
    BY <1>7 DEF LoadTasks
  <2>2. ASSUME NEW i \in items
        PROVE  /\ i.task \in ts /\ i.ver \in 0..MaxVersions /\ i.status \in Statuses
               /\ i = ItemOf(i.task, i.ver, i.status)
               /\ i = ItemAs(i.task, StatusOf(i.task))
    <3>1. PICK t \in ts : i = ItemAs(t, StatusOf(t))
      BY <2>2
    <3>2. i = ItemOf(t, Version(t), StatusOf(t)) /\ Version(t) \in 0..MaxVersions /\ StatusOf(t) \in Statuses
      BY <3>1, ReadItem
    <3>3. i.task = t /\ i.ver = Version(t) /\ i.status = StatusOf(t)
      BY <3>2 DEF ItemOf
    <3> QED BY <3>1, <3>2, <3>3
  <2> HIDE DEF items
  <2>3. \A i, k \in items : i.task = k.task => i = k
    BY <2>2
  <2> QED BY <1>0, <2>1, <2>2, <2>3 DEF LoopTypes, Scheduled, LoopSteps
<1>8. ASSUME loop' = ItemDone, UNCHANGED queued, loop.pc \in {"each", "refresh"} PROVE LoopTypes'
  BY <1>0, <1>1, <1>8 DEF ItemDone, LoopTypes, Scheduled, LoopSteps, NoFind
<1>9. CASE FindDraft
  <2>1. PICK x \in MatchOf(Item) :
          LET own == {n \in DOMAIN rows : Ready(n) /\ rows[n].task = Item.task
                                       /\ rows[n].rule = x.id
                                       /\ rows[n].repo = x.value.repositoryId}
          IN  loop' = [loop EXCEPT !.pc = "refresh", !.found = Max(own \cup {NoFind})]
    BY <1>9 DEF FindDraft
  <2> DEFINE own == {n \in DOMAIN rows : Ready(n) /\ rows[n].task = Item.task
                                       /\ rows[n].rule = x.id
                                       /\ rows[n].repo = x.value.repositoryId}
             S == own \cup {NoFind}
  <2>2. Max(S) \in 0..Len(rows)
    <3>1. Len(rows) \in Nat /\ S \subseteq 0..Len(rows) /\ S # {}
      BY <1>0 DEF RowTypes, NoFind
    <3> HIDE DEF S
    <3> QED BY <3>1, HasMax
  <2>3. loop' = [loop EXCEPT !.pc = "refresh", !.found = Max(S)]
    BY <2>1
  <2>4. loop.pc = "each" /\ loop.todo # {} /\ Drafts(MatchOf(Item)) /\ UNCHANGED <<queued, rows>>
    BY <1>9 DEF FindDraft
  <2> HIDE DEF S
  <2>5. Drafts(MatchOf(Item))' <=> Drafts(MatchOf(Item))
    <3>1. loop'.todo = loop.todo /\ loop'.rules = loop.rules
      BY <1>0, <2>3 DEF LoopTypes
    <3> QED BY <3>1 DEF MatchOf, Item
  <2> QED BY <1>0, <2>2, <2>3, <2>4, <2>5 DEF LoopTypes, Scheduled, LoopSteps
<1>10. CASE ListStale
  <2> DEFINE stale == {rows[n].task : n \in {m \in DOMAIN rows :
                     Ready(m) /\ ProviderOf(rows[m].task) \in loop.providers}} \ loop.seen
  <2>1. stale \subseteq Tasks
    BY RowType
  <2>2. /\ loop' = [loop EXCEPT !.pc = IF stale = {} THEN "again" ELSE "stale", !.stale = stale]
        /\ UNCHANGED <<queued, rows>> /\ loop.pc = "each"
    BY <1>10 DEF ListStale
  <2> HIDE DEF stale
  <2> QED BY <1>0, <2>1, <2>2 DEF LoopTypes, Scheduled, LoopSteps
<1>11. CASE SupersedeStale
  <2>1. loop' = [loop EXCEPT !.pc = "again"] /\ UNCHANGED queued /\ loop.pc = "stale"
    BY <1>11 DEF SupersedeStale
  <2> QED BY <1>0, <1>1, <2>1 DEF LoopTypes, Scheduled, LoopSteps
<1>12. CASE NoMatch \/ RefreshDraft
  BY <1>8, <1>12 DEF NoMatch, RefreshDraft
<1> QED BY <1>2, <1>3, <1>4, <1>5, <1>6, <1>7, <1>9, <1>10, <1>11, <1>12, LoopWriters DEF LoopStep

-----------------------------------------------------------------------------
(* All types.                                                              *)

\* The initial states have them.
LEMMA TypesInit == Init => Typed
<1> SUFFICES ASSUME Init PROVE Typed
  OBVIOUS
<1>1. task \in [ManualTasks -> TaskState]
  BY DraftsAssumption DEF Init, NewTask, TaskState, WorkflowStates
<1>2. RuleTypes
  <2>1. \A r \in Rules : There(r) => ProperRule(rule[r])
    <3> SUFFICES ASSUME NEW r \in Rules, There(r) PROVE ProperRule(rule[r])
      OBVIOUS
    <3>1. rule[r] # NoRule
      BY DEF There
    <3>2. PICK dto \in RuleDtos : rule[r] = Created(dto) /\ Valid(rule[r])
      BY <3>1 DEF Init
    <3> QED BY <3>1, <3>2, CreatedProper, DraftsAssumption
  <2> QED BY <2>1, Zenon DEF Init, RuleTypes
<1>3. RowTypes /\ Len(rows) = 0
  BY DraftsAssumption DEF Init, RowTypes
<1>4. LoopTypes
  BY <1>3 DEF Init, IdleLoop, LoopTypes, LoopSteps, Scheduled, NoFind
<1>5. StartTypes
  BY <1>3, DraftsAssumption DEF Init, IdleStart, StartTypes, StartState
<1>6. job \in [StateJobs -> JobState]
  BY DEF Init, JobState
<1> QED BY <1>1, <1>2, <1>3, <1>4, <1>5, <1>6, DraftsAssumption DEF Init, Typed

\* Who writes what else there is.
LEMMA TakenWriters ==
  ASSUME DraftsStep
  PROVE  UNCHANGED taken \/ RefreshDraft \/ (\E n \in DOMAIN rows : Took(n)) \/ \E s \in Starters : Claim(s)
<1> USE DEF vars
<1>1. CASE Elsewhere
  BY <1>1 DEF Elsewhere
<1>2. CASE LoopStep \/ PassFails
  BY <1>2 DEF LoopStep, PassFails, Drain, LoadRules, LoadTasks, NoMatch, FindDraft, ListStale, SupersedeStale
<1>3. CASE \E j \in StateJobs : JobStep(j)
  BY <1>3 DEF JobStep, ReadTask, ReadExecutions, PersistState
<1>4. CASE \E t \in ManualTasks : TaskEdits(t)
  BY <1>4 DEF TaskEdits, CreateTask, AskUpdateTask, SaveTask, DeleteTask, RemoveTask
<1>5. CASE RuleEdits
  BY <1>5 DEF RuleEdits, WriteRule, AskDeleteRule, Asked, CreateRule, AskUpdateRule
<1>6. CASE \E s \in Starters : \/ Dispatch(s) \/ DispatchFails(s) \/ UndoStart(s)
                               \/ \E n \in DOMAIN rows : AskStart(s, n)
  BY <1>6 DEF Dispatch, DispatchFails, UndoStart, AskStart
<1>7. CASE \E n \in DOMAIN rows : Discard(n) \/ Settle(n)
  BY <1>7 DEF Discard, Settle
<1> QED BY <1>1, <1>2, <1>3, <1>4, <1>5, <1>6, <1>7 DEF DraftsStep, Next, TaskEdits, RuleEdits, StartEdits

\* Changes and faults are counted one by one.
LEMMA CountWriters ==
  ASSUME DraftsStep
  PROVE  (UNCHANGED changes \/ Change) /\ (UNCHANGED faults \/ \E kind \in FaultKinds : Fault(kind))
<1> USE DEF vars
<1>1. CASE Elsewhere
  BY <1>1 DEF Elsewhere
<1>2. CASE LoopStep \/ PassFails
  BY <1>2 DEF LoopStep, PassFails, Drain, LoadRules, LoadTasks, NoMatch, FindDraft, RefreshDraft,
     ListStale, SupersedeStale, FaultKinds
<1>3. CASE \E j \in StateJobs : JobStep(j)
  BY <1>3 DEF JobStep, ReadTask, ReadExecutions, PersistState
<1>4. CASE \E t \in ManualTasks : TaskEdits(t)
  BY <1>4 DEF TaskEdits, CreateTask, AskUpdateTask, SaveTask, DeleteTask, RemoveTask
<1>5. CASE RuleEdits
  BY <1>5 DEF RuleEdits, WriteRule, AskDeleteRule, Asked, CreateRule, AskUpdateRule
<1>6. CASE \E s \in Starters : StartEdits(s)
  BY <1>6 DEF StartEdits, Claim, Dispatch, DispatchFails, UndoStart, AskStart, FaultKinds
<1>7. CASE \E n \in DOMAIN rows : Discard(n) \/ Settle(n)
  BY <1>7 DEF Discard, Settle, FaultKinds
<1> QED BY <1>1, <1>2, <1>3, <1>4, <1>5, <1>6, <1>7 DEF DraftsStep, Next, TaskEdits, RuleEdits, StartEdits

\* Every step keeps them.
LEMMA TypesStep ==
  ASSUME Typed, DraftsStep
  PROVE  Typed'
<1> USE DEF Typed
<1>1. taken' \subseteq Tasks
  <2>1. \A n \in DOMAIN rows : rows[n].task \in Tasks
    BY RowType
  <2>2. CASE UNCHANGED taken
    BY <2>2
  <2>3. CASE RefreshDraft
    BY <2>3 DEF RefreshDraft
  <2>4. ASSUME NEW n \in DOMAIN rows, Took(n) PROVE taken' \subseteq Tasks
    BY <2>1, <2>4 DEF Took
  <2>5. ASSUME NEW s \in Starters, Claim(s) PROVE taken' \subseteq Tasks
    BY <2>4, <2>5 DEF Claim, StartTypes
  <2> QED BY <2>2, <2>3, <2>4, <2>5, TakenWriters
<1>2. changes' \in 0..MaxChanges
  <2>1. CASE UNCHANGED changes
    BY <2>1
  <2>2. CASE Change
    BY <2>2, DraftsAssumption DEF Change
  <2> QED BY <2>1, <2>2, CountWriters
<1>3. faults' \in 0..MaxFaults
  <2>1. CASE UNCHANGED faults
    BY <2>1
  <2>2. ASSUME NEW kind, Fault(kind) PROVE faults' \in 0..MaxFaults
    BY <2>2, DraftsAssumption DEF Fault
  <2> QED BY <2>1, <2>2, CountWriters
<1>4. RowTypes'
  BY RowsStep DEF RowsKept, RowTypes
<1> QED BY <1>1, <1>2, <1>3, <1>4, TaskTyped, RuleTyped, StartTyped, JobTyped, LoopTyped

\* They are what the type invariant says.
LEMMA TypesAre ==
  ASSUME Typed PROVE TypeOK
<1>1. task \in [ManualTasks -> [here : {"no", "yes", "leaving", "gone"}, ver : 0..MaxVersions,
                             state : WorkflowStates, next : 0..MaxVersions]]
  BY DEF Typed, TaskState
<1>2. \A r \in Rules : There(r) => Valid(rule[r])
  BY DEF Typed, RuleTypes, ProperRule
<1>3. /\ Len(rows) <= MaxRows
      /\ \A n \in DOMAIN rows :
           rows[n] \in [task : Tasks, rule : Rules, does : Actions, repo : STRING, ver : 0..MaxVersions,
                  draft : {"ready", "superseded", "none"},
                  run : {"none", "active", "done", "failed"}, jobs : Nat, lost : Nat]
  BY RowType DEF Typed, RowTypes, RowState
<1>4. /\ queued \subseteq Providers
      /\ loop.pc \in {"idle", "scheduled", "rules", "tasks", "each", "refresh", "stale", "again"}
      /\ queued # {} => Scheduled
  BY DEF Typed, LoopTypes, LoopSteps
<1>5. \A s \in Starters : start[s].pc \in {"idle", "claim", "dispatch", "undo"} /\ start[s].row \in 0..Len(rows)
  BY DEF Typed, StartTypes, StartState
<1> QED BY <1>1, <1>2, <1>3, <1>4, <1>5 DEF Typed, TypeOK

\* The tasks, rules, rows and programs keep their types.
THEOREM DraftTypes == Spec => []TypeOK
<1>1. Init => Typed
  BY TypesInit
<1>2. Typed /\ [Next]_vars => Typed'
  BY TypesStep DEF DraftsStep
<1>3. Typed => TypeOK
  BY TypesAre
<1> QED BY <1>1, <1>2, <1>3, PTL DEF Spec

-----------------------------------------------------------------------------
(* Starts.                                                                 *)

\* A step that supersedes drafts, or inserts one.
Superseding ==
  /\ \A n \in DOMAIN rows :
       rows'[n] = rows[n] \/ (Ready(n) /\ rows'[n] = [rows[n] EXCEPT !.draft = "superseded"])
  /\ \A n \in DOMAIN rows' \ DOMAIN rows :
       /\ rows'[n].draft = "ready" /\ rows'[n].run = "none" /\ rows'[n].jobs = 0 /\ rows'[n].lost = 0
  /\ UNCHANGED <<start, sent>>

\* These are such steps.
LEMMA SupersedingSteps ==
  ASSUME Typed, NoMatch \/ RefreshDraft \/ SupersedeStale \/ (\E t \in ManualTasks : DeleteTask(t))
                \/ (\E n \in DOMAIN rows : Discard(n))
  PROVE  Superseding /\ RowsKept
<1>1. CASE NoMatch \/ SupersedeStale \/ \E t \in ManualTasks : DeleteTask(t)
  <2>1. \E ts : rows' = Superseded(rows, ts, NoFind)
    BY <1>1 DEF NoMatch, SupersedeStale, DeleteTask
  <2>2. UNCHANGED <<start, sent>>
    BY <1>1 DEF NoMatch, SupersedeStale, DeleteTask
  <2> QED BY <2>1, <2>2, SupersedingKeeps DEF Superseding
<1>2. CASE RefreshDraft
  <2>1. UNCHANGED <<start, sent>>
    BY <1>2 DEF RefreshDraft
  <2>2. \A x : /\ Draft(Item, x).draft = "ready" /\ Draft(Item, x).run = "none"
               /\ Draft(Item, x).jobs = 0 /\ Draft(Item, x).lost = 0
    BY DEF Draft
  <2> QED BY <1>2, <2>1, <2>2, RefreshingKeeps DEF Superseding
<1>3. ASSUME NEW n \in DOMAIN rows, Discard(n) PROVE Superseding /\ RowsKept
  <2>1. rows[n] \in RowState /\ rows \in Seq(RowState)
    BY RowType DEF Typed, RowTypes
  <2>2. rows' = [rows EXCEPT ![n].draft = "superseded"] /\ Ready(n)
    BY <1>3 DEF Discard
  <2>3. RowsKept /\ DOMAIN rows' = DOMAIN rows
    BY <2>2, EditSteps DEF Edited
  <2>4. rows'[n] = [rows[n] EXCEPT !.draft = "superseded"] /\ \A m \in DOMAIN rows : m # n => rows'[m] = rows[m]
    BY <2>1, <2>2
  <2> QED BY <1>3, <2>2, <2>3, <2>4 DEF Discard, Superseding
<1> QED BY <1>1, <1>2, <1>3

\* A fault is counted for ever.
LEMMA FaultsCount ==
  ASSUME Typed, DraftsStep, faults' = 0
  PROVE  faults = 0 /\ \A kind : ~Fault(kind)
<1>1. faults \in Nat
  BY DraftsAssumption DEF Typed
<1>2. ASSUME NEW kind, Fault(kind) PROVE FALSE
  BY <1>1, <1>2 DEF Fault
<1> QED BY <1>2, CountWriters

\* Every step keeps the invariant of the starts.
LEMMA StartsStep ==
  ASSUME Typed, StartInv, DraftsStep
  PROVE  StartInv'
<1>0. /\ StartTypes /\ sent \in [1..MaxRows -> Nat] /\ DOMAIN rows \subseteq 1..MaxRows /\ RowsKept
      /\ DOMAIN rows' \subseteq 1..MaxRows /\ DOMAIN rows \subseteq DOMAIN rows'
  BY DraftsAssumption, RowsStep DEF Typed, RowTypes, RowsKept
<1>1. \A n \in DOMAIN rows : rows[n] \in RowState
  BY RowType
<1>2. \A n \in DOMAIN rows : sent[n] \in Nat /\ rows[n].jobs \in Nat /\ rows[n].lost \in Nat
  BY <1>0, <1>1 DEF RowState
<1>3. faults' = 0 => faults = 0
  BY FaultsCount
<1>4. \A u \in Starters : Holds(u) => start[u].row \in DOMAIN rows
  BY <1>0 DEF Holds, StartTypes
<1> USE DEF StartInv
<1>5. ASSUME \A u \in Starters : start'[u].pc \in {"dispatch", "undo"} =>
               LET m == start[u].row IN
                 /\ start'[u].row = m /\ start[u].pc \in {"dispatch", "undo"}
                 /\ rows'[m].draft = "none" /\ sent'[m] = rows'[m].lost
                 /\ rows'[m].lost = 0 => rows'[m].run = "active"
      PROVE  ClaimedRows'
  BY <1>5 DEF ClaimedRows, Holds
<1>6. ASSUME NEW n \in DOMAIN rows, NEW d, NEW r, NEW j \in Nat, NEW l \in Nat, NEW k \in Nat,
             Edited(n, d, r, j, l), sent'[n] = k, \A m \in 1..MaxRows : m # n => sent'[m] = sent[m],
             k <= l + 1, k > l => d = "none", d = "none" => r # "none",
             l = 0 /\ r # "none" => d = "none", j <= k, l <= k, faults' = 0 => l = 0
      PROVE  /\ StartedOnce' /\ DraftOrRun' /\ Entries' /\ NotSentYet'
             /\ faults' = 0 => \A m \in DOMAIN rows' : rows'[m].lost = 0
  <2>1. /\ DOMAIN rows' = DOMAIN rows
        /\ rows'[n].draft = d /\ rows'[n].run = r /\ rows'[n].jobs = j /\ rows'[n].lost = l
        /\ \A m \in DOMAIN rows : m # n => rows'[m] = rows[m] /\ sent'[m] = sent[m]
    BY <1>0, <1>6 DEF Edited
  <2>2. StartedOnce'
    BY <1>6, <2>1 DEF StartedOnce
  <2>3. DraftOrRun'
    BY <1>6, <2>1 DEF DraftOrRun
  <2>4. Entries'
    BY <1>6, <2>1 DEF Entries
  <2>5. NotSentYet'
    BY <1>6, <2>1 DEF NotSentYet
  <2>6. faults' = 0 => \A m \in DOMAIN rows' : rows'[m].lost = 0
    BY <1>3, <1>6, <2>1 DEF NoneLost
  <2> QED BY <2>2, <2>3, <2>4, <2>5, <2>6
<1>7. CASE UNCHANGED <<rows, start, sent>>
  BY <1>3, <1>7 DEF StartedOnce, DraftOrRun, ClaimedRows, Holds, Entries, NoneLost, NotSentYet
<1>8. CASE NoMatch \/ RefreshDraft \/ SupersedeStale \/ (\E t \in ManualTasks : DeleteTask(t))
           \/ (\E n \in DOMAIN rows : Discard(n))
  <2>1. Superseding
    BY <1>8, SupersedingSteps
  <2>2. ASSUME NEW n \in DOMAIN rows
        PROVE  /\ rows'[n].run = rows[n].run /\ rows'[n].jobs = rows[n].jobs /\ rows'[n].lost = rows[n].lost
               /\ rows[n].draft = "none" <=> rows'[n].draft = "none"
    <3>1. rows[n] \in RowState
      BY <1>1
    <3> QED BY <2>1, <3>1 DEF Superseding, Ready, RowState
  <2>3. /\ UNCHANGED <<start, sent>>
        /\ \A n \in DOMAIN rows' \ DOMAIN rows :
             rows'[n].draft = "ready" /\ rows'[n].run = "none" /\ rows'[n].jobs = 0 /\ rows'[n].lost = 0
    BY <2>1 DEF Superseding
  <2>4. \A n \in DOMAIN rows' \ DOMAIN rows : sent'[n] = 0
    BY <1>0, <2>3 DEF NotSentYet
  <2>5. StartedOnce'
    BY <1>0, <1>2, <2>2, <2>3, <2>4 DEF StartedOnce
  <2>6. DraftOrRun'
    BY <1>0, <2>2, <2>3 DEF DraftOrRun
  <2>7. ClaimedRows'
    BY <1>0, <1>4, <1>5, <2>2, <2>3 DEF ClaimedRows, Holds
  <2>8. Entries'
    BY <1>0, <1>2, <2>2, <2>3, <2>4 DEF Entries
  <2>9. NoneLost' /\ NotSentYet'
    BY <1>0, <1>3, <2>2, <2>3 DEF NoneLost, NotSentYet
  <2> QED BY <2>5, <2>6, <2>7, <2>8, <2>9
<1>9. ASSUME NEW n \in DOMAIN rows, Settle(n) PROVE StartInv'
  <2>1. PICK r \in {"done", "failed"} : rows' = [rows EXCEPT ![n].run = r, ![n].jobs = @ - 1]
    BY <1>9 DEF Settle
  <2>2. UNCHANGED <<start, sent>> /\ rows[n].jobs > 0 /\ rows[n].jobs \in Nat
    BY <1>2, <1>9 DEF Settle
  <2>3. Edited(n, rows[n].draft, r, rows[n].jobs - 1, rows[n].lost)
    BY <2>1, <2>2, EditSteps
  <2>4. rows[n].lost = 0 => rows[n].draft = "none"
    BY <1>2, <2>2 DEF StartedOnce, Entries
  <2>5. /\ rows[n].jobs - 1 \in Nat /\ rows[n].jobs - 1 <= sent[n] /\ rows[n].lost <= sent[n]
        /\ sent[n] <= rows[n].lost + 1 /\ (sent[n] > rows[n].lost => rows[n].draft = "none")
        /\ faults' = 0 => rows[n].lost = 0
    BY <1>2, <1>3, <2>2 DEF StartedOnce, Entries, NoneLost
  <2>6. /\ StartedOnce' /\ DraftOrRun' /\ Entries' /\ NotSentYet'
        /\ faults' = 0 => \A m \in DOMAIN rows' : rows'[m].lost = 0
    BY <1>2, <1>6, <2>2, <2>3, <2>4, <2>5
  <2>7. ClaimedRows'
    <3>1. ASSUME NEW u \in Starters, start[u].pc \in {"dispatch", "undo"}, start[u].row = n
          PROVE  rows[n].draft = "none" /\ sent[n] = rows[n].lost /\ rows[n].lost # 0
      BY <1>2, <2>2, <3>1 DEF ClaimedRows, Holds, Entries
    <3> QED BY <1>4, <1>5, <2>2, <2>3, <3>1 DEF Edited, ClaimedRows, Holds
  <2>8. NoneLost'
    BY <1>3, <2>2, <2>6 DEF NoneLost
  <2> QED BY <2>6, <2>7, <2>8
<1>10. ASSUME NEW s \in Starters, Claim(s) PROVE StartInv'
  <2>1. UNCHANGED <<sent, faults>> /\ start[s].pc = "claim" /\ start[s].row \in DOMAIN rows /\ start[s] \in StartState
    BY <1>0, <1>10 DEF Claim, StartTypes
  <2>2. ASSUME UNCHANGED rows, start' = [start EXCEPT ![s] = IdleStart] PROVE StartInv'
    <3>1. \A u \in Starters : start'[u].pc \in {"dispatch", "undo"} => start'[u] = start[u]
      BY <1>0, <2>2 DEF StartTypes, IdleStart
    <3> QED BY <2>1, <2>2, <3>1 DEF StartedOnce, DraftOrRun, ClaimedRows, Holds, Entries, NoneLost, NotSentYet
  <2>3. ASSUME Startable(start[s].row),
               rows' = [rows EXCEPT ![start[s].row].draft = "none", ![start[s].row].run = "active"],
               start' = [start EXCEPT ![s].pc = "dispatch"]
        PROVE StartInv'
    <3>1. PICK n \in DOMAIN rows : n = start[s].row
      BY <2>1
    <3>2. rows[n].draft = "ready" /\ rows[n].run = "none"
      BY <2>3, <3>1 DEF Startable, Ready
    <3>3. Edited(n, "none", "active", rows[n].jobs, rows[n].lost)
      BY <2>3, <3>1, EditSteps
    <3>4. start'[s].pc = "dispatch" /\ start'[s].row = n /\ \A u \in Starters : u # s => start'[u] = start[u]
      BY <1>0, <2>1, <2>3, <3>1 DEF StartTypes, StartState
    <3>5. sent[n] = rows[n].lost
      BY <1>2, <3>2 DEF StartedOnce, Entries
    <3>6. \A u \in Starters : start[u].pc \in {"dispatch", "undo"} => start[u].row # n /\ start[u].row \in DOMAIN rows
      BY <1>4, <3>2 DEF ClaimedRows, Holds
    <3>7. /\ StartedOnce' /\ DraftOrRun' /\ Entries' /\ NotSentYet'
          /\ faults' = 0 => \A m \in DOMAIN rows' : rows'[m].lost = 0
      <4>1. /\ rows[n].jobs \in Nat /\ rows[n].lost \in Nat /\ sent[n] \in Nat
            /\ rows[n].jobs <= sent[n] /\ (faults' = 0 => rows[n].lost = 0)
            /\ sent'[n] = sent[n] /\ \A m \in 1..MaxRows : m # n => sent'[m] = sent[m]
        BY <1>2, <1>3, <2>1 DEF Entries, NoneLost
      <4>2. sent[n] <= rows[n].lost + 1 /\ ~(sent[n] > rows[n].lost) /\ rows[n].lost <= sent[n]
        BY <3>5, <4>1
      <4> QED BY <1>6, <3>3, <4>1, <4>2
    <3>8. ClaimedRows'
      <4>1. ASSUME NEW u \in Starters, start'[u].pc \in {"dispatch", "undo"}
            PROVE  LET row == rows'[start'[u].row] IN
                     /\ row.draft = "none" /\ (row.lost = 0 => row.run = "active")
                     /\ sent'[start'[u].row] = row.lost
                     /\ u # s => start'[u].row # n /\ start'[u] = start[u]
        BY <2>1, <3>3, <3>4, <3>5, <3>6, <4>1 DEF Edited, ClaimedRows, Holds
      <4> QED BY <3>4, <4>1 DEF ClaimedRows, Holds
    <3>9. NoneLost'
      BY <1>3, <3>4, <3>7 DEF NoneLost
    <3> QED BY <3>7, <3>8, <3>9
  <2> QED BY <1>10, <2>2, <2>3 DEF Claim
<1>11. ASSUME NEW s \in Starters, Dispatch(s) \/ UndoStart(s) PROVE StartInv'
  <2>1. PICK n \in DOMAIN rows : n = start[s].row
    BY <1>0, <1>11 DEF Dispatch, UndoStart, StartTypes
  <2>2. start' = [start EXCEPT ![s] = IdleStart] /\ start[s].pc \in {"dispatch", "undo"} /\ UNCHANGED faults
    BY <1>11 DEF Dispatch, UndoStart
  <2>3. sent[n] = rows[n].lost /\ rows[n].draft = "none" /\ n \in 1..MaxRows
    BY <1>0, <2>1, <2>2 DEF ClaimedRows, Holds
  <2>4. /\ \A u \in Starters : start'[u].pc # "idle" => u # s /\ start'[u] = start[u]
        /\ \A u \in Starters : u # s /\ start[u].pc \in {"dispatch", "undo"} => start[u].row # n
    BY <1>0, <2>1, <2>2 DEF StartTypes, IdleStart, ClaimedRows, Holds
  <2>5. rows[n].jobs <= sent[n] /\ (faults' = 0 => rows[n].lost = 0) /\ rows[n].run # "none"
    BY <1>3, <2>3 DEF Entries, NoneLost, DraftOrRun
  <2>6. CASE Dispatch(s)
    <3>1. Edited(n, rows[n].draft, rows[n].run, rows[n].jobs + 1, rows[n].lost)
      BY <2>1, <2>6, EditSteps DEF Dispatch
    <3>2. sent'[n] = sent[n] + 1 /\ \A m \in 1..MaxRows : m # n => sent'[m] = sent[m]
      BY <1>0, <2>1, <2>3, <2>6 DEF Dispatch
    <3>3. rows[n].jobs + 1 \in Nat /\ sent[n] + 1 \in Nat /\ rows[n].jobs + 1 <= sent[n] + 1
          /\ sent[n] + 1 <= rows[n].lost + 1 /\ rows[n].lost <= sent[n] + 1 /\ rows[n].lost \in Nat
      BY <1>2, <2>3, <2>5
    <3>4. /\ StartedOnce' /\ DraftOrRun' /\ Entries' /\ NotSentYet'
          /\ faults' = 0 => \A m \in DOMAIN rows' : rows'[m].lost = 0
      BY <1>6, <2>3, <2>5, <3>1, <3>2, <3>3
    <3>5. ClaimedRows'
      BY <1>0, <1>4, <1>5, <2>4, <3>1, <3>2 DEF Edited, ClaimedRows, Holds
    <3>6. NoneLost'
      BY <1>3, <2>4, <3>4 DEF NoneLost
    <3> QED BY <3>4, <3>5, <3>6
  <2>7. CASE UndoStart(s)
    <3>1. Edited(n, "ready", "none", rows[n].jobs, rows[n].lost)
      BY <2>1, <2>7, EditSteps DEF UndoStart
    <3>2. UNCHANGED sent
      BY <2>7 DEF UndoStart
    <3>4. /\ StartedOnce' /\ DraftOrRun' /\ Entries' /\ NotSentYet'
          /\ faults' = 0 => \A m \in DOMAIN rows' : rows'[m].lost = 0
      BY <1>2, <1>6, <2>3, <2>5, <3>1, <3>2
    <3>5. ClaimedRows'
      BY <1>0, <1>4, <1>5, <2>4, <3>1, <3>2 DEF Edited, ClaimedRows, Holds
    <3>6. NoneLost'
      BY <1>3, <2>4, <3>4 DEF NoneLost
    <3> QED BY <3>4, <3>5, <3>6
  <2> QED BY <1>11, <2>6, <2>7
<1>12. ASSUME NEW s \in Starters, DispatchFails(s) PROVE StartInv'
  <2>1. PICK n \in DOMAIN rows : n = start[s].row
    BY <1>0, <1>12 DEF DispatchFails, StartTypes
  <2>2. /\ start' = [start EXCEPT ![s].pc = "undo"] /\ start[s].pc = "dispatch" /\ start[s] \in StartState
        /\ faults' # 0
    BY <1>0, <1>12, DraftsAssumption DEF DispatchFails, Fault, StartTypes, Typed
  <2>3. sent[n] = rows[n].lost /\ rows[n].draft = "none" /\ n \in 1..MaxRows /\ (rows[n].lost = 0 => rows[n].run = "active")
    BY <1>0, <2>1, <2>2 DEF ClaimedRows, Holds
  <2>4. /\ start'[s].row = n /\ start'[s].pc = "undo"
        /\ \A u \in Starters : u # s => start'[u] = start[u]
        /\ \A u \in Starters : u # s /\ start[u].pc \in {"dispatch", "undo"} => start[u].row # n
    BY <1>0, <2>1, <2>2 DEF StartTypes, StartState, ClaimedRows, Holds
  <2>5. rows[n].jobs <= sent[n] /\ rows[n].run # "none"
    BY <2>3 DEF Entries, DraftOrRun
  <2>6. CASE UNCHANGED <<rows, sent>>
    <3>1. ClaimedRows'
      BY <1>5, <2>1, <2>2, <2>3, <2>4, <2>6 DEF ClaimedRows, Holds
    <3> QED BY <2>2, <2>6, <3>1 DEF StartedOnce, DraftOrRun, Entries, NoneLost, NotSentYet
  <2>7. CASE /\ sent' = [sent EXCEPT ![n] = @ + 1]
             /\ rows' = [rows EXCEPT ![n].jobs = @ + 1, ![n].lost = @ + 1]
    <3>1. Edited(n, rows[n].draft, rows[n].run, rows[n].jobs + 1, rows[n].lost + 1)
      BY <2>7, EditSteps
    <3>2. sent'[n] = sent[n] + 1 /\ \A m \in 1..MaxRows : m # n => sent'[m] = sent[m]
      BY <1>0, <2>3, <2>7
    <3>3. /\ rows[n].jobs + 1 \in Nat /\ sent[n] + 1 \in Nat /\ rows[n].lost + 1 \in Nat
          /\ rows[n].jobs + 1 <= sent[n] + 1 /\ sent[n] + 1 <= rows[n].lost + 1 + 1
          /\ rows[n].lost + 1 <= sent[n] + 1 /\ rows[n].lost + 1 # 0
      BY <1>2, <2>3, <2>5
    <3>4. StartedOnce' /\ DraftOrRun' /\ Entries' /\ NotSentYet'
      BY <1>6, <2>2, <2>3, <2>5, <3>1, <3>2, <3>3
    <3>5. ClaimedRows'
      <4>1. rows'[n].draft = "none" /\ sent'[n] = rows'[n].lost /\ rows'[n].lost # 0
        BY <2>3, <3>1, <3>2, <3>3 DEF Edited
      <4> QED BY <1>0, <1>4, <1>5, <2>1, <2>2, <2>4, <3>1, <3>2, <4>1 DEF Edited, ClaimedRows, Holds
    <3> QED BY <2>2, <3>4, <3>5 DEF NoneLost
  <2> QED BY <1>12, <2>1, <2>6, <2>7 DEF DispatchFails
<1>13. ASSUME NEW s \in Starters, NEW n \in DOMAIN rows, AskStart(s, n) PROVE StartInv'
  <2>1. UNCHANGED <<rows, sent, faults>> /\ start' = [start EXCEPT ![s] = [pc |-> "claim", row |-> n]]
    BY <1>13 DEF AskStart
  <2>2. \A u \in Starters : start'[u].pc \in {"dispatch", "undo"} => start'[u] = start[u]
    BY <1>0, <2>1 DEF StartTypes
  <2> QED BY <2>1, <2>2 DEF StartedOnce, DraftOrRun, ClaimedRows, Holds, Entries, NoneLost, NotSentYet
<1> QED BY <1>7, <1>8, <1>9, <1>10, <1>11, <1>12, <1>13, RowWriters DEF StartEdits

\* Nothing is started at first.
LEMMA StartsInit == Init => StartInv
  BY DEF Init, StartInv, StartedOnce, DraftOrRun, ClaimedRows, Holds, Entries, NoneLost, NotSentYet, IdleStart

\* Save the dispatches that threw after the queue had taken the entry, a draft is dispatched
\* once at most, and not after it was superseded (StartedOnce: the WHERE clause of
\* startDraftForUser and the catch block that undoes a start, against starts, discards and
\* reconciles at a time, and a worker that runs what was undone).
THEOREM StartedOnceHolds == Spec => []StartedOnce
<1>1. Init => Typed /\ StartInv
  BY TypesInit, StartsInit
<1>2. Typed /\ StartInv /\ [Next]_vars => (Typed /\ StartInv)'
  BY TypesStep, StartsStep DEF DraftsStep
<1>3. StartInv => StartedOnce
  BY DEF StartInv
<1> QED BY <1>1, <1>2, <1>3, PTL DEF Spec

-----------------------------------------------------------------------------
(* Rows and versions.                                                      *)

\* What a step may make of a manual task, unless it is the save of an update.
TaskMoves(t) ==
  /\ task'[t].here = "no" => task[t].here = "no"
  /\ task'[t].here \in {"yes", "leaving"} => \/ task[t].here = "no"
                                             \/ task[t].here \in {"yes", "leaving"} /\ task'[t].ver = task[t].ver
  /\ task[t].here = "gone" => task'[t].here = "gone"
  /\ task'[t].here = "yes" => task[t].here \in {"no", "yes"}
  /\ \/ task'[t].next \in {0, task[t].next}
     \/ Here(t) /\ task'[t].here = task[t].here /\ task'[t].next = task[t].ver + 1

\* It makes no more of it.
LEMMA TaskSteps ==
  ASSUME Typed, DraftsStep, NEW t \in ManualTasks
  PROVE  SaveTask(t) \/ TaskMoves(t)
<1>0. task \in [ManualTasks -> TaskState] /\ task[t] \in TaskState /\ task[t].ver \in Nat
  BY DraftsAssumption DEF Typed, TaskState
<1>1. ASSUME task'[t].here = task[t].here, task'[t].ver = task[t].ver, task'[t].next = task[t].next
      PROVE  TaskMoves(t)
  BY <1>0, <1>1 DEF TaskMoves, TaskState
<1>2. CASE UNCHANGED task
  BY <1>1, <1>2
<1>3. ASSUME NEW j \in StateJobs, PersistState(j) PROVE TaskMoves(t)
  BY <1>0, <1>1, <1>3 DEF PersistState, TaskState
<1>4. ASSUME NEW u \in ManualTasks, NEW v, task' = [task EXCEPT ![u] = v], u # t PROVE TaskMoves(t)
  BY <1>0, <1>1, <1>4
<1>5. ASSUME NEW u \in ManualTasks, TaskEdits(u)
      PROVE SaveTask(t) \/ TaskMoves(t)
  <2>1. CASE u # t
    BY <1>4, <1>5, <2>1 DEF TaskEdits, CreateTask, AskUpdateTask, SaveTask, DeleteTask, RemoveTask
  <2>2. CASE u = t /\ CreateTask(t)
    <3>1. task'[t].here = "yes" /\ task'[t].next = 0 /\ task[t].here = "no"
      BY <1>0, <2>2 DEF CreateTask, NewTask
    <3>2. task' = [task EXCEPT ![t] = [NewTask EXCEPT !.here = "yes", !.ver = 1]]
      BY <2>2 DEF CreateTask
    <3> QED BY <3>1 DEF TaskMoves
  <2>3. CASE u = t /\ AskUpdateTask(t)
    BY <1>0, <2>3 DEF AskUpdateTask, TaskMoves, TaskState
  <2>4. CASE u = t /\ DeleteTask(t)
    BY <1>0, <2>4 DEF DeleteTask, TaskMoves, TaskState
  <2>5. CASE u = t /\ RemoveTask(t)
    BY <1>0, <2>5 DEF RemoveTask, TaskMoves, NewTask
  <2> QED BY <1>5, <2>1, <2>2, <2>3, <2>4, <2>5 DEF TaskEdits
<1> QED BY <1>2, <1>3, <1>5, TaskWriters

\* What the save of an update does.
LEMMA Saves ==
  ASSUME Typed, NEW t \in ManualTasks, SaveTask(t)
  PROVE  /\ task[t].next # 0 /\ task'[t].next = 0 /\ task'[t].here \in {"yes", "leaving"}
         /\ Here(t)' /\ Version(t)' = task[t].next /\ ProviderOf(t) = "manual" /\ "manual" \in queued'
         /\ (Here(t) => task'[t].here = task[t].here) /\ UNCHANGED <<rows, start, taken>>
  BY DraftsAssumption DEF SaveTask, Typed, Here, Version, ProviderOf, Enqueue

\* The same of any task: it is not there again once it was, unless an update saves it, and
\* its version does not fall.
LEMMA TasksMove ==
  ASSUME Typed, NextIsLater, DraftsStep, NEW t \in Tasks
  PROVE  /\ Here(t)' => \/ Here(t) /\ Version(t)' >= Version(t)
                        \/ t \in ManualTasks /\ task[t].here = "no"
                        \/ t \in ManualTasks /\ SaveTask(t)
         /\ Version(t) \in Nat /\ Version(t)' \in Nat
<1>1. Version(t) \in Nat /\ Version(t)' \in Nat
  <2>1. t \in ManualTasks => task[t] \in TaskState /\ task'[t] \in TaskState
    BY TaskTyped DEF Typed
  <2> QED BY <2>1, DraftsAssumption DEF Version, TaskState, Tasks
<1>2. CASE t \in ManualTasks
  <2>1. t \notin SyncedTasks
    BY <1>2, DraftsAssumption
  <2>2. Version(t) = task[t].ver /\ Version(t)' = task'[t].ver
    BY <2>1 DEF Version
  <2> QED BY <1>1, <1>2, <2>2, TaskSteps DEF TaskMoves, Here
<1>3. CASE t \in SyncedTasks
  <2>1. t \notin ManualTasks
    BY <1>3, DraftsAssumption
  <2> QED BY <1>1, <1>3, <2>1 DEF Here, Version
<1> QED BY <1>1, <1>2, <1>3 DEF Tasks

\* What is queued stays queued until the loop turns to it.
LEMMA QueueKept ==
  ASSUME Typed, DraftsStep
  PROVE  queued \subseteq queued' \/ loop'.pc \in {"idle", "rules"}
<1>0. LoopTypes
  BY DEF Typed
<1>1. LoopStep \/ PassFails => UNCHANGED queued \/ Drain
  BY DEF LoopStep, PassFails, LoadRules, LoadTasks, NoMatch, FindDraft, RefreshDraft, ListStale, SupersedeStale
<1>2. ASSUME Drain PROVE loop'.pc \in {"idle", "rules"}
  <2>1. queued \in SUBSET Providers
    BY <1>0 DEF LoopTypes
  <2>2. loop' = RestingLoop("idle", {}) \/ loop' = RestingLoop("rules", queued)
    BY <1>2, <2>1, Resting DEF Drain
  <2> QED BY <2>2 DEF RestingLoop
<1>3. \A ps : Enqueue(ps) => queued \subseteq queued'
  BY DEF Enqueue
<1> QED BY <1>1, <1>2, <1>3, LoopWriters

\* What a step may make of the tasks the loop has read.
LEMMA LoopMoves ==
  ASSUME Typed, DraftsStep
  PROVE  \/ LoadTasks
         \/ /\ loop'.todo \subseteq loop.todo /\ loop'.seen \subseteq loop.seen
            /\ RefreshDraft => loop'.todo = loop.todo \ {Item}
            /\ loop'.pc \in {"each", "refresh"} =>
                 loop.pc \in {"each", "refresh"} /\ loop'.seen = loop.seen /\ loop'.providers = loop.providers
            /\ loop'.pc = "stale" => (loop.pc = "stale" /\ loop'.stale = loop.stale) \/ ListStale
<1>0. LoopTypes
  BY DEF Typed
<1>1. CASE UNCHANGED <<queued, loop>>
  <2>1. ~RefreshDraft
    <3>1. loop.pc = "refresh" => loop.pc # "each"
      OBVIOUS
    <3>2. loop'.pc = loop.pc
      BY <1>1
    <3>3. RefreshDraft => loop'.pc = "each" /\ loop.pc = "refresh"
      BY <1>0 DEF RefreshDraft, ItemDone, LoopTypes
    <3> QED BY <3>1, <3>2, <3>3
  <2> QED BY <1>1, <2>1
<1>2. ASSUME loop' = RestingLoop("idle", {}) \/ loop' = RestingLoop("scheduled", {})
             \/ loop' = RestingLoop("again", {}) \/ loop' = RestingLoop("rules", queued)
      PROVE  /\ loop'.todo = {} /\ loop'.seen = {} /\ loop'.pc \notin {"each", "refresh", "stale"} /\ ~RefreshDraft
  <2>1. loop'.todo = {} /\ loop'.seen = {} /\ loop'.pc \notin {"each", "refresh", "stale"}
    BY <1>2 DEF RestingLoop
  <2>2. RefreshDraft => loop'.pc = "each"
    BY <1>0 DEF RefreshDraft, ItemDone, LoopTypes
  <2> QED BY <2>1, <2>2
<1>3. ASSUME NEW ps \in SUBSET Providers, Enqueue(ps)
      PROVE  \/ loop' = loop \/ loop' = RestingLoop("scheduled", {})
  BY <1>3, Resting DEF Enqueue
<1>4. CASE loop' = loop
  <2>1. RefreshDraft => loop'.pc = "each" /\ loop.pc = "refresh"
    BY <1>0 DEF RefreshDraft, ItemDone, LoopTypes
  <2> QED BY <1>4, <2>1
<1>5. PassFails => loop' = RestingLoop("again", {})
  BY Resting DEF PassFails
<1>6. Drain => loop' = RestingLoop("idle", {}) \/ loop' = RestingLoop("rules", queued)
  <2>1. queued \in SUBSET Providers
    BY <1>0 DEF LoopTypes
  <2> QED BY <2>1, Resting DEF Drain
<1>7. ASSUME NEW l, loop' = l, l.todo = loop.todo, l.seen = loop.seen, l.providers = loop.providers,
             (l.pc = "refresh" /\ loop.pc = "each") \/ l.pc \notin {"each", "refresh"},
             l.pc = "stale" => ListStale
      PROVE  /\ loop'.todo \subseteq loop.todo /\ loop'.seen \subseteq loop.seen /\ ~RefreshDraft
             /\ loop'.pc \in {"each", "refresh"} =>
                 loop.pc \in {"each", "refresh"} /\ loop'.seen = loop.seen /\ loop'.providers = loop.providers
             /\ loop'.pc = "stale" => (loop.pc = "stale" /\ loop'.stale = loop.stale) \/ ListStale
  <2>1. RefreshDraft => loop'.pc = "each" /\ loop.pc = "refresh"
    BY <1>0 DEF RefreshDraft, ItemDone, LoopTypes
  <2> QED BY <1>7, <2>1
<1>8. LoadRules => loop' = [loop EXCEPT !.pc = "tasks", !.rules = ActiveRules] /\ loop.pc = "rules"
  BY DEF LoadRules
<1>9. FindDraft => /\ \E f : loop' = [loop EXCEPT !.pc = "refresh", !.found = f]
                   /\ loop.pc = "each"
  BY DEF FindDraft
<1>10. ListStale => \E s : \/ loop' = [loop EXCEPT !.pc = "again", !.stale = s]
                           \/ loop' = [loop EXCEPT !.pc = "stale", !.stale = s]
  BY DEF ListStale
<1>11. SupersedeStale => loop' = [loop EXCEPT !.pc = "again"]
  BY DEF SupersedeStale
<1>12. NoMatch \/ RefreshDraft =>
         /\ loop'.todo = loop.todo \ {Item} /\ loop'.seen = loop.seen /\ loop'.providers = loop.providers
         /\ loop'.pc = "each" /\ loop.pc \in {"each", "refresh"}
  BY <1>0 DEF NoMatch, RefreshDraft, ItemDone, LoopTypes
<1>13. LoadRules => LET l == [loop EXCEPT !.pc = "tasks", !.rules = ActiveRules]
                    IN  loop' = l /\ l.todo = loop.todo /\ l.seen = loop.seen /\ l.providers = loop.providers /\ l.pc = "tasks"
  BY <1>0, <1>8 DEF LoopTypes
<1>14. FindDraft => \E l : /\ loop' = l /\ l.todo = loop.todo /\ l.seen = loop.seen /\ l.providers = loop.providers
                           /\ l.pc = "refresh" /\ loop.pc = "each"
  BY <1>0, <1>9 DEF LoopTypes
<1>15. ListStale => \E l : /\ loop' = l /\ l.todo = loop.todo /\ l.seen = loop.seen /\ l.providers = loop.providers
                           /\ l.pc \in {"again", "stale"}
  BY <1>0, <1>10 DEF LoopTypes
<1>16. SupersedeStale => \E l : /\ loop' = l /\ l.todo = loop.todo /\ l.seen = loop.seen /\ l.providers = loop.providers
                                /\ l.pc = "again"
  BY <1>0, <1>11 DEF LoopTypes
<1> QED BY <1>1, <1>2, <1>3, <1>4, <1>5, <1>6, <1>7, <1>12, <1>13, <1>14, <1>15, <1>16, LoopWriters DEF LoopStep

\* What LoadTasks reads.
LEMMA LoadedTasks ==
  ASSUME Typed, LoadTasks
  PROVE  /\ loop'.seen = {t \in Tasks : Here(t) /\ ProviderOf(t) \in loop.providers}
         /\ loop'.providers = loop.providers /\ loop'.pc = "each" /\ loop'.rules = loop.rules
         /\ \A i \in loop'.todo : /\ Here(i.task) /\ i.task \in Tasks /\ i = ItemAs(i.task, StatusOf(i.task))
                                  /\ i.ver = Version(i.task)
         /\ \A t \in loop'.seen : \E i \in loop'.todo : i.task = t
         /\ UNCHANGED <<task, ruleVars, rows, queued, job, start, sent, taken, tangled, changes, faults>>
<1> DEFINE ts == {t \in Tasks : Here(t) /\ ProviderOf(t) \in loop.providers}
           items == {ItemAs(t, StatusOf(t)) : t \in ts}
<1>0. LoopTypes
  BY DEF Typed
<1>1. /\ loop' = [loop EXCEPT !.pc = "each", !.seen = ts, !.todo = items]
      /\ UNCHANGED <<task, ruleVars, rows, queued, job, start, sent, taken, tangled, changes, faults>>
  BY DEF LoadTasks
<1>2. /\ loop'.seen = ts /\ loop'.providers = loop.providers /\ loop'.pc = "each" /\ loop'.todo = items
      /\ loop'.rules = loop.rules
  <2> HIDE DEF ts, items
  <2> QED BY <1>0, <1>1 DEF LoopTypes
<1>3. \A t \in ts : LET i == ItemAs(t, StatusOf(t)) IN i.task = t /\ i.ver = Version(t)
  BY DEF ItemAs
<1> QED BY <1>1, <1>2, <1>3

\* Versions do not fall: neither the task's nor those of what is drafted for it.
LEMMA OrderInOrder ==
  ASSUME Typed, RowsInOrder, NextIsLater, NotYet, DraftsStep
  PROVE  RowsInOrder'
<1>0. /\ LoopTypes /\ \A n \in DOMAIN rows : rows[n].task \in Tasks /\ rows[n].ver \in Nat /\ n \in Nat
      /\ \A i \in loop.todo : i.task \in Tasks /\ i.ver \in Nat
      /\ RowsKept /\ Len(rows) \in Nat /\ DOMAIN rows = 1..Len(rows)
  <2>1. LoopTypes /\ RowTypes
    BY DEF Typed
  <2>2. \A n \in DOMAIN rows : rows[n].task \in Tasks /\ rows[n].ver \in Nat /\ n \in Nat
    BY RowType, DraftsAssumption
  <2> QED BY <2>1, <2>2, RowsStep, DraftsAssumption DEF LoopTypes, RowTypes
<1>1. \A t \in Tasks : Here(t)' => \/ Here(t) /\ Version(t)' >= Version(t)
                                   \/ t \in ManualTasks /\ task[t].here = "no"
                                   \/ t \in ManualTasks /\ SaveTask(t)
  BY TasksMove
<1>2. \A t \in Tasks : Version(t) \in Nat /\ Version(t)' \in Nat
  BY TasksMove
<1>3. \A n \in DOMAIN rows : rows'[n].task = rows[n].task /\ rows'[n].ver = rows[n].ver
  BY <1>0 DEF RowsKept, SameDraft
<1>4. ASSUME DOMAIN rows' = DOMAIN rows, ~LoadTasks PROVE RowsInOrder'
  <2>1. loop'.todo \subseteq loop.todo
    BY <1>4, LoopMoves
  <2>2. ASSUME NEW t \in Tasks, Here(t)', NEW n \in DOMAIN rows', rows'[n].task = t
        PROVE  rows'[n].ver <= Version(t)'
    <3>1. n \in DOMAIN rows /\ rows[n].task = t /\ rows'[n].ver = rows[n].ver
      BY <1>3, <1>4, <2>2
    <3>2. CASE Here(t) /\ Version(t)' >= Version(t)
      <4>1. rows[n].ver <= Version(t)
        BY <3>1, <3>2 DEF RowsInOrder
      <4> QED BY <1>0, <1>2, <3>1, <3>2, <4>1
    <3>3. CASE t \in ManualTasks /\ SaveTask(t)
      <4>1. Version(t)' = task[t].next /\ rows[n].ver < task[t].next
        BY <3>1, <3>3, Saves DEF NextIsLater
      <4> QED BY <1>0, <1>2, <3>1, <4>1
    <3> QED BY <1>1, <2>2, <3>1, <3>2, <3>3 DEF NotYet
  <2>3. ASSUME NEW t \in Tasks, Here(t)', NEW i \in loop'.todo, i.task = t PROVE i.ver <= Version(t)'
    <3>1. i \in loop.todo /\ t \in loop.seen
      BY <1>0, <2>1, <2>3 DEF LoopTypes
    <3>2. CASE Here(t) /\ Version(t)' >= Version(t)
      <4>1. i.ver <= Version(t)
        BY <2>3, <3>1, <3>2 DEF RowsInOrder
      <4> QED BY <1>0, <1>2, <3>1, <3>2, <4>1
    <3>3. CASE t \in ManualTasks /\ SaveTask(t)
      <4>1. Version(t)' = task[t].next /\ i.ver < task[t].next
        BY <2>3, <3>1, <3>3, Saves DEF NextIsLater
      <4> QED BY <1>0, <1>2, <3>1, <4>1
    <3> QED BY <1>1, <2>3, <3>1, <3>2, <3>3 DEF NotYet
  <2>4. \A n \in DOMAIN rows' : rows'[n].task \in Tasks
    BY <1>0, <1>3, <1>4
  <2>5. \A i \in loop'.todo : i.task \in Tasks
    BY <1>0, <2>1
  <2>6. \A m, n \in DOMAIN rows' : m < n /\ rows'[m].task = rows'[n].task => rows'[m].ver <= rows'[n].ver
    BY <1>3, <1>4 DEF RowsInOrder
  <2>7. \A i \in loop'.todo, n \in DOMAIN rows' : rows'[n].task = i.task => rows'[n].ver <= i.ver
    BY <1>3, <1>4, <2>1 DEF RowsInOrder
  <2> QED BY <2>2, <2>3, <2>4, <2>5, <2>6, <2>7 DEF RowsInOrder
<1>5. CASE LoadTasks
  <2>1. /\ UNCHANGED <<task, rows>>
        /\ \A i \in loop'.todo : Here(i.task) /\ i.task \in Tasks /\ i.ver = Version(i.task)
    BY <1>5, LoadedTasks
  <2>2. \A t : Here(t)' = Here(t) /\ Version(t)' = Version(t)
    BY <2>1 DEF Here, Version
  <2>3. \A i \in loop'.todo : i.ver \in Nat
    BY <1>2, <2>1
  <2> QED BY <1>0, <1>2, <2>1, <2>2, <2>3 DEF RowsInOrder
<1>6. CASE RefreshDraft /\ DOMAIN rows' # DOMAIN rows
  <2> DEFINE k == Len(rows) + 1
  <2>1. /\ DOMAIN rows' = DOMAIN rows \cup {k} /\ k \notin DOMAIN rows
        /\ rows'[k].task = Item.task /\ rows'[k].ver = Item.ver
    <3>1. \A x : Draft(Item, x).task = Item.task /\ Draft(Item, x).ver = Item.ver
      BY DEF Draft
    <3> QED BY <1>6, <3>1, RefreshingKeeps
  <2>2. k \in Nat /\ \A n \in DOMAIN rows : n < k
    BY <1>0
  <2>3. Item \in loop.todo /\ loop'.todo = loop.todo \ {Item} /\ UNCHANGED task
    <3>1. loop.todo # {}
      BY <1>0, <1>6 DEF RefreshDraft, LoopTypes
    <3>2. ~LoadTasks
      BY <1>6 DEF RefreshDraft, LoadTasks
    <3> QED BY <1>0, <1>6, <3>1, <3>2, ItemType, LoopMoves DEF RefreshDraft
  <2>4. \A t : Here(t)' = Here(t) /\ Version(t)' = Version(t)
    BY <2>3 DEF Here, Version
  <2> HIDE DEF k
  <2>5. \A m, n \in DOMAIN rows' : m < n /\ rows'[m].task = rows'[n].task => rows'[m].ver <= rows'[n].ver
    <3> SUFFICES ASSUME NEW m \in DOMAIN rows', NEW n \in DOMAIN rows', m < n, rows'[m].task = rows'[n].task
                 PROVE  rows'[m].ver <= rows'[n].ver
      OBVIOUS
    <3>1. m \in DOMAIN rows
      BY <1>0, <2>1, <2>2
    <3>2. CASE n = k
      BY <1>3, <2>1, <2>3, <3>1, <3>2 DEF RowsInOrder
    <3>3. CASE n # k
      BY <1>3, <2>1, <3>1, <3>3 DEF RowsInOrder
    <3> QED BY <3>2, <3>3
  <2>6. \A i \in loop'.todo, n \in DOMAIN rows' : rows'[n].task = i.task => rows'[n].ver <= i.ver
    <3> SUFFICES ASSUME NEW i \in loop'.todo, NEW n \in DOMAIN rows', rows'[n].task = i.task
                 PROVE  rows'[n].ver <= i.ver
      OBVIOUS
    <3>1. n # k
      BY <1>0, <2>1, <2>3 DEF LoopTypes
    <3> QED BY <1>3, <2>1, <2>3, <3>1 DEF RowsInOrder
  <2>7. \A n \in DOMAIN rows' : Here(rows'[n].task) => rows'[n].ver <= Version(rows'[n].task)
    BY <1>3, <2>1, <2>3 DEF RowsInOrder
  <2> QED BY <2>3, <2>4, <2>5, <2>6, <2>7 DEF RowsInOrder
<1> QED BY <1>4, <1>5, <1>6, RowsStep

\* An update asks for a version later than all there are, and nobody else saves a later one.
LEMMA NextStep ==
  ASSUME Typed, RowsInOrder, NextIsLater, NotYet, DraftsStep
  PROVE  NextIsLater'
<1>0. /\ LoopTypes /\ RowsKept /\ \A n \in DOMAIN rows : rows[n].ver \in Nat
      /\ \A i \in loop.todo : i.ver \in Nat
  <2>1. \A n \in DOMAIN rows : rows[n].ver \in Nat
    BY RowType, DraftsAssumption
  <2> QED BY <2>1, RowsStep, DraftsAssumption DEF Typed, LoopTypes
<1>1. \A n \in DOMAIN rows : rows'[n].task = rows[n].task /\ rows'[n].ver = rows[n].ver
  BY <1>0 DEF RowsKept, SameDraft
<1> SUFFICES ASSUME NEW t \in ManualTasks, task'[t].next # 0
             PROVE  /\ Here(t)' => task'[t].ver < task'[t].next
                    /\ \A n \in DOMAIN rows' : rows'[n].task = t => rows'[n].ver < task'[t].next
                    /\ \A i \in loop'.todo : i.task = t => i.ver < task'[t].next
  BY DEF NextIsLater
<1>2. task[t].ver \in Nat /\ task[t].next \in Nat /\ t \notin SyncedTasks /\ Version(t) = task[t].ver
  BY DraftsAssumption DEF Typed, TaskState, Version
<1>3. TaskMoves(t)
  BY TaskSteps, Saves
<1>4. task[t].here # "no" \/ task'[t].next # task[t].next
  BY DEF NotYet
<1>5. Here(t)' => task'[t].ver < task'[t].next
  <2>1. CASE task'[t].next = task[t].next
    BY <1>2, <1>3, <1>4, <2>1 DEF TaskMoves, Here, NextIsLater
  <2>2. CASE Here(t) /\ task'[t].here = task[t].here /\ task'[t].next = task[t].ver + 1
    BY <1>2, <1>3, <2>2 DEF TaskMoves, Here
  <2> QED BY <1>3, <2>1, <2>2 DEF TaskMoves
<1>6. ASSUME NEW n \in DOMAIN rows, rows[n].task = t PROVE rows[n].ver < task'[t].next
  <2>1. CASE task'[t].next = task[t].next
    BY <1>6, <2>1 DEF NextIsLater
  <2>2. CASE Here(t) /\ task'[t].next = task[t].ver + 1
    <3>1. rows[n].ver <= task[t].ver
      BY <1>2, <1>6, <2>2 DEF RowsInOrder
    <3> QED BY <1>0, <1>2, <2>2, <3>1
  <2> QED BY <1>3, <2>1, <2>2 DEF TaskMoves
<1>7. ASSUME NEW i \in loop.todo, i.task = t PROVE i.ver < task'[t].next
  <2>1. CASE task'[t].next = task[t].next
    BY <1>7, <2>1 DEF NextIsLater
  <2>2. CASE Here(t) /\ task'[t].next = task[t].ver + 1
    <3>1. i.ver <= task[t].ver
      BY <1>2, <1>7, <2>2 DEF RowsInOrder
    <3> QED BY <1>0, <1>2, <2>2, <3>1
  <2> QED BY <1>3, <2>1, <2>2 DEF TaskMoves
<1>8. ASSUME NEW n \in DOMAIN rows' \ DOMAIN rows, rows'[n].task = t PROVE rows'[n].ver < task'[t].next
  <2>1. RefreshDraft
    BY <1>8, RowsStep
  <2>2. rows'[n].task = Item.task /\ rows'[n].ver = Item.ver
    <3>1. \A x : Draft(Item, x).task = Item.task /\ Draft(Item, x).ver = Item.ver
      BY DEF Draft
    <3> QED BY <1>8, <2>1, <3>1, RefreshingKeeps
  <2>3. Item \in loop.todo
    BY <1>0, <2>1, ItemType DEF LoopTypes, RefreshDraft
  <2> QED BY <1>7, <1>8, <2>2, <2>3
<1>9. ASSUME NEW i \in loop'.todo, i.task = t PROVE i.ver < task'[t].next
  <2>1. CASE LoadTasks
    <3>1. Here(t) /\ i.ver = Version(t) /\ UNCHANGED task
      BY <1>9, <2>1, LoadedTasks
    <3> QED BY <1>2, <3>1 DEF NextIsLater
  <2> QED BY <1>7, <1>9, <2>1, LoopMoves
<1>10. \A n \in DOMAIN rows' : rows'[n].task = t => rows'[n].ver < task'[t].next
  BY <1>1, <1>6, <1>8
<1> QED BY <1>5, <1>9, <1>10

\* Nothing is drafted for a task before it exists.
LEMMA NotYetStep ==
  ASSUME Typed, NotYet, DraftsStep
  PROVE  NotYet'
<1>0. LoopTypes /\ RowsKept
  BY RowsStep DEF Typed
<1> SUFFICES ASSUME NEW t \in ManualTasks, task'[t].here = "no"
             PROVE  /\ task'[t].next = 0 /\ t \notin loop'.seen
                    /\ \A n \in DOMAIN rows' : rows'[n].task # t
  BY DEF NotYet
<1>1. /\ task[t].here = "no" /\ task[t].next = 0 /\ task'[t].next = 0
      /\ t \notin loop.seen /\ \A n \in DOMAIN rows : rows[n].task # t
  BY TaskSteps, Saves DEF TaskMoves, NotYet, Here
<1>2. t \notin loop'.seen
  <2>1. CASE LoadTasks
    BY <1>1, <2>1, LoadedTasks DEF Here
  <2> QED BY <1>1, <2>1, LoopMoves
<1>3. \A n \in DOMAIN rows : rows'[n].task # t
  BY <1>0, <1>1 DEF RowsKept, SameDraft
<1>4. ASSUME NEW n \in DOMAIN rows' \ DOMAIN rows PROVE rows'[n].task # t
  <2>1. RefreshDraft
    BY <1>4, RowsStep
  <2>2. Item.task \in loop.seen
    BY <1>0, <2>1, ItemType DEF LoopTypes, RefreshDraft
  <2>3. rows'[n].task = Item.task
    <3>1. \A x : Draft(Item, x).task = Item.task
      BY DEF Draft
    <3> QED BY <1>4, <2>1, <3>1, RefreshingKeeps
  <2> QED BY <1>1, <2>2, <2>3
<1> QED BY <1>1, <1>2, <1>3, <1>4

\* What the loop has not read is new, gone or another provider's.
LEMMA UnseenStep ==
  ASSUME Typed, NextIsLater, NotYet, Unseen, StaleIsGone, DraftsStep
  PROVE  Unseen' /\ StaleIsGone'
<1>0. LoopTypes /\ RowsKept
  BY RowsStep DEF Typed
<1>1. ASSUME NEW t \in Tasks, t \notin loop'.seen, loop'.pc \in {"each", "refresh"},
             ProviderOf(t) \in loop'.providers, Here(t)', ~(t \in ManualTasks /\ "manual" \in queued')
      PROVE  \A n \in DOMAIN rows' : rows'[n].task # t
  <2>1. CASE LoadTasks
    <3>1. Here(t)' = Here(t)
      BY <2>1 DEF LoadTasks, Here
    <3> QED BY <1>1, <2>1, <3>1, LoadedTasks
  <2>2. CASE ~LoadTasks
    <3>1. /\ loop.pc \in {"each", "refresh"} /\ loop'.seen = loop.seen /\ loop'.providers = loop.providers
      BY <1>1, <2>2, LoopMoves
    <3>2. \A n \in DOMAIN rows : rows[n].task # t
      <4>1. CASE Here(t)
        BY <1>1, <3>1, <4>1, QueueKept DEF Unseen
      <4>2. CASE t \in ManualTasks /\ task[t].here = "no"
        BY <4>2 DEF NotYet
      <4>3. ~(t \in ManualTasks /\ SaveTask(t))
        BY <1>1, Saves
      <4> QED BY <1>1, <4>1, <4>2, <4>3, TasksMove
    <3>3. \A n \in DOMAIN rows : rows'[n].task # t
      BY <1>0, <3>2 DEF RowsKept, SameDraft
    <3>4. ASSUME NEW n \in DOMAIN rows' \ DOMAIN rows PROVE rows'[n].task # t
      <4>1. RefreshDraft
        BY <3>4, RowsStep
      <4>2. Item.task \in loop.seen
        BY <1>0, <4>1, ItemType DEF LoopTypes, RefreshDraft
      <4>3. rows'[n].task = Item.task
        <5>1. \A x : Draft(Item, x).task = Item.task
          BY DEF Draft
        <5> QED BY <3>4, <4>1, <5>1, RefreshingKeeps
      <4> QED BY <1>1, <3>1, <4>2, <4>3
    <3> QED BY <3>3, <3>4
  <2> QED BY <2>1, <2>2
<1>2. ASSUME loop'.pc = "stale", NEW t \in loop'.stale
      PROVE  t \in ManualTasks /\ (task'[t].here = "gone" \/ "manual" \in queued')
  <2>0. queued \subseteq queued'
    BY <1>2, QueueKept
  <2>1. CASE loop.pc = "stale" /\ loop'.stale = loop.stale
    BY <1>2, <2>0, <2>1, TaskSteps, Saves DEF StaleIsGone, TaskMoves
  <2>2. CASE ListStale
    <3> DEFINE stale == {rows[n].task : n \in {m \in DOMAIN rows :
                     Ready(m) /\ ProviderOf(rows[m].task) \in loop.providers}} \ loop.seen
    <3>1. /\ loop' = [loop EXCEPT !.pc = IF stale = {} THEN "again" ELSE "stale", !.stale = stale]
          /\ UNCHANGED task /\ loop.pc = "each"
      BY <2>2 DEF ListStale
    <3>2. loop'.stale = stale
      <4> HIDE DEF stale
      <4> QED BY <1>0, <3>1 DEF LoopTypes
    <3>3. PICK n \in DOMAIN rows : rows[n].task = t /\ ProviderOf(t) \in loop.providers /\ t \notin loop.seen
      BY <1>2, <3>2
    <3>4. t \in Tasks /\ (~Here(t) \/ (t \in ManualTasks /\ "manual" \in queued))
      BY <3>1, <3>3, RowType DEF Unseen
    <3>5. ~Here(t) => t \in ManualTasks /\ task[t].here \notin {"yes", "leaving", "no"} /\ task[t] \in TaskState
      BY <3>3, <3>4 DEF Here, NotYet, Typed
    <3> QED BY <2>0, <3>1, <3>4, <3>5 DEF TaskState
  <2>3. ~LoadTasks
    BY <1>2, LoadedTasks
  <2> QED BY <1>2, <2>1, <2>2, <2>3, LoopMoves
<1>3. Unseen'
  BY <1>1 DEF Unseen
<1>4. StaleIsGone'
  BY <1>2 DEF StaleIsGone
<1> QED BY <1>3, <1>4

\* Without a fault, a start request that does not claim a row only counts its entries.
LEMMA OtherStarts ==
  ASSUME Typed, StartInv, DraftsStep, faults' = 0, NEW s \in Starters, StartEdits(s), ~Claim(s)
  PROVE  /\ DOMAIN rows' = DOMAIN rows
         /\ \A n \in DOMAIN rows : rows'[n].draft = rows[n].draft /\ rows'[n].run = rows[n].run
         /\ UNCHANGED rows \/ Dispatch(s)
<1>1. ~DispatchFails(s) /\ ~UndoStart(s)
  BY FaultsCount DEF DispatchFails, UndoStart, StartInv, NoneLost
<1>2. CASE Dispatch(s)
  <2>1. start[s].row \in DOMAIN rows
    BY <1>2 DEF Dispatch, Typed, StartTypes
  <2> QED BY <1>2, <2>1, EditSteps DEF Dispatch, Edited
<1>3. CASE \E n \in DOMAIN rows : AskStart(s, n)
  BY <1>3 DEF AskStart
<1> QED BY <1>1, <1>2, <1>3 DEF StartEdits

\* Without a fault, no draft becomes ready again.
LEMMA ReadyStays ==
  ASSUME Typed, StartInv, DraftsStep, faults' = 0
  PROVE  /\ \A n \in DOMAIN rows : rows'[n].draft = "ready" => Ready(n)
         /\ \A n \in DOMAIN rows : rows'[n].draft = "superseded" => rows[n].draft # "none"
         /\ \A n \in DOMAIN rows : rows[n].draft = "none" => rows'[n].draft = "none"
         /\ \A n \in DOMAIN rows : rows[n].draft # "none" /\ rows'[n].draft = "none" =>
              \E s \in Starters : Claim(s) /\ start[s].row = n /\ start'[s].pc = "dispatch"
<1>0. StartTypes /\ \A n \in DOMAIN rows : rows[n] \in RowState
  BY RowType DEF Typed
<1>1. CASE UNCHANGED <<rows, start, sent>>
  BY <1>1 DEF Ready
<1>2. ASSUME Superseding, NEW n \in DOMAIN rows
      PROVE  /\ rows'[n].draft = "ready" => Ready(n)
             /\ rows'[n].draft = "superseded" => rows[n].draft # "none"
             /\ rows[n].draft = "none" => rows'[n].draft = "none"
             /\ ~(rows[n].draft # "none" /\ rows'[n].draft = "none")
  <2>1. rows[n] \in RowState
    BY <1>0
  <2> QED BY <1>2, <2>1 DEF Superseding, Ready, RowState
<1>3. CASE NoMatch \/ RefreshDraft \/ SupersedeStale \/ (\E t \in ManualTasks : DeleteTask(t))
           \/ (\E n \in DOMAIN rows : Discard(n))
  BY <1>2, <1>3, SupersedingSteps
<1>4. ASSUME NEW n \in DOMAIN rows, Settle(n)
      PROVE  \A m \in DOMAIN rows : rows'[m].draft = rows[m].draft
  BY <1>4, EditSteps DEF Settle, Edited
<1>5. ASSUME NEW s \in Starters, StartEdits(s), ~Claim(s)
      PROVE  \A m \in DOMAIN rows : rows'[m].draft = rows[m].draft
  BY <1>5, OtherStarts
<1>6. ASSUME NEW s \in Starters, Claim(s)
      PROVE  \/ UNCHANGED rows
             \/ /\ start[s].row \in DOMAIN rows /\ start'[s].pc = "dispatch" /\ Ready(start[s].row)
                /\ rows'[start[s].row].draft = "none"
                /\ \A m \in DOMAIN rows : m # start[s].row => rows'[m] = rows[m]
  <2>1. start[s].row \in DOMAIN rows /\ start[s] \in StartState
    BY <1>0, <1>6 DEF Claim, StartTypes
  <2>2. ASSUME Startable(start[s].row), start' = [start EXCEPT ![s].pc = "dispatch"],
               rows' = [rows EXCEPT ![start[s].row].draft = "none", ![start[s].row].run = "active"]
        PROVE  /\ start'[s].pc = "dispatch" /\ Ready(start[s].row)
               /\ rows'[start[s].row].draft = "none"
               /\ \A m \in DOMAIN rows : m # start[s].row => rows'[m] = rows[m]
    <3>1. start'[s].pc = "dispatch"
      BY <1>0, <2>1, <2>2 DEF StartTypes, StartState
    <3>2. Edited(start[s].row, "none", "active", rows[start[s].row].jobs, rows[start[s].row].lost)
      BY <2>1, <2>2, EditSteps
    <3> QED BY <2>2, <3>1, <3>2 DEF Edited, Startable
  <2> QED BY <1>6, <2>1, <2>2 DEF Claim
<1>7. ASSUME NEW s \in Starters, Claim(s), ~UNCHANGED rows
      PROVE /\ \A n \in DOMAIN rows : rows'[n].draft = "ready" => Ready(n)
            /\ \A n \in DOMAIN rows : rows'[n].draft = "superseded" => rows[n].draft # "none"
            /\ \A n \in DOMAIN rows : rows[n].draft = "none" => rows'[n].draft = "none"
            /\ \A n \in DOMAIN rows : rows[n].draft # "none" /\ rows'[n].draft = "none" =>
                 Claim(s) /\ start[s].row = n /\ start'[s].pc = "dispatch"
  BY <1>6, <1>7 DEF Ready
<1>8. CASE UNCHANGED rows
  BY <1>8 DEF Ready
<1> QED BY <1>1, <1>2, <1>3, <1>4, <1>5, <1>6, <1>7, <1>8, RowWriters DEF Ready, StartEdits

\* A draft that is inserted supersedes those before it.
LEMMA LastStep ==
  ASSUME Typed, StartInv, ReadyIsLast, DraftsStep
  PROVE  ReadyIsLast'
<1> SUFFICES ASSUME faults' = 0, NEW m \in DOMAIN rows', NEW n \in DOMAIN rows', rows'[n].draft = "ready",
                    rows'[m].task = rows'[n].task
             PROVE  m <= n
  BY DEF ReadyIsLast, Ready
<1>0. /\ DOMAIN rows = 1..Len(rows) /\ Len(rows) \in Nat /\ RowsKept /\ faults = 0
      /\ \A k \in DOMAIN rows : rows'[k].task = rows[k].task
  BY RowsStep, FaultsCount DEF Typed, RowTypes, RowsKept, SameDraft
<1>1. CASE m \in DOMAIN rows /\ n \in DOMAIN rows
  BY <1>0, <1>1, ReadyStays DEF ReadyIsLast
<1>2. CASE m \notin DOMAIN rows \/ n \notin DOMAIN rows
  <2>1. RefreshDraft
    BY <1>2, RowsStep
  <2> DEFINE k == Len(rows) + 1
  <2>2. /\ DOMAIN rows' = DOMAIN rows \cup {k} /\ rows'[k].task = Item.task
        /\ \A j \in DOMAIN rows :
             rows'[j] = IF Ready(j) /\ rows[j].task = Item.task
                          THEN [rows[j] EXCEPT !.draft = "superseded"] ELSE rows[j]
    <3>1. \A x : Draft(Item, x).task = Item.task
      BY DEF Draft
    <3> QED BY <1>2, <2>1, <3>1, RefreshingKeeps
  <2>3. \A j \in DOMAIN rows : j <= k /\ k \in Nat
    BY <1>0
  <2> HIDE DEF k
  <2>4. CASE n = k
    <3>1. k <= k
      BY <1>0 DEF k
    <3> QED BY <2>2, <2>3, <2>4, <3>1
  <2>5. CASE n # k
    <3>1. n \in DOMAIN rows /\ m = k /\ rows[n].task = Item.task /\ rows[n] \in RowState
      BY <1>0, <1>2, <2>2, <2>5, RowType
    <3>2. rows'[n].draft # "ready"
      BY <2>2, <3>1 DEF Ready, RowState
    <3> QED BY <3>2
  <2> QED BY <2>4, <2>5
<1> QED BY <1>1, <1>2

\* Every step keeps the invariant of the rows and versions.
LEMMA OrderStep ==
  ASSUME Typed, StartInv, OrderInv, DraftsStep
  PROVE  OrderInv'
  BY OrderInOrder, NextStep, NotYetStep, UnseenStep, LastStep DEF OrderInv

\* There are no rows at first.
LEMMA OrderInit == Init => OrderInv
  BY DEF Init, IdleLoop, NewTask, OrderInv, RowsInOrder, NextIsLater, NotYet, Unseen, StaleIsGone,
     ReadyIsLast

-----------------------------------------------------------------------------
(* What a change of the rules changes.                                     *)

\* The active rules of rules u.
ActiveOf(u) == {[id |-> r, value |-> u[r]] : r \in {q \in Rules : u[q].enabled}}

\* The rules that match an item, and their order.
Matching(u, i) == {r \in Rules : u[r].enabled /\ Matches(u[r], i)}

\* The order in which they are asked.
Before(u, r, q) ==
  \/ u[r].priority > u[q].priority
  \/ u[r].priority = u[q].priority /\ r < q

\* The first match, as a rule of u.
LEMMA FirstOf ==
  ASSUME NEW u, NEW i, \A r \in Rules : u[r].enabled \in BOOLEAN
  PROVE  FirstMatch(ActiveOf(u), i) =
           {[id |-> r, value |-> u[r]] : r \in {q \in Matching(u, i) : \A k \in Matching(u, i) \ {q} : Before(u, q, k)}}
<1> DEFINE E(r) == [id |-> r, value |-> u[r]]
           m == {x \in ActiveOf(u) : x.value.enabled /\ Matches(x.value, i)}
<1>1. \A r : E(r).id = r /\ E(r).value = u[r]
  OBVIOUS
<1>2. \A x : x \in m <=> \E r \in Matching(u, i) : x = E(r)
  BY <1>1 DEF ActiveOf, Matching
<1>3. \A r, q : Precedes(E(r), E(q)) <=> Before(u, r, q)
  BY <1>1 DEF Precedes, Before
<1>4. FirstMatch(ActiveOf(u), i) = {x \in m : \A y \in m \ {x} : Precedes(x, y)}
  BY DEF FirstMatch
<1>5. \A r, q : E(r) = E(q) => r = q
  BY <1>1
<1> HIDE DEF m, E
<1>6. ASSUME NEW q \in Matching(u, i)
      PROVE  (\A y \in m \ {E(q)} : Precedes(E(q), y)) <=> \A k \in Matching(u, i) \ {q} : Before(u, q, k)
  BY <1>2, <1>3, <1>5
<1>7. \A x : x \in FirstMatch(ActiveOf(u), i)
               <=> \E q \in Matching(u, i) : x = E(q) /\ \A k \in Matching(u, i) \ {q} : Before(u, q, k)
  BY <1>2, <1>4, <1>6
<1> QED BY <1>7 DEF E

\* The rules of provider p are the same but for their names.
SameRules(u, w, p) ==
  \A r \in Rules :
    /\ u[r].enabled \in BOOLEAN /\ w[r].enabled \in BOOLEAN
    /\ (u[r].enabled /\ u[r].provider = p) <=> (w[r].enabled /\ w[r].provider = p)
    /\ u[r].enabled /\ u[r].provider = p => \A f \in RuleFields \ {"name"} : u[r][f] = w[r][f]

\* Rules that are the same but for their names have the same verdict.
LEMMA SameVerdict ==
  ASSUME NEW u, NEW w, NEW i, SameRules(u, w, i.provider)
  PROVE  Verdict(ActiveOf(u), i) = Verdict(ActiveOf(w), i)
<1>1. ASSUME NEW r \in Rules, u[r].enabled, u[r].provider = i.provider
      PROVE  /\ w[r].enabled /\ w[r].provider = i.provider
             /\ u[r].priority = w[r].priority /\ u[r].mode = w[r].mode
             /\ u[r].suggestedAction = w[r].suggestedAction /\ u[r].repositoryId = w[r].repositoryId
             /\ u[r].scopeType = w[r].scopeType /\ u[r].scopeId = w[r].scopeId
             /\ u[r].titleContains = w[r].titleContains /\ u[r].taskStatuses = w[r].taskStatuses
  BY <1>1 DEF SameRules, RuleFields, Fields, Required
<1>2. ASSUME NEW r \in Rules PROVE r \in Matching(u, i) <=> r \in Matching(w, i)
  <2>1. CASE u[r].enabled /\ u[r].provider = i.provider
    <3>1. Matches(u[r], i) <=> Matches(w[r], i)
      BY <1>1, <2>1 DEF Matches, InScope, TitleFits, StatusFits
    <3> QED BY <1>1, <2>1, <3>1 DEF Matching
  <2>2. CASE ~(u[r].enabled /\ u[r].provider = i.provider)
    <3>1. ~(w[r].enabled /\ w[r].provider = i.provider)
      BY <2>2 DEF SameRules
    <3> QED BY <2>2, <3>1 DEF Matching, Matches
  <2> QED BY <2>1, <2>2
<1>3. Matching(u, i) = Matching(w, i)
  BY <1>2 DEF Matching
<1>4. \A r \in Matching(u, i) : /\ u[r].priority = w[r].priority /\ u[r].mode = w[r].mode
             /\ u[r].suggestedAction = w[r].suggestedAction /\ u[r].repositoryId = w[r].repositoryId
  BY <1>1 DEF Matching, Matches
<1>5. \A q, k \in Matching(u, i) : Before(u, q, k) <=> Before(w, q, k)
  BY <1>4 DEF Before
<1> DEFINE First(v) == {q \in Matching(v, i) : \A k \in Matching(v, i) \ {q} : Before(v, q, k)}
<1>6. First(u) = First(w)
  BY <1>3, <1>5
<1>7. ASSUME NEW v, \A r \in Rules : v[r].enabled \in BOOLEAN
      PROVE  Verdict(ActiveOf(v), i) = {<<r, v[r].mode, v[r].suggestedAction, v[r].repositoryId>> : r \in First(v)}
  <2>1. FirstMatch(ActiveOf(v), i) = {[id |-> r, value |-> v[r]] : r \in First(v)}
    BY <1>7, FirstOf
  <2> DEFINE E(r) == [id |-> r, value |-> v[r]]
             T(r) == <<r, v[r].mode, v[r].suggestedAction, v[r].repositoryId>>
  <2>2. \A r : <<E(r).id, E(r).value.mode, E(r).value.suggestedAction, E(r).value.repositoryId>> = T(r)
    OBVIOUS
  <2>3. FirstMatch(ActiveOf(v), i) = {E(r) : r \in First(v)}
    BY <2>1
  <2> HIDE DEF First, E, T
  <2>4. Verdict(ActiveOf(v), i) = {T(r) : r \in First(v)}
    BY <2>2, <2>3 DEF Verdict
  <2> QED BY <2>4 DEF T
<1>8. Verdict(ActiveOf(u), i) = {<<r, u[r].mode, u[r].suggestedAction, u[r].repositoryId>> : r \in First(u)}
  BY <1>7 DEF SameRules
<1>9. Verdict(ActiveOf(w), i) = {<<r, w[r].mode, w[r].suggestedAction, w[r].repositoryId>> : r \in First(w)}
  BY <1>7 DEF SameRules
<1>10. First(u) \subseteq Matching(u, i)
  OBVIOUS
<1> HIDE DEF First
<1> QED BY <1>4, <1>6, <1>8, <1>9, <1>10

\* What they say of a task is their verdict.
LEMMA VerdictDrafts ==
  ASSUME NEW a, NEW b, NEW i, Verdict(a, i) = Verdict(b, i)
  PROVE  /\ \A x \in FirstMatch(a, i) : \E y \in FirstMatch(b, i) :
              /\ y.id = x.id /\ y.value.mode = x.value.mode
              /\ y.value.suggestedAction = x.value.suggestedAction /\ y.value.repositoryId = x.value.repositoryId
         /\ Drafts(FirstMatch(a, i)) <=> Drafts(FirstMatch(b, i))
<1> DEFINE W(x) == <<x.id, x.value.mode, x.value.suggestedAction, x.value.repositoryId>>
<1>1. \A c, v : v \in Verdict(c, i) <=> \E z \in FirstMatch(c, i) : v = W(z)
  BY DEF Verdict
<1>2. \A x, y : W(x) = W(y) => /\ y.id = x.id /\ y.value.mode = x.value.mode
                               /\ y.value.suggestedAction = x.value.suggestedAction
                               /\ y.value.repositoryId = x.value.repositoryId
  OBVIOUS
<1>3. ASSUME NEW x \in FirstMatch(a, i) PROVE \E y \in FirstMatch(b, i) : W(x) = W(y)
  <2>1. W(x) \in Verdict(b, i)
    BY <1>1
  <2> QED BY <1>1, <2>1
<1>4. ASSUME NEW y \in FirstMatch(b, i) PROVE \E x \in FirstMatch(a, i) : W(x) = W(y)
  <2>1. W(y) \in Verdict(a, i)
    BY <1>1
  <2> QED BY <1>1, <2>1
<1> QED BY <1>2, <1>3, <1>4 DEF Drafts

\* What the same verdict says of a draft is the same.
LEMMA SaysKept ==
  ASSUME NEW a, NEW b, NEW t, NEW v, NEW row, NEW out,
         out.rule = row.rule, out.does = row.does, out.repo = row.repo,
         \A s \in Statuses : Verdict(a, ItemOf(t, v, s)) = Verdict(b, ItemOf(t, v, s))
  PROVE  /\ Says(a, t, v, row) => Says(b, t, v, out)
         /\ Always(a, t, v) <=> Always(b, t, v)
<1>1. ASSUME NEW s \in Statuses, NEW x \in FirstMatch(a, ItemOf(t, v, s)),
             Drafts({x}), x.id = row.rule,
             x.value.suggestedAction = row.does, x.value.repositoryId = row.repo
      PROVE  Says(b, t, v, out)
  <2>1. PICK y \in FirstMatch(b, ItemOf(t, v, s)) :
              /\ y.id = x.id /\ y.value.mode = x.value.mode
              /\ y.value.suggestedAction = x.value.suggestedAction /\ y.value.repositoryId = x.value.repositoryId
    BY VerdictDrafts
  <2>2. Drafts({y})
    BY <1>1, <2>1 DEF Drafts
  <2> QED BY <1>1, <2>1, <2>2 DEF Says
<1>2. \A s \in Statuses : Drafts(FirstMatch(a, ItemOf(t, v, s))) <=> Drafts(FirstMatch(b, ItemOf(t, v, s)))
  BY VerdictDrafts
<1> QED BY <1>1, <1>2 DEF Says, Always

\* A draft is current if the rules say it of the version its task is of.
LEMMA CurrentIs ==
  ASSUME NEW n, NEW t, t = rows[n].task
  PROVE  Current(n) <=> Here(t) /\ rows[n].ver = Version(t) /\ Says(ActiveRules, t, Version(t), rows[n])
  BY DEF Current, Says, ItemAs, ItemOf

\* Unless it undoes a change, a step keeps all but the names of the rules of provider p.
RulesKept(p) == ~unheard' => ~unheard /\ SameRules(rule, rule', p)

\* Every other change of a rule enqueues the providers it touches.
LEMMA RulesStep ==
  ASSUME Typed, DraftsStep, NEW p
  PROVE  p \in queued' \/ RulesKept(p)
<1>0. /\ RuleTypes /\ \A r \in Rules : rule[r].enabled \in BOOLEAN
      /\ rule = [r \in Rules |-> rule[r]]
  BY EnabledType DEF Typed, RuleTypes
<1>1. ASSUME UNCHANGED <<rule, unheard>> PROVE RulesKept(p)
  BY <1>0, <1>1 DEF RulesKept, SameRules
<1>2. CASE UNCHANGED ruleVars
  BY <1>1, <1>2 DEF ruleVars
<1>3. ASSUME NEW r \in Rules, NEW v, rule' = [rule EXCEPT ![r] = v], v.enabled \in BOOLEAN,
             ~(rule[r].enabled /\ rule[r].provider = p), ~(v.enabled /\ v.provider = p)
      PROVE  SameRules(rule, rule', p)
  <2>1. rule'[r] = v /\ \A q \in Rules : q # r => rule'[q] = rule[q]
    BY <1>0, <1>3
  <2> QED BY <1>0, <1>3, <2>1 DEF SameRules
<1>4. ASSUME NEW e \in Editors, WriteRule(e), p \notin queued' PROVE RulesKept(p)
  <2> DEFINE x == edit[e]
             r == x.rule
             old == rule[r]
             new == x.new
             told == Touched(x.old, new)
  <2>1. /\ r \in Rules /\ old # NoRule /\ (old # GoneRule => ProperRule(old))
        /\ new = GoneRule \/ ProperRule(new)
        /\ GoneRule.enabled = FALSE /\ old.enabled \in BOOLEAN /\ new.enabled \in BOOLEAN
    <3>1. GoneRule.enabled = FALSE
      BY DEF GoneRule
    <3> QED BY <1>0, <1>4, <3>1 DEF WriteRule, RuleTypes, EditRight, There, ProperRule
  <2>2. /\ rule' = [rule EXCEPT ![r] = new]
        /\ unheard' = (unheard \/ ~(Touched(old, new) \subseteq told))
        /\ told # {} => queued' = queued \cup told
    BY <1>4 DEF WriteRule, Enqueue
  <2> HIDE DEF told
  <2>3. p \notin told
    BY <1>4, <2>2
  <2> SUFFICES ASSUME p \notin Touched(old, new) PROVE SameRules(rule, rule', p)
    BY <2>2, <2>3 DEF RulesKept
  <2> HIDE DEF x, r, old, new
  <2>4. rule'[r] = new /\ \A q \in Rules : q # r => rule'[q] = rule[q]
    BY <1>0, <2>1, <2>2
  <2>5. old = rule[r]
    BY DEF old
  <2>6. CASE old = GoneRule /\ new = GoneRule
    BY <1>0, <2>4, <2>5, <2>6 DEF SameRules
  <2>7. CASE old # GoneRule /\ new # GoneRule /\ ~ShouldReconcile(old, new)
    <3>1. \A f \in RuleFields \ {"name"} : old[f] = new[f]
      BY <2>1, <2>7 DEF ShouldReconcile, ProperRule
    <3>2. {"enabled", "provider"} \subseteq RuleFields \ {"name"}
      BY DEF RuleFields, Fields, Required
    <3>3. new.enabled = old.enabled /\ new.provider = old.provider
      BY <3>1, <3>2
    <3> QED BY <1>0, <2>1, <2>4, <2>5, <3>1, <3>3 DEF SameRules
  <2>8. CASE ~(old = GoneRule /\ new = GoneRule)
             /\ ~(old # GoneRule /\ new # GoneRule /\ ~ShouldReconcile(old, new))
    <3>1. ~(old.enabled /\ old.provider = p) /\ ~(new.enabled /\ new.provider = p)
      BY <2>1, <2>8 DEF Touched
    <3> QED BY <1>3, <2>1, <2>2, <2>5, <3>1
  <2> QED BY <2>6, <2>7, <2>8
<1>5. ASSUME NEW r \in Rules, AskDeleteRule(r) PROVE RulesKept(p)
  BY <1>1, <1>5 DEF AskDeleteRule, Asked
<1>6. ASSUME NEW r \in Rules, NEW dto \in RuleDtos, CreateRule(r, dto)
      PROVE  p \in queued' \/ RulesKept(p)
  <2>1. /\ rule' = [rule EXCEPT ![r] = Created(dto)] /\ UNCHANGED unheard
        /\ rule[r] = NoRule /\ Created(dto).enabled \in BOOLEAN /\ Created(dto).provider = dto.provider
        /\ Created(dto).enabled => queued' = queued \cup {dto.provider}
    BY <1>6, CreatedProper, DraftsAssumption DEF CreateRule, Enqueue, ProperRule
  <2>2. NoRule.enabled = FALSE
    BY DEF NoRule
  <2> QED BY <1>3, <2>1, <2>2 DEF RulesKept
<1>7. ASSUME NEW r \in Rules, NEW dto \in Patches, AskUpdateRule(r, dto) PROVE RulesKept(p)
  BY <1>1, <1>7 DEF AskUpdateRule, Asked
<1> QED BY <1>2, <1>4, <1>5, <1>6, <1>7, RuleWriters DEF RuleEdits

\* Then what the rules say of a task of the provider stays.
LEMMA VerdictsKept ==
  ASSUME NEW p, RulesKept(p), ~unheard', NEW t, ProviderOf(t) = p, NEW v, NEW s
  PROVE  /\ ~unheard
         /\ Verdict(ActiveRules, ItemOf(t, v, s)) = Verdict(ActiveRules', ItemOf(t, v, s))
<1>1. ItemOf(t, v, s).provider = p
  BY DEF ItemOf
<1>2. ActiveRules = ActiveOf(rule) /\ ActiveRules' = ActiveOf(rule')
  BY DEF ActiveRules, ActiveOf
<1> QED BY <1>1, <1>2, SameVerdict DEF RulesKept

-----------------------------------------------------------------------------
(* What keeps the drafts of a task as they should be.                      *)

\* A draft stays right while its task and the rules of its provider stay.
LEMMA RightRowKept ==
  ASSUME Typed, DraftsStep, NEW t \in Tasks, NEW n \in DOMAIN rows, rows[n].task = t, RightRow(n, t),
         Here(t)', Version(t)' = Version(t), RulesKept(ProviderOf(t))
  PROVE  RightRow(n, t)'
<1>1. SameDraft(rows'[n], rows[n]) /\ rows[n].rule \in Rules
  BY RowsStep, RowType DEF RowsKept
<1>2. rows'[n].ver = Version(t)'
  BY <1>1 DEF RightRow, SameDraft
<1>3. ASSUME ~unheard' PROVE Says(ActiveRules', t, Version(t)', rows'[n])
  <2>1. Says(ActiveRules, t, Version(t), rows[n])
    BY <1>3 DEF RightRow, RulesKept
  <2>2. \A s \in Statuses : Verdict(ActiveRules, ItemOf(t, Version(t), s)) = Verdict(ActiveRules', ItemOf(t, Version(t), s))
    BY <1>3, VerdictsKept
  <2>3. Says(ActiveRules', t, Version(t), rows'[n])
    BY <1>1, <2>1, <2>2, SaysKept DEF SameDraft
  <2> QED BY <2>3
<1> QED BY <1>2, <1>3 DEF RightRow

\* What a step does to task t, as far as its drafts depend on it.
TaskKept(t) ==
  /\ Here(t)' <=> Here(t)
  /\ Here(t) => Version(t)' = Version(t)
  /\ Stays(t)' => Stays(t)

\* A step that changes it enqueues the provider of manual tasks.
LEMMA TaskStep ==
  ASSUME Typed, DraftsStep, NEW t \in Tasks
  PROVE  ProviderOf(t) \in queued' \/ TaskKept(t)
<1>0. task \in [ManualTasks -> TaskState]
  BY DEF Typed
<1>1. CASE t \notin ManualTasks
  BY <1>1 DEF TaskKept, Here, Version, Stays, Tasks
<1>2. CASE t \in ManualTasks
  <2>0. t \notin SyncedTasks /\ ProviderOf(t) = "manual" /\ task[t] \in TaskState
    BY <1>0, <1>2, DraftsAssumption DEF ProviderOf
  <2>1. ASSUME task'[t].here = task[t].here \/ (task[t].here = "yes" /\ task'[t].here = "leaving"),
               task'[t].ver = task[t].ver
        PROVE  TaskKept(t)
    BY <1>2, <2>0, <2>1 DEF TaskKept, Here, Version, Stays
  <2>2. CASE UNCHANGED task
    BY <2>1, <2>2
  <2>3. ASSUME NEW j \in StateJobs, PersistState(j) PROVE TaskKept(t)
    BY <1>0, <2>0, <2>1, <2>3 DEF PersistState, TaskState
  <2>4. ASSUME NEW u \in ManualTasks, DeleteTask(u) PROVE TaskKept(t)
    BY <1>0, <2>0, <2>1, <2>4 DEF DeleteTask, TaskState
  <2>5. ASSUME NEW u \in ManualTasks, CreateTask(u) \/ SaveTask(u) \/ RemoveTask(u)
        PROVE  ProviderOf(t) \in queued'
    BY <2>0, <2>5 DEF CreateTask, SaveTask, RemoveTask, Enqueue
  <2>6. ASSUME NEW u \in ManualTasks, AskUpdateTask(u) PROVE TaskKept(t)
    BY <1>0, <2>0, <2>1, <2>6 DEF AskUpdateTask, TaskState
  <2> QED BY <2>2, <2>3, <2>4, <2>5, <2>6, TaskWriters DEF TaskEdits
<1> QED BY <1>1, <1>2

\* The drafts of a task stay as they should be while the task and the rules stay, no draft
\* is inserted for it, and it keeps its draft unless the user takes it or leaves the task.
LEMMA SettledKept ==
  ASSUME Typed, StartInv, DraftsStep, faults' = 0, NEW t \in Tasks, Settled(t),
         TaskKept(t), RulesKept(ProviderOf(t)),
         \A n \in DOMAIN rows' : rows'[n].task = t => n \in DOMAIN rows,
         \/ t \in taken' \/ ~Stays(t)'
         \/ t \notin taken /\ \A n \in DOMAIN rows : Ready(n) /\ rows[n].task = t => rows'[n].draft = "ready"
  PROVE  Settled(t)'
<1>0. RowsKept
  BY RowsStep
<1>1. ASSUME NEW n \in DOMAIN rows', rows'[n].draft = "ready", rows'[n].task = t PROVE RightRow(n, t)'
  <2>1. n \in DOMAIN rows /\ Ready(n) /\ rows[n].task = t
    BY <1>0, <1>1, ReadyStays DEF RowsKept, SameDraft
  <2>2. RightRow(n, t)
    BY <2>1 DEF Settled, Right
  <2>3. Here(t)' /\ Version(t)' = Version(t)
    BY <2>2 DEF RightRow, TaskKept
  <2> QED BY <2>1, <2>2, <2>3, RightRowKept
<1>2. Right(t)'
  BY <1>1 DEF Right, Ready
<1>3. ASSUME ~unheard', t \notin taken', Stays(t)', Always(ActiveRules', t, Version(t)')
      PROVE  \E n \in DOMAIN rows' : rows'[n].draft = "ready" /\ rows'[n].task = t
  <2>1. Stays(t) /\ Version(t)' = Version(t) /\ ~unheard
    BY <1>3 DEF Stays, TaskKept, RulesKept
  <2>2. \A s \in Statuses : Verdict(ActiveRules, ItemOf(t, Version(t), s)) = Verdict(ActiveRules', ItemOf(t, Version(t), s))
    BY <1>3, VerdictsKept
  <2>3. Always(ActiveRules, t, Version(t))
    BY <1>3, <2>1, <2>2, SaysKept
  <2>4. PICK n \in DOMAIN rows : Ready(n) /\ rows[n].task = t
    BY <1>3, <2>1, <2>3 DEF Settled, Drafted
  <2>5. rows'[n].draft = "ready" /\ n \in DOMAIN rows' /\ rows'[n].task = t
    BY <1>0, <1>3, <2>4 DEF RowsKept, SameDraft
  <2> QED BY <2>5
<1>4. Drafted(t)'
  BY <1>3 DEF Drafted, Ready
<1> QED BY <1>2, <1>4 DEF Settled

\* Outside of the loop, a draft is only lost with its task, or to the user.
LEMMA ReadyLost ==
  ASSUME Typed, StartInv, DraftsStep, faults' = 0, ~NoMatch, ~RefreshDraft, ~SupersedeStale,
         NEW t \in Tasks, NEW n \in DOMAIN rows, Ready(n), rows[n].task = t
  PROVE  rows'[n].draft = "ready" \/ t \in taken' \/ ~Stays(t)'
<1>0. StartTypes /\ rows[n] \in RowState
  BY RowType DEF Typed
<1>1. CASE UNCHANGED <<rows, start, sent>>
  BY <1>1 DEF Ready
<1>2. ASSUME NEW u \in ManualTasks, DeleteTask(u) PROVE rows'[n].draft = "ready" \/ ~Stays(t)'
  <2>1. CASE u = t
    <3>1. task'[t].here = "leaving"
      BY <1>2, <2>1 DEF DeleteTask, Typed, TaskState
    <3> QED BY <1>2, <2>1, <3>1 DEF Stays
  <2>2. CASE u # t
    <3>1. rows' = Superseded(rows, {u}, NoFind)
      BY <1>2 DEF DeleteTask
    <3>2. rows'[n] = IF Ready(n) /\ rows[n].task \in {u} /\ n # NoFind
                           THEN [rows[n] EXCEPT !.draft = "superseded"] ELSE rows[n]
      BY <3>1, SupersedingKeeps
    <3> QED BY <2>2, <3>2 DEF Ready
  <2> QED BY <2>1, <2>2
<1>3. ASSUME NEW s \in Starters, Claim(s) PROVE rows'[n].draft = "ready" \/ t \in taken'
  <2>1. start[s].row \in DOMAIN rows
    BY <1>0, <1>3 DEF Claim, StartTypes
  <2>2. CASE UNCHANGED rows
    BY <2>2 DEF Ready
  <2>3. CASE Startable(start[s].row) /\ rows' = [rows EXCEPT ![start[s].row].draft = "none", ![start[s].row].run = "active"]
             /\ Took(start[s].row)
    <3>1. CASE start[s].row = n
      BY <2>3, <3>1 DEF Took
    <3>2. CASE start[s].row # n
      BY <2>1, <2>3, <3>2, EditSteps DEF Edited, Ready
    <3> QED BY <3>1, <3>2
  <2> QED BY <1>3, <2>2, <2>3 DEF Claim
<1>4. ASSUME NEW s \in Starters, StartEdits(s), ~Claim(s) PROVE rows'[n].draft = "ready"
  BY <1>4, OtherStarts DEF Ready
<1>5. ASSUME NEW m \in DOMAIN rows, Discard(m) PROVE rows'[n].draft = "ready" \/ t \in taken'
  <2>1. CASE m = n
    BY <1>5, <2>1 DEF Discard, Took
  <2>2. CASE m # n
    BY <1>5, <2>2 DEF Discard, Ready, Typed, RowTypes
  <2> QED BY <2>1, <2>2
<1>6. ASSUME NEW m \in DOMAIN rows, Settle(m) PROVE rows'[n].draft = "ready"
  BY <1>6, EditSteps DEF Settle, Edited, Ready
<1> QED BY <1>1, <1>2, <1>3, <1>4, <1>5, <1>6, RowWriters DEF StartEdits

\* What the user has taken stays taken until a draft is inserted.
LEMMA TakenStays ==
  ASSUME DraftsStep, ~RefreshDraft
  PROVE  taken \subseteq taken'
<1>1. ASSUME NEW s \in Starters, Claim(s) PROVE taken \subseteq taken'
  BY <1>1 DEF Claim, Took
<1> QED BY <1>1, TakenWriters DEF Took

-----------------------------------------------------------------------------
(* What the loop has read stays fresh.                                     *)

\* Where the loop can be after a step.
LEMMA LoopGoes ==
  ASSUME Typed, DraftsStep
  PROVE  /\ Drain \/ queued \subseteq queued'
         /\ loop' = loop \/ LoopStep \/ PassFails \/ (loop.pc = "idle" /\ loop' = RestingLoop("scheduled", {}))
         /\ loop'.pc = "tasks" => LoadRules \/ loop' = loop
         /\ loop'.pc = "refresh" => FindDraft \/ loop' = loop
         /\ loop'.pc \in {"each", "refresh"} => LoadTasks \/ loop'.rules = loop.rules
<1>0. LoopTypes
  BY DEF Typed
<1>1. CASE UNCHANGED <<queued, loop>>
  BY <1>1
<1>2. ASSUME NEW ps \in SUBSET Providers, Enqueue(ps)
      PROVE  queued \subseteq queued' /\ (loop' = loop \/ (loop.pc = "idle" /\ loop' = RestingLoop("scheduled", {})))
  BY <1>2, Resting DEF Enqueue, Scheduled
<1>3. loop' = RestingLoop("scheduled", {}) => loop'.pc = "scheduled"
  BY DEF RestingLoop
<1>4. PassFails => UNCHANGED queued /\ loop'.pc = "again"
  <2>1. RestingLoop("again", {}).pc = "again"
    BY DEF RestingLoop
  <2> QED BY <2>1, Resting DEF PassFails
<1>5. Drain => loop'.pc \in {"idle", "rules"}
  <2>1. queued \in SUBSET Providers
    BY <1>0 DEF LoopTypes
  <2>2. Drain => loop' = RestingLoop("idle", {}) \/ loop' = RestingLoop("rules", queued)
    BY <2>1, Resting DEF Drain
  <2> QED BY <2>2 DEF RestingLoop
<1>6. LoadRules => UNCHANGED queued /\ loop'.pc = "tasks"
  BY <1>0 DEF LoadRules, LoopTypes
<1>7. LoadTasks => UNCHANGED queued /\ loop'.pc = "each"
  BY LoadedTasks
<1>8. NoMatch \/ RefreshDraft => UNCHANGED queued /\ loop'.pc = "each" /\ loop'.rules = loop.rules
  BY <1>0 DEF NoMatch, RefreshDraft, ItemDone, LoopTypes
<1>9. FindDraft => UNCHANGED queued /\ loop'.pc = "refresh" /\ loop'.rules = loop.rules
  <2>1. FindDraft => \E f : loop' = [loop EXCEPT !.pc = "refresh", !.found = f]
    BY DEF FindDraft
  <2> QED BY <1>0, <2>1 DEF FindDraft, LoopTypes
<1>10. ListStale => UNCHANGED queued /\ loop'.pc \in {"again", "stale"}
  <2>1. ListStale => \E s : \/ loop' = [loop EXCEPT !.pc = "again", !.stale = s]
                            \/ loop' = [loop EXCEPT !.pc = "stale", !.stale = s]
    BY DEF ListStale
  <2> QED BY <1>0, <2>1 DEF ListStale, LoopTypes
<1>11. SupersedeStale => UNCHANGED queued /\ loop'.pc = "again"
  BY <1>0 DEF SupersedeStale, LoopTypes
<1> QED BY <1>1, <1>2, <1>3, <1>4, <1>5, <1>6, <1>7, <1>8, <1>9, <1>10, <1>11, LoopWriters DEF LoopStep

\* Rules the loop has read stay fresh while the rules of the provider do.
LEMMA FreshKept ==
  ASSUME NEW p, Fresh(p), RulesKept(p), loop'.rules = loop.rules
  PROVE  Fresh(p)'
<1>1. ASSUME ~unheard', NEW t \in Tasks, NEW n \in 0..MaxVersions, NEW s \in Statuses, ProviderOf(t) = p
      PROVE  Verdict(loop'.rules, ItemOf(t, n, s)) = Verdict(ActiveRules', ItemOf(t, n, s))
  <2>1. ~unheard /\ Verdict(ActiveRules, ItemOf(t, n, s)) = Verdict(ActiveRules', ItemOf(t, n, s))
    BY <1>1, VerdictsKept
  <2>2. Verdict(loop.rules, ItemOf(t, n, s)) = Verdict(ActiveRules, ItemOf(t, n, s))
    BY <1>1, <2>1 DEF Fresh
  <2> QED BY <2>1, <2>2
<1> QED BY <1>1 DEF Fresh

\* So do tasks.
LEMMA TasksFreshKept ==
  ASSUME Typed, NEW p, TasksFresh(p), loop'.seen = loop.seen, loop'.todo \subseteq loop.todo,
         \A t \in Tasks : ProviderOf(t) = p => TaskKept(t)
  PROVE  TasksFresh(p)'
<1>0. LoopTypes
  BY DEF Typed
<1>1. ASSUME NEW t \in Tasks, ProviderOf(t) = p PROVE t \in loop'.seen <=> Here(t)'
  BY <1>1 DEF TasksFresh, TaskKept
<1>2. ASSUME NEW i \in loop'.todo, i.provider = p, NEW t, t = i.task PROVE i.ver = Version(t)'
  <2>1. i \in loop.todo /\ t \in loop.seen /\ t \in Tasks /\ i = ItemOf(t, i.ver, i.status)
    BY <1>0, <1>2 DEF LoopTypes
  <2>2. ProviderOf(t) = p
    BY <1>2, <2>1 DEF ItemOf
  <2>3. Here(t) /\ i.ver = Version(t)
    BY <1>2, <2>1, <2>2 DEF TasksFresh
  <2> QED BY <2>1, <2>2, <2>3 DEF TaskKept
<1> QED BY <1>1, <1>2 DEF TasksFresh

\* What changes is enqueued, or the loop has not read it yet.
LEMMA LoopIsFreshStep ==
  ASSUME Typed, LoopIsFresh, DraftsStep
  PROVE  LoopIsFresh'
<1>0. LoopTypes
  BY DEF Typed
<1> SUFFICES ASSUME NEW p \in loop'.providers, p \notin queued'
             PROVE  /\ loop'.pc \in {"tasks", "each", "refresh"} => Fresh(p)'
                    /\ loop'.pc \in {"each", "refresh"} => TasksFresh(p)'
  BY DEF LoopIsFresh
<1>1. RulesKept(p) /\ \A t \in Tasks : ProviderOf(t) = p => TaskKept(t)
  BY RulesStep, TaskStep
<1>2. CASE Drain
  <2>1. queued \in SUBSET Providers
    BY <1>0 DEF LoopTypes
  <2>2. loop' = RestingLoop("idle", {}) \/ loop' = RestingLoop("rules", queued)
    BY <1>2, <2>1, Resting DEF Drain
  <2> QED BY <2>2 DEF RestingLoop
<1>3. CASE LoadRules
  <2>1. loop'.rules = ActiveRules /\ loop'.pc = "tasks" /\ UNCHANGED <<rule, unheard>>
    BY <1>0, <1>3 DEF LoadRules, LoopTypes, ruleVars
  <2>2. ActiveRules' = ActiveRules
    BY <2>1 DEF ActiveRules
  <2>3. Fresh(p)'
    BY <2>1, <2>2 DEF Fresh
  <2> QED BY <2>1, <2>3
<1>4. CASE LoadTasks
  <2>1. /\ loop'.rules = loop.rules /\ p \in loop.providers /\ p \notin queued /\ loop.pc = "tasks"
        /\ UNCHANGED task
        /\ loop'.seen = {t \in Tasks : Here(t) /\ ProviderOf(t) \in loop.providers}
        /\ \A i \in loop'.todo : i.ver = Version(i.task)
    BY <1>4, LoadedTasks DEF LoadTasks
  <2>2. Fresh(p)'
    BY <1>1, <2>1, FreshKept DEF LoopIsFresh
  <2>3. \A t : Here(t)' = Here(t) /\ Version(t)' = Version(t)
    BY <2>1 DEF Here, Version
  <2>4. TasksFresh(p)'
    BY <2>1, <2>3 DEF TasksFresh
  <2> QED BY <2>2, <2>4
<1>5. CASE ~Drain /\ ~LoadRules /\ ~LoadTasks
  <2>1. p \notin queued
    BY <1>5, LoopGoes
  <2>2. CASE loop'.pc = "tasks"
    <3>1. loop' = loop
      BY <1>5, <2>2, LoopGoes
    <3> QED BY <1>1, <2>1, <2>2, <3>1, FreshKept DEF LoopIsFresh
  <2>3. CASE loop'.pc \in {"each", "refresh"}
    <3>1. loop'.rules = loop.rules
      BY <1>5, <2>3, LoopGoes
    <3>2. /\ loop'.seen = loop.seen /\ loop'.todo \subseteq loop.todo /\ loop'.providers = loop.providers
          /\ loop.pc \in {"each", "refresh"}
      BY <1>5, <2>3, LoopMoves
    <3>3. Fresh(p) /\ TasksFresh(p)
      BY <2>1, <3>2 DEF LoopIsFresh
    <3> QED BY <1>1, <3>1, <3>2, <3>3, FreshKept, TasksFreshKept
  <2> QED BY <2>2, <2>3
<1> QED BY <1>2, <1>3, <1>4, <1>5

-----------------------------------------------------------------------------
(* The loop comes to every task, and leaves its drafts as they should be.  *)

\* The draft that was found is the task's own until it is refreshed.
LEMMA FoundStep ==
  ASSUME Typed, StartInv, NotYet, FoundIsOwn, DraftsStep, faults' = 0
  PROVE  FoundIsOwn'
<1>0. LoopTypes /\ RowsKept /\ loop.found \in 0..Len(rows) /\ DOMAIN rows = 1..Len(rows) /\ Len(rows) \in Nat
  BY RowsStep DEF Typed, RowTypes, LoopTypes
<1> SUFFICES ASSUME loop'.pc = "refresh", loop'.found # NoFind
             PROVE  /\ rows'[loop'.found].task = Item'.task
                    /\ \E x \in MatchOf(Item)' :
                         rows'[loop'.found].rule = x.id /\ rows'[loop'.found].repo = x.value.repositoryId
                    /\ \/ rows'[loop'.found].draft = "ready" \/ Item'.task \in taken' \/ ~Stays(Item.task)'
                       \/ ProviderOf(Item'.task) \in queued'
  BY DEF FoundIsOwn, Ready, ProviderOf
<1>1. CASE FindDraft
  <2>1. PICK x \in MatchOf(Item) :
          LET own == {n \in DOMAIN rows : Ready(n) /\ rows[n].task = Item.task
                                       /\ rows[n].rule = x.id
                                       /\ rows[n].repo = x.value.repositoryId}
          IN  loop' = [loop EXCEPT !.pc = "refresh", !.found = Max(own \cup {NoFind})]
    BY <1>1 DEF FindDraft
  <2> DEFINE own == {n \in DOMAIN rows : Ready(n) /\ rows[n].task = Item.task
                                       /\ rows[n].rule = x.id
                                       /\ rows[n].repo = x.value.repositoryId}
             S == own \cup {NoFind}
  <2>2. Max(S) \in S
    <3>1. S \subseteq 0..Len(rows) /\ S # {}
      BY <1>0 DEF NoFind
    <3> HIDE DEF S
    <3> QED BY <1>0, <3>1, HasMax
  <2>3. loop' = [loop EXCEPT !.pc = "refresh", !.found = Max(S)] /\ UNCHANGED rows
    BY <1>1, <2>1 DEF FindDraft
  <2>4. loop'.found = Max(S) /\ loop'.todo = loop.todo /\ loop'.rules = loop.rules
    <3> HIDE DEF S
    <3> QED BY <1>0, <2>3 DEF LoopTypes
  <2>5. Item' = Item /\ MatchOf(Item)' = MatchOf(Item)
    BY <2>4 DEF Item, MatchOf
  <2>6. loop'.found \in own
    BY <2>2, <2>4
  <2> QED BY <2>3, <2>5, <2>6 DEF Ready
<1>2. CASE loop' = loop
  <2>1. Item' = Item /\ MatchOf(Item)' = MatchOf(Item)
    BY <1>2 DEF Item, MatchOf
  <2> DEFINE n == loop.found
  <2>2. n \in DOMAIN rows /\ SameDraft(rows'[n], rows[n])
    BY <1>0, <1>2 DEF RowsKept, NoFind
  <2>3. ~NoMatch /\ ~RefreshDraft /\ ~SupersedeStale
    <3>1. RefreshDraft => loop'.pc = "each"
      BY <1>0 DEF RefreshDraft, ItemDone, LoopTypes
    <3> QED BY <1>2, <3>1 DEF NoMatch, SupersedeStale
  <2>4. /\ rows[n].task = Item.task
        /\ \E x \in MatchOf(Item) : rows[n].rule = x.id /\ rows[n].repo = x.value.repositoryId
        /\ Ready(n) \/ Item.task \in taken \/ ~Stays(Item.task) \/ ProviderOf(Item.task) \in queued
    BY <1>2 DEF FoundIsOwn
  <2>5. rows'[n].task = Item'.task
    BY <2>1, <2>2, <2>4 DEF SameDraft
  <2>6. \E x \in MatchOf(Item)' : rows'[n].rule = x.id /\ rows'[n].repo = x.value.repositoryId
    BY <2>1, <2>2, <2>4 DEF SameDraft
  <2>7. Item \in loop.todo /\ Item.task \in Tasks /\ Item.task \in loop.seen
    BY <1>0, <1>2, ItemType DEF LoopTypes
  <2>8. ASSUME NEW t, t = Item.task
        PROVE  rows'[n].draft = "ready" \/ t \in taken' \/ ~Stays(t)' \/ ProviderOf(t) \in queued'
    <3>1. CASE Ready(n)
      BY <2>2, <2>3, <2>4, <2>7, <2>8, <3>1, ReadyLost
    <3>2. CASE t \in taken
      BY <2>3, <3>2, TakenStays
    <3>3. CASE ~Stays(t) /\ ProviderOf(t) \notin queued'
      <4>1. Stays(t)' => Stays(t)
        <5>1. CASE t \in ManualTasks
          <6>1. task'[t].here = "yes" => task[t].here \in {"no", "yes"}
            BY <3>3, <5>1, TaskSteps, Saves DEF TaskMoves
          <6>2. task[t].here # "no"
            BY <2>7, <2>8, <5>1 DEF NotYet
          <6> QED BY <5>1, <6>1, <6>2 DEF Stays, Here
        <5>2. CASE t \notin ManualTasks
          BY <5>2 DEF Stays, Here
        <5> QED BY <5>1, <5>2
      <4> QED BY <3>3, <4>1
    <3>4. ProviderOf(t) \in queued => ProviderOf(t) \in queued'
      BY QueueKept
    <3> QED BY <2>4, <2>8, <3>1, <3>2, <3>3, <3>4
  <2>9. \/ rows'[n].draft = "ready" \/ Item'.task \in taken' \/ ~Stays(Item.task)'
        \/ ProviderOf(Item'.task) \in queued'
    BY <2>1, <2>8
  <2> QED BY <1>2, <2>5, <2>6, <2>9
<1> QED BY <1>1, <1>2, LoopGoes

\* What the loop's rules say of the item, the rules say of its task.
LEMMA FreshSays ==
  ASSUME Typed, loop.todo # {}, NEW t, t = Item.task, Fresh(ProviderOf(t)), TasksFresh(ProviderOf(t))
  PROVE  /\ t \in Tasks /\ Here(t) /\ Item.ver = Version(t) /\ Item.status \in Statuses
         /\ Item = ItemOf(t, Version(t), Item.status) /\ Item.provider = ProviderOf(t)
         /\ ~unheard => \A s \in Statuses : Verdict(loop.rules, ItemOf(t, Version(t), s)) = Verdict(ActiveRules, ItemOf(t, Version(t), s))
<1>0. LoopTypes
  BY DEF Typed
<1>1. /\ Item \in loop.todo /\ t \in Tasks /\ Item.ver \in 0..MaxVersions
      /\ Item = ItemOf(t, Item.ver, Item.status) /\ Item.status \in Statuses
      /\ Item.provider = ProviderOf(t) /\ t \in loop.seen
  BY <1>0, ItemType DEF LoopTypes
<1>2. Here(t) /\ Item.ver = Version(t)
  BY <1>1 DEF TasksFresh
<1> QED BY <1>1, <1>2 DEF Fresh

\* A task without a match loses its drafts.
LEMMA NoMatchSettles ==
  ASSUME Typed, NoMatch, NEW t, t = Item.task, Fresh(ProviderOf(t)), TasksFresh(ProviderOf(t))
  PROVE  Settled(t)'
<1>1. /\ loop.todo # {} /\ ~Drafts(MatchOf(Item)) /\ rows' = Superseded(rows, {t}, NoFind)
      /\ UNCHANGED <<task, rule, unheard, taken>>
  BY DEF NoMatch, ruleVars
<1>2. \A n \in DOMAIN rows' : ~(rows'[n].draft = "ready" /\ rows'[n].task = t)
  <2> SUFFICES ASSUME NEW n \in DOMAIN rows', rows'[n].draft = "ready", rows'[n].task = t PROVE FALSE
    OBVIOUS
  <2>1. n \in DOMAIN rows /\ SameDraft(rows'[n], rows[n])
        /\ rows'[n] = IF Ready(n) /\ rows[n].task \in {t} /\ n # NoFind
                        THEN [rows[n] EXCEPT !.draft = "superseded"] ELSE rows[n]
    BY <1>1, SupersedingKeeps DEF RowsKept
  <2>2. n # NoFind /\ rows[n] \in RowState
    BY <2>1, RowType DEF NoFind
  <2> QED BY <2>1, <2>2 DEF SameDraft, Ready, RowState
<1>3. Right(t)'
  BY <1>2 DEF Right, Ready
<1>4. ASSUME ~unheard', Always(ActiveRules', t, Version(t)') PROVE FALSE
  <2>1. ~unheard /\ Always(ActiveRules, t, Version(t))
    BY <1>1, <1>4 DEF ActiveRules, Version
  <2>2. Always(loop.rules, t, Version(t))
    <3>1. \A s \in Statuses : Verdict(loop.rules, ItemOf(t, Version(t), s)) = Verdict(ActiveRules, ItemOf(t, Version(t), s))
      BY <1>1, <2>1, FreshSays
    <3>2. Always(loop.rules, t, Version(t)) <=> Always(ActiveRules, t, Version(t))
      BY <3>1, VerdictDrafts DEF Always
    <3> QED BY <2>1, <3>2
  <2>3. Item.status \in Statuses /\ Item = ItemOf(t, Version(t), Item.status)
    BY <1>1, FreshSays
  <2> QED BY <1>1, <2>2, <2>3 DEF Always, MatchOf
<1>5. Drafted(t)'
  BY <1>4 DEF Drafted
<1> QED BY <1>3, <1>5 DEF Settled

\* A task with a match gets its draft or keeps it.
LEMMA RefreshSettles ==
  ASSUME Typed, RefreshDraft, FoundIsOwn, NEW t, t = Item.task, ProviderOf(t) \notin queued,
         Fresh(ProviderOf(t)), TasksFresh(ProviderOf(t))
  PROVE  Settled(t)'
<1>0. /\ LoopTypes /\ loop.todo # {} /\ Drafts(MatchOf(Item)) /\ loop.pc = "refresh" /\ loop.found \in 0..Len(rows)
      /\ UNCHANGED <<task, rule, unheard>> /\ DOMAIN rows = 1..Len(rows) /\ Len(rows) \in Nat
  BY DEF Typed, LoopTypes, RefreshDraft, ruleVars, RowTypes
<1>1. /\ t \in Tasks /\ Here(t) /\ Item.ver = Version(t) /\ Item.status \in Statuses
      /\ Item = ItemOf(t, Version(t), Item.status) /\ Item.provider = ProviderOf(t)
      /\ ~unheard => \A s \in Statuses : Verdict(loop.rules, ItemOf(t, Version(t), s)) = Verdict(ActiveRules, ItemOf(t, Version(t), s))
  BY <1>0, FreshSays
<1>2. PICK x \in MatchOf(Item) :
           /\ LoadedRule(x) /\ x.value.mode = "draft" /\ RowsKept /\ x.value.suggestedAction \in Actions
           /\ \/ /\ loop.found # NoFind /\ SameVersion(rows[loop.found], x, Item)
                 /\ Len(rows') = Len(rows) /\ DOMAIN rows' = DOMAIN rows /\ UNCHANGED taken
                 /\ \A n \in DOMAIN rows :
                      rows'[n] = IF Ready(n) /\ rows[n].task = Item.task /\ n # loop.found
                                   THEN [rows[n] EXCEPT !.draft = "superseded"] ELSE rows[n]
              \/ /\ DOMAIN rows' = DOMAIN rows \cup {Len(rows) + 1}
                 /\ rows'[Len(rows) + 1] = Draft(Item, x)
                 /\ \A n \in DOMAIN rows :
                      rows'[n] = IF Ready(n) /\ rows[n].task = Item.task
                                   THEN [rows[n] EXCEPT !.draft = "superseded"] ELSE rows[n]
  BY RefreshingKeeps
<1>3. x \in loop.rules /\ x.value.provider = ProviderOf(t) /\ MatchOf(Item) = {x}
  BY <1>0, <1>1, <1>2, MatchType
<1>4. ASSUME NEW n, rows'[n].ver = Item.ver, rows'[n].rule = x.id,
             rows'[n].does = x.value.suggestedAction, rows'[n].repo = x.value.repositoryId
      PROVE  RightRow(n, t)'
  <2>1. Here(t)' /\ rows'[n].ver = Version(t)' /\ Version(t)' = Version(t)
    BY <1>0, <1>1, <1>4 DEF Here, Version
  <2>2. ASSUME ~unheard' PROVE Says(ActiveRules', t, Version(t)', rows'[n])
    <3>1. Says(loop.rules, t, Version(t), rows'[n])
      <4>1. x \in FirstMatch(loop.rules, ItemOf(t, Version(t), Item.status))
        BY <1>1, <1>2 DEF MatchOf
      <4>2. Drafts({x})
        BY <1>2 DEF Drafts, Actions, Null
      <4> QED BY <1>1, <1>4, <4>1, <4>2 DEF Says
    <3>2. \A s \in Statuses : Verdict(loop.rules, ItemOf(t, Version(t), s)) = Verdict(ActiveRules, ItemOf(t, Version(t), s))
      BY <1>0, <1>1, <2>2
    <3>3. Says(ActiveRules, t, Version(t), rows'[n])
      BY <3>1, <3>2, SaysKept
    <3>4. ActiveRules' = ActiveRules
      BY <1>0 DEF ActiveRules
    <3> QED BY <2>1, <3>3, <3>4
  <2> QED BY <2>1, <2>2 DEF RightRow
<1>5. CASE /\ loop.found # NoFind /\ SameVersion(rows[loop.found], x, Item)
           /\ DOMAIN rows' = DOMAIN rows /\ UNCHANGED taken
           /\ \A n \in DOMAIN rows :
                rows'[n] = IF Ready(n) /\ rows[n].task = Item.task /\ n # loop.found
                             THEN [rows[n] EXCEPT !.draft = "superseded"] ELSE rows[n]
  <2> DEFINE f == loop.found
  <2>1. /\ f \in DOMAIN rows /\ rows[f].task = t /\ rows[f].rule = x.id /\ rows[f].repo = x.value.repositoryId
        /\ Ready(f) \/ t \in taken \/ ~Stays(t)
    BY <1>0, <1>3, <1>5 DEF FoundIsOwn, NoFind
  <2>2. rows'[f] = rows[f] /\ rows[f].ver = Item.ver /\ rows[f].does = x.value.suggestedAction
    BY <1>5, <2>1 DEF SameVersion
  <2>4. ASSUME NEW n \in DOMAIN rows', rows'[n].draft = "ready", rows'[n].task = t, n # f PROVE FALSE
    <3>1. n \in DOMAIN rows /\ rows[n] \in RowState /\ rows[n].task = t
      BY <1>2, <1>5, <2>4, RowType DEF RowsKept, SameDraft
    <3> QED BY <1>5, <2>4, <3>1 DEF Ready, RowState
  <2>3. ASSUME NEW n \in DOMAIN rows', rows'[n].draft = "ready", rows'[n].task = t PROVE RightRow(n, t)'
    <3>1. n = f
      BY <2>3, <2>4
    <3>2. /\ rows'[n].ver = Item.ver /\ rows'[n].rule = x.id
          /\ rows'[n].does = x.value.suggestedAction /\ rows'[n].repo = x.value.repositoryId
      BY <2>1, <2>2, <3>1
    <3> QED BY <1>4, <3>2
  <2>5. Right(t)'
    BY <2>3 DEF Right, Ready
  <2>6. Stays(t)' = Stays(t)
    BY <1>0 DEF Stays, Here
  <2>7. Drafted(t)'
    <3>1. Ready(f) => f \in DOMAIN rows' /\ rows'[f].draft = "ready" /\ rows'[f].task = t
      BY <1>5, <2>1, <2>2 DEF Ready
    <3> QED BY <1>5, <2>1, <2>6, <3>1 DEF Drafted, Ready
  <2> QED BY <2>5, <2>7 DEF Settled
<1>6. CASE /\ DOMAIN rows' = DOMAIN rows \cup {Len(rows) + 1}
           /\ rows'[Len(rows) + 1] = Draft(Item, x)
           /\ \A n \in DOMAIN rows :
                rows'[n] = IF Ready(n) /\ rows[n].task = Item.task
                             THEN [rows[n] EXCEPT !.draft = "superseded"] ELSE rows[n]
  <2> DEFINE k == Len(rows) + 1
  <2>1. /\ rows'[k].task = t /\ rows'[k].ver = Item.ver /\ rows'[k].rule = x.id /\ rows'[k].draft = "ready"
        /\ rows'[k].does = x.value.suggestedAction /\ rows'[k].repo = x.value.repositoryId
        /\ k \in DOMAIN rows'
    BY <1>6 DEF Draft
  <2> HIDE DEF k
  <2>3. ASSUME NEW n \in DOMAIN rows', rows'[n].draft = "ready", rows'[n].task = t, n # k PROVE FALSE
    <3>1. n \in DOMAIN rows /\ rows[n] \in RowState /\ rows[n].task = t
      BY <1>2, <1>6, <2>3, RowType DEF RowsKept, SameDraft, k
    <3> QED BY <1>6, <2>3, <3>1 DEF Ready, RowState
  <2>2. ASSUME NEW n \in DOMAIN rows', rows'[n].draft = "ready", rows'[n].task = t PROVE RightRow(n, t)'
    <3>1. n = k
      BY <2>2, <2>3
    <3> QED BY <1>4, <2>1, <3>1
  <2>4. Right(t)'
    BY <2>2 DEF Right, Ready
  <2>5. Drafted(t)'
    BY <2>1 DEF Drafted, Ready
  <2> QED BY <2>4, <2>5 DEF Settled
<1> QED BY <1>2, <1>5, <1>6

\* The loop's turn at one task leaves the others alone.
LEMMA OthersKept ==
  ASSUME Typed, NoMatch \/ RefreshDraft, NEW t, t # Item.task
  PROVE  /\ \A n \in DOMAIN rows' : rows'[n].task = t => n \in DOMAIN rows
         /\ \A n \in DOMAIN rows : Ready(n) /\ rows[n].task = t => rows'[n].draft = "ready"
         /\ t \in taken => t \in taken'
<1>1. CASE NoMatch
  <2>1. rows' = Superseded(rows, {Item.task}, NoFind) /\ UNCHANGED taken
    BY <1>1 DEF NoMatch
  <2>2. /\ DOMAIN rows' = DOMAIN rows
        /\ \A n \in DOMAIN rows :
              rows'[n] = IF Ready(n) /\ rows[n].task \in {Item.task} /\ n # NoFind
                           THEN [rows[n] EXCEPT !.draft = "superseded"] ELSE rows[n]
    BY <2>1, SupersedingKeeps
  <2> QED BY <2>1, <2>2 DEF Ready
<1>2. CASE RefreshDraft
  <2>1. PICK x \in MatchOf(Item) :
           /\ RowsKept
           /\ \/ /\ DOMAIN rows' = DOMAIN rows /\ UNCHANGED taken
                 /\ \A n \in DOMAIN rows :
                      rows'[n] = IF Ready(n) /\ rows[n].task = Item.task /\ n # loop.found
                                   THEN [rows[n] EXCEPT !.draft = "superseded"] ELSE rows[n]
              \/ /\ DOMAIN rows' = DOMAIN rows \cup {Len(rows) + 1}
                 /\ rows'[Len(rows) + 1] = Draft(Item, x) /\ taken' = taken \ {Item.task}
                 /\ \A n \in DOMAIN rows :
                      rows'[n] = IF Ready(n) /\ rows[n].task = Item.task
                                   THEN [rows[n] EXCEPT !.draft = "superseded"] ELSE rows[n]
    BY <1>2, RefreshingKeeps
  <2>2. Draft(Item, x).task = Item.task
    BY DEF Draft
  <2> QED BY <2>1, <2>2 DEF Ready
<1> QED BY <1>1, <1>2

\* The stale drafts are of tasks that are gone.
LEMMA StaleKept ==
  ASSUME Typed, StaleIsGone, SupersedeStale, NEW t \in Tasks, ProviderOf(t) \notin queued
  PROVE  /\ DOMAIN rows' = DOMAIN rows /\ UNCHANGED <<task, taken>>
         /\ t \in loop.stale => ~Stays(t) /\ \A n \in DOMAIN rows' : ~(rows'[n].draft = "ready" /\ rows'[n].task = t)
         /\ t \notin loop.stale => \A n \in DOMAIN rows : Ready(n) /\ rows[n].task = t => rows'[n].draft = "ready"
<1>1. rows' = Superseded(rows, loop.stale, NoFind) /\ UNCHANGED <<task, taken>> /\ loop.pc = "stale"
  BY DEF SupersedeStale
<1>2. /\ DOMAIN rows' = DOMAIN rows /\ RowsKept
      /\ \A n \in DOMAIN rows :
              rows'[n] = IF Ready(n) /\ rows[n].task \in loop.stale /\ n # NoFind
                           THEN [rows[n] EXCEPT !.draft = "superseded"] ELSE rows[n]
  BY <1>1, SupersedingKeeps
<1>3. ASSUME t \in loop.stale, NEW n \in DOMAIN rows', rows'[n].draft = "ready", rows'[n].task = t PROVE FALSE
  <2>1. n \in DOMAIN rows /\ rows[n] \in RowState /\ n # NoFind /\ rows[n].task = t
    BY <1>2, <1>3, RowType DEF NoFind, RowsKept, SameDraft
  <2> QED BY <1>2, <1>3, <2>1 DEF Ready, RowState
<1>4. t \in loop.stale => ~Stays(t)
  BY <1>1 DEF StaleIsGone, Stays, Here, ProviderOf
<1> QED BY <1>1, <1>2, <1>3, <1>4 DEF Ready

\* What is settled stays so, unless it is the loop's turn at the task.
LEMMA SettledStep ==
  ASSUME Typed, StartInv, StaleIsGone, DraftsStep, faults' = 0, NEW t \in Tasks, Settled(t),
         TaskKept(t), RulesKept(ProviderOf(t)), ProviderOf(t) \notin queued',
         NoMatch \/ RefreshDraft => t # Item.task
  PROVE  Settled(t)'
<1>1. CASE NoMatch \/ RefreshDraft
  BY <1>1, OthersKept, SettledKept
<1>2. CASE SupersedeStale
  <2>1. ~Stays(t) => ~Stays(t)'
    BY DEF TaskKept
  <2>2. ProviderOf(t) \notin queued
    BY <1>2 DEF SupersedeStale
  <2> QED BY <1>2, <2>1, <2>2, StaleKept, SettledKept
<1>3. CASE ~NoMatch /\ ~RefreshDraft /\ ~SupersedeStale
  <2>1. DOMAIN rows' = DOMAIN rows
    BY <1>3, RowsStep
  <2>2. t \in taken => t \in taken'
    BY <1>3, TakenStays
  <2>3. \/ t \in taken' \/ ~Stays(t)'
        \/ \A n \in DOMAIN rows : Ready(n) /\ rows[n].task = t => rows'[n].draft = "ready"
    BY <1>3, ReadyLost
  <2> QED BY <2>1, <2>2, <2>3, SettledKept
<1> QED BY <1>1, <1>2, <1>3

\* The loop's turn at a task settles it.
LEMMA TurnSettles ==
  ASSUME Typed, FoundIsOwn, LoopIsFresh, NoMatch \/ RefreshDraft, NEW t, t = Item.task, ProviderOf(t) \notin queued
  PROVE  Settled(t)'
<1>0. LoopTypes /\ loop.pc \in {"each", "refresh"} /\ loop.todo # {}
  BY DEF Typed, LoopTypes, NoMatch, RefreshDraft
<1>1. t \in loop.seen
  BY <1>0, ItemType DEF LoopTypes
<1>2. ProviderOf(t) \in loop.providers
  BY <1>0, <1>1 DEF LoopTypes
<1>3. Fresh(ProviderOf(t)) /\ TasksFresh(ProviderOf(t))
  BY <1>0, <1>2 DEF LoopIsFresh
<1> QED BY <1>3, NoMatchSettles, RefreshSettles

\* The end of the loop's pass: a task it did not read has no draft, or a stale one.
LEMMA ListStaleSettles ==
  ASSUME Typed, LoopIsFresh, ListStale, NEW t \in Tasks, ProviderOf(t) \in loop.providers,
         ProviderOf(t) \notin queued, t \notin loop.seen
  PROVE  Settled(t)' \/ (loop'.pc = "stale" /\ t \in loop'.stale /\ loop'.providers = loop.providers)
<1>0. LoopTypes /\ UNCHANGED <<task, ruleVars, rows, queued, taken>> /\ loop.pc = "each"
  BY DEF Typed, ListStale
<1> DEFINE S == {rows[n].task : n \in {m \in DOMAIN rows :
                     Ready(m) /\ ProviderOf(rows[m].task) \in loop.providers}} \ loop.seen
<1>1. loop' = [loop EXCEPT !.pc = IF S = {} THEN "again" ELSE "stale", !.stale = S]
  BY DEF ListStale
<1>2. loop'.pc = (IF S = {} THEN "again" ELSE "stale") /\ loop'.stale = S /\ loop'.providers = loop.providers
  <2> HIDE DEF S
  <2> QED BY <1>0, <1>1 DEF LoopTypes
<1>3. CASE t \in S
  BY <1>2, <1>3
<1>4. CASE t \notin S
  <2>1. \A n \in DOMAIN rows : ~(Ready(n) /\ rows[n].task = t)
    BY <1>4
  <2>2. \A n \in DOMAIN rows' : ~(rows'[n].draft = "ready" /\ rows'[n].task = t)
    BY <1>0, <2>1 DEF Ready
  <2>3. Right(t)'
    BY <2>2 DEF Right, Ready
  <2>4. ~Here(t)
    BY <1>0 DEF LoopIsFresh, TasksFresh
  <2>5. ~Stays(t)'
    BY <1>0, <2>4 DEF Stays, Here
  <2>6. Drafted(t)'
    BY <2>5 DEF Drafted
  <2> QED BY <2>3, <2>6 DEF Settled
<1> QED BY <1>3, <1>4

\* A task the loop is still to come to is settled by it or is still to be come to.
LEMMA WaitsStep ==
  ASSUME Typed, StartInv, StaleIsGone, LoopIsFresh, FoundIsOwn, DraftsStep, faults' = 0,
         NEW t \in Tasks, Waits(t) \/ Settled(t)
  PROVE  (Waits(t) \/ Settled(t))'
<1> DEFINE p == ProviderOf(t)
<1>0. LoopTypes /\ p \in Providers
  BY ReadItem DEF Typed
<1> HIDE DEF p
<1> USE DEF p
<1>1. CASE p \in queued'
  BY <1>1 DEF Waits
<1>2. CASE p \notin queued'
  <2>1. RulesKept(p) /\ TaskKept(t)
    BY <1>2, RulesStep, TaskStep
  <2>2. CASE (NoMatch \/ RefreshDraft) /\ t = Item.task
    <3>1. queued' = queued
      BY <2>2 DEF NoMatch, RefreshDraft
    <3> QED BY <1>2, <2>2, <3>1, TurnSettles
  <2>3. CASE Settled(t) /\ ((NoMatch \/ RefreshDraft) => t # Item.task)
    BY <1>2, <2>1, <2>3, SettledStep
  <2>4. CASE Waits(t) /\ ((NoMatch \/ RefreshDraft) => t # Item.task)
    <3>1. CASE Drain
      <4>1. queued # {} /\ p \in queued
        BY <1>2, <2>4, <3>1 DEF Waits, Drain
      <4>2. queued \in SUBSET Providers
        BY <1>0 DEF LoopTypes
      <4>3. loop' = RestingLoop("rules", queued)
        BY <3>1, <4>1, <4>2, Resting DEF Drain
      <4>4. loop'.pc = "rules" /\ p \in loop'.providers
        BY <4>1, <4>3 DEF RestingLoop
      <4> QED BY <4>4 DEF Waits
    <3>2. CASE ~Drain
      <4>1. /\ p \notin queued /\ p \in loop.providers
            /\ \/ loop.pc \in {"rules", "tasks"}
               \/ loop.pc \in {"each", "refresh"} /\ (Queues(t) \/ t \notin loop.seen)
               \/ loop.pc = "stale" /\ t \in loop.stale
        BY <1>2, <2>4, <3>2, LoopGoes DEF Waits
      <4>2. CASE loop' = loop
        BY <4>1, <4>2 DEF Waits, Queues
      <4>3. CASE LoadRules
        <5>1. loop'.pc = "tasks" /\ loop'.providers = loop.providers
          BY <1>0, <4>3 DEF LoadRules, LoopTypes
        <5> QED BY <4>1, <5>1 DEF Waits
      <4>4. CASE LoadTasks
        <5>1. /\ loop'.providers = loop.providers /\ loop'.pc = "each"
              /\ t \in loop'.seen => \E i \in loop'.todo : i.task = t
          BY <4>4, LoadedTasks
        <5> QED BY <4>1, <5>1 DEF Waits, Queues
      <4>5. CASE FindDraft
        <5>1. \E f : loop' = [loop EXCEPT !.pc = "refresh", !.found = f]
          BY <4>5 DEF FindDraft
        <5>2. /\ loop'.providers = loop.providers /\ loop'.pc = "refresh"
              /\ loop'.todo = loop.todo /\ loop'.seen = loop.seen /\ loop.pc = "each"
          BY <1>0, <4>5, <5>1 DEF FindDraft, LoopTypes
        <5> QED BY <4>1, <5>2 DEF Waits, Queues
      <4>6. CASE NoMatch \/ RefreshDraft
        <5>1. loop' = ItemDone /\ loop.pc \in {"each", "refresh"}
          BY <4>6 DEF NoMatch, RefreshDraft
        <5>2. /\ loop'.providers = loop.providers /\ loop'.pc = "each"
              /\ loop'.todo = loop.todo \ {Item} /\ loop'.seen = loop.seen
          BY <1>0, <5>1 DEF ItemDone, LoopTypes
        <5>3. Queues(t) => \E i \in loop'.todo : i.task = t
          BY <2>4, <4>6, <5>2 DEF Queues
        <5> QED BY <4>1, <5>1, <5>2, <5>3 DEF Waits, Queues
      <4>7. CASE ListStale
        <5>1. t \notin loop.seen
          BY <4>1, <4>7 DEF ListStale, Queues
        <5> QED BY <4>1, <4>7, <5>1, ListStaleSettles DEF Waits
      <4>8. CASE SupersedeStale
        <5>1. t \in loop.stale
          BY <4>1, <4>8 DEF SupersedeStale
        <5>2. ~Stays(t) /\ \A n \in DOMAIN rows' : ~(rows'[n].draft = "ready" /\ rows'[n].task = t)
          BY <4>1, <4>8, <5>1, StaleKept
        <5>3. Right(t)'
          BY <5>2 DEF Right, Ready
        <5>4. Drafted(t)'
          BY <2>1, <5>2 DEF Drafted, TaskKept
        <5> QED BY <5>3, <5>4 DEF Settled
      <4>9. CASE PassFails
        BY <4>9, FaultsCount DEF PassFails
      <4> QED BY <3>2, <4>1, <4>2, <4>3, <4>4, <4>5, <4>6, <4>7, <4>8, <4>9, LoopGoes DEF LoopStep
    <3> QED BY <3>1, <3>2
  <2> QED BY <2>2, <2>3, <2>4
<1> QED BY <1>1, <1>2

\* The loop is still to come to every task whose drafts are not as they should be.
LEMMA DraftsStepKeeps ==
  ASSUME Typed, StartInv, OrderInv, DraftInv, DraftsStep
  PROVE  DraftInv'
<1> SUFFICES ASSUME faults' = 0
             PROVE  (\A t \in Tasks : Waits(t) \/ Settled(t))' /\ LoopIsFresh' /\ FoundIsOwn'
  BY DEF DraftInv
<1>1. faults = 0
  BY FaultsCount
<1>2. NotYet /\ StaleIsGone /\ LoopIsFresh /\ FoundIsOwn /\ \A t \in Tasks : Waits(t) \/ Settled(t)
  BY <1>1 DEF OrderInv, DraftInv
<1>3. ASSUME NEW t \in Tasks PROVE (Waits(t) \/ Settled(t))'
  BY <1>2, WaitsStep
<1>4. LoopIsFresh' /\ FoundIsOwn'
  BY <1>2, LoopIsFreshStep, FoundStep
<1> QED BY <1>3, <1>4

\* At first there is a rule for manual tasks at most, and there are none of those.
LEMMA DraftsInit ==
  ASSUME Init
  PROVE  DraftInv
<1>1. rows = <<>> /\ loop = IdleLoop /\ queued = {} /\ taken = {}
  BY DEF Init
<1>2. loop.pc = "idle" /\ loop.providers = {} /\ DOMAIN rows = {}
  BY <1>1 DEF IdleLoop
<1>3. LoopIsFresh /\ FoundIsOwn
  BY <1>2 DEF LoopIsFresh, FoundIsOwn
<1>4. ASSUME NEW t \in Tasks PROVE Settled(t)
  <2>1. Right(t)
    BY <1>2 DEF Right
  <2>2. CASE t \in ManualTasks
    <3>1. ~Stays(t)
      BY <2>2 DEF Init, NewTask, Stays
    <3> QED BY <2>1, <3>1 DEF Drafted, Settled
  <2>3. CASE t \notin ManualTasks
    <3>1. PICK v \in {NoRule} \cup {Created(dto) : dto \in RuleDtos} :
            /\ v # NoRule => v.provider = "manual" /\ Valid(v)
            /\ rule = [r \in Rules |-> IF r = 1 THEN v ELSE NoRule]
      BY DEF Init
    <3>2. \A x \in ActiveRules : x.value.provider = "manual"
      BY <3>1 DEF ActiveRules, NoRule
    <3>3. \A s : FirstMatch(ActiveRules, ItemOf(t, Version(t), s)) = {}
      BY <2>3, <3>2 DEF FirstMatch, Matches, ItemOf, ProviderOf
    <3>4. ~Always(ActiveRules, t, Version(t))
      BY <3>3 DEF Always, Drafts, Statuses
    <3> QED BY <2>1, <3>4 DEF Drafted, Settled
  <2> QED BY <2>2, <2>3
<1> QED BY <1>3, <1>4 DEF DraftInv

\* An idle loop is not to come to anything.
LEMMA DraftsFollow ==
  ASSUME Typed, OrderInv, DraftInv
  PROVE  DraftsFollowRules
<1> SUFFICES ASSUME Quiet, faults = 0, ~unheard
             PROVE  /\ \A n \in DOMAIN rows : Ready(n) => Current(n)
                    /\ \A m, n \in DOMAIN rows : Ready(m) /\ Ready(n) /\ rows[m].task = rows[n].task => m = n
                    /\ \A t \in Tasks \ taken :
                         /\ Here(t)
                         /\ \A s \in Statuses : Drafts(FirstMatch(ActiveRules, ItemAs(t, s)))
                         => \E n \in DOMAIN rows : Ready(n) /\ rows[n].task = t
  BY DEF DraftsFollowRules
<1>1. ASSUME NEW t \in Tasks PROVE Settled(t)
  <2>1. loop.pc = "idle" /\ queued = {}
    BY DEF Quiet, Scheduled, Typed, LoopTypes
  <2>2. ~Waits(t)
    BY <2>1 DEF Waits
  <2> QED BY <2>2 DEF DraftInv
<1>2. ASSUME NEW n \in DOMAIN rows, Ready(n), NEW t, t = rows[n].task PROVE Current(n)
  <2>1. RightRow(n, t)
    BY <1>1, <1>2, RowType DEF Settled, Right
  <2> QED BY <1>2, <2>1, CurrentIs DEF RightRow
<1>3. ASSUME NEW m \in DOMAIN rows, NEW n \in DOMAIN rows, Ready(m), Ready(n), rows[m].task = rows[n].task
      PROVE  m = n
  <2>1. m <= n /\ n <= m
    BY <1>3 DEF OrderInv, ReadyIsLast
  <2> QED BY <2>1, RowType
<1>4. ASSUME NEW t \in Tasks \ taken, Here(t),
             \A s \in Statuses : Drafts(FirstMatch(ActiveRules, ItemAs(t, s)))
      PROVE  \E n \in DOMAIN rows : Ready(n) /\ rows[n].task = t
  <2>1. Stays(t)
    BY <1>4 DEF Stays, Quiet, Here
  <2>2. Always(ActiveRules, t, Version(t))
    BY <1>4, ReadItem DEF Always
  <2> QED BY <1>1, <1>4, <2>1, <2>2 DEF Settled, Drafted
<1> QED BY <1>2, <1>3, <1>4

\* Once the loop is idle, the drafts follow the tasks and the rules (DraftsFollowRules: the
\* reconcile loop against whatever the user changes while it is interrupted, save an update or
\* a deletion of a rule that undoes another one's change and does not tell the drafts so).
THEOREM DraftsFollowRulesHolds == Spec => []DraftsFollowRules
<1> DEFINE Inv == Typed /\ StartInv /\ OrderInv /\ DraftInv
<1>1. Init => Inv
  BY TypesInit, StartsInit, OrderInit, DraftsInit
<1>2. Inv /\ [Next]_vars => Inv'
  BY TypesStep, StartsStep, OrderStep, DraftsStepKeeps DEF DraftsStep
<1>3. Inv => DraftsFollowRules
  BY DraftsFollow
<1> QED BY <1>1, <1>2, <1>3, PTL DEF Spec

-----------------------------------------------------------------------------
(* Workflow states.                                                        *)

\* A place of a reconcile is free or holds one.
LEMMA JobFields ==
  ASSUME Typed, NEW j \in StateJobs
  PROVE  /\ job[j] \in JobState
         /\ job[j].pc \in {"free", "task", "executions", "write"}
         /\ job[j].pc # "free" => job[j].task \in ManualTasks
         /\ job[j].pc = "executions" => job[j].saw \in [ver : 0..MaxVersions, state : WorkflowStates]
         /\ job[j].pc = "write" => job[j].state \in WorkflowStates
  BY DEF Typed, JobState, FreeJob

\* A reconcile that starts alone is not overtaken yet.
LEMMA LaunchFollows ==
  ASSUME Typed, NEW t \in ManualTasks, Launch(t), t \notin tangled'
  PROVE  (\A i, j \in Busy(t)' : i = j) /\ Followed(t)'
<1>1. Launched(t) /\ Busy(t) = {}
  BY DEF Launch, Launched, Typed
<1>2. PICK j \in StateJobs : FirstFree(j) /\ job' = [job EXCEPT ![j] = [pc |-> "task", task |-> t]]
  BY <1>1 DEF Launched
<1>3. \A i \in StateJobs : i # j => job'[i] = job[i]
  BY <1>2 DEF Typed
<1>4. job'[j] = [pc |-> "task", task |-> t]
  BY <1>2 DEF Typed
<1>5. \A i \in StateJobs : job'[i].pc # "free" /\ job'[i].task = t => i = j
  BY <1>1, <1>3 DEF Busy
<1>6. Busy(t)' = {j}
  BY <1>4, <1>5 DEF Busy
<1>7. \A i \in Busy(t)' : job'[i].pc = "task"
  BY <1>4, <1>6
<1>8. (\A i \in Busy(t) : JobRight(i))'
  BY <1>7 DEF JobRight
<1> QED BY <1>6, <1>8 DEF Followed

\* What a step of a reconcile leaves alone.
LEMMA JobMoves ==
  ASSUME Typed, NEW j \in StateJobs, JobStep(j)
  PROVE  /\ \A i \in StateJobs \ {j} : job'[i] = job[i]
         /\ job'[j].pc # "free" => job'[j].task = job[j].task /\ job[j].pc # "free"
         /\ UNCHANGED <<ruleVars, rows, queued, loop, start, sent, taken, tangled, changes, faults>>
         /\ \A t : t # job[j].task => task'[t] = task[t]
<1>0. job \in [StateJobs -> JobState] /\ task \in [ManualTasks -> TaskState]
  BY DEF Typed
<1>1. CASE ReadTask(j)
  BY <1>0, <1>1 DEF ReadTask, FreeJob
<1>2. CASE ReadExecutions(j)
  BY <1>0, <1>2 DEF ReadExecutions, FreeJob
<1>3. CASE PersistState(j)
  BY <1>0, <1>3 DEF PersistState, FreeJob
<1> QED BY <1>1, <1>2, <1>3 DEF JobStep

\* Unless one is started for task t, its reconciles go on or end.
LEMMA JobsKept ==
  ASSUME Typed, DraftsStep, NEW t \in ManualTasks, ~Launch(t)
  PROVE  /\ t \in tangled => t \in tangled'
         /\ Busy(t)' \subseteq Busy(t)
         /\ \/ \E j \in Busy(t) : JobStep(j)
            \/ Busy(t)' = Busy(t) /\ \A j \in Busy(t) : job'[j] = job[j]
<1>0. job \in [StateJobs -> JobState]
  BY DEF Typed
<1>1. CASE UNCHANGED <<job, tangled>>
  BY <1>1 DEF Busy
<1>2. ASSUME NEW j \in StateJobs, JobStep(j)
      PROVE  /\ t \in tangled => t \in tangled'
             /\ Busy(t)' \subseteq Busy(t)
             /\ \/ \E i \in Busy(t) : JobStep(i)
                \/ Busy(t)' = Busy(t) /\ \A i \in Busy(t) : job'[i] = job[i]
  <2>1. CASE j \in Busy(t)
    BY <1>2, <2>1, JobMoves DEF Busy
  <2>2. CASE j \notin Busy(t)
    BY <1>2, <2>2, JobMoves DEF Busy
  <2> QED BY <2>1, <2>2
<1>3. ASSUME NEW u \in Tasks, Launch(u)
      PROVE  /\ t \in tangled => t \in tangled'
             /\ Busy(t)' = Busy(t) /\ \A i \in Busy(t) : job'[i] = job[i]
  <2>1. CASE u \notin ManualTasks
    BY <1>3, <2>1 DEF Launch, Busy
  <2>2. CASE u \in ManualTasks
    <3>1. u # t /\ Launched(u)
      BY <1>3, <2>2 DEF Launch
    <3>2. PICK j \in StateJobs : FirstFree(j) /\ job' = [job EXCEPT ![j] = [pc |-> "task", task |-> u]]
      BY <3>1 DEF Launched
    <3>3. \A i \in StateJobs : i # j => job'[i] = job[i]
      BY <1>0, <3>2
    <3>4. job[j].pc = "free" /\ job'[j].task = u
      BY <1>0, <3>2 DEF FirstFree
    <3>5. t \in tangled => t \in tangled'
      BY <3>1 DEF Launched
    <3> QED BY <3>1, <3>3, <3>4, <3>5 DEF Busy
  <2> QED BY <2>1, <2>2
<1> QED BY <1>1, <1>2, <1>3, JobWriters

\* The executions of task t stay.
OwnKept(t) ==
  /\ \A n \in DOMAIN rows' : rows'[n].task = t => n \in DOMAIN rows
  /\ \A n \in DOMAIN rows : rows[n].task = t => n \in DOMAIN rows' /\ rows'[n] = rows[n]
  /\ \A n \in DOMAIN rows : rows'[n].task = rows[n].task

\* Then what they say stays.
LEMMA ResolvedKept ==
  ASSUME Typed, NEW t, OwnKept(t), NEW v
  PROVE  Resolved(t, v)' = Resolved(t, v)
<1>1. OwnRows(t, v)' = OwnRows(t, v)
  BY DEF OwnRows, OwnKept
<1>2. \A n \in OwnRows(t, v) : rows'[n] = rows[n]
  BY DEF OwnRows, OwnKept
<1> DEFINE run == {n \in OwnRows(t, v) : rows[n].draft = "none"}
           own == OwnRows(t, v)
<1>3. run' = run
  BY <1>1, <1>2
<1>4. /\ (\E n \in run : rows[n].run = "active") <=> \E n \in run : rows'[n].run = "active"
      /\ (\E n \in own : rows[n].draft = "ready") <=> \E n \in own : rows'[n].draft = "ready"
  BY <1>2
<1>5. run # {} => rows'[Max(run)] = rows[Max(run)]
  <2>1. CASE run = {}
    BY <2>1
  <2>2. CASE run # {}
    <3>1. run \subseteq 0..Len(rows) /\ Len(rows) \in Nat
      BY DEF Typed, RowTypes, OwnRows
    <3>2. Max(run) \in run
      <4> HIDE DEF run
      <4> QED BY <2>2, <3>1, HasMax
    <3> QED BY <1>2, <3>2
  <2> QED BY <2>1, <2>2
<1> QED BY <1>1, <1>3, <1>4, <1>5 DEF Resolved, Ready

\* The executions of a task that is there stay, unless a reconcile is started for it, or a
\* request that has claimed its draft or the loop is about to start one.
LEMMA OwnStep ==
  ASSUME Typed, StartInv, StaleIsGone, DraftsStep, faults' = 0, NEW t \in ManualTasks, Here(t), ~Launch(t)
  PROVE  OwnKept(t) \/ Starting(t)' \/ "manual" \in queued'
<1>0. RowTypes /\ StartTypes /\ LoopTypes /\ DOMAIN rows = 1..Len(rows) /\ RowsKept
  BY RowsStep DEF Typed, RowTypes
<1>1. CASE UNCHANGED <<rows, start, sent>>
  BY <1>1 DEF OwnKept
<1>2. ASSUME NEW u, u # t, rows' = Superseded(rows, {u}, NoFind) PROVE OwnKept(t)
  <2>1. /\ DOMAIN rows' = DOMAIN rows /\ RowsKept
        /\ \A n \in DOMAIN rows :
              rows'[n] = IF Ready(n) /\ rows[n].task \in {u} /\ n # NoFind
                           THEN [rows[n] EXCEPT !.draft = "superseded"] ELSE rows[n]
    BY <1>2, SupersedingKeeps
  <2> QED BY <1>2, <2>1 DEF OwnKept, RowsKept, SameDraft
<1>3. CASE NoMatch
  <2>1. rows' = Superseded(rows, {Item.task}, NoFind) /\ Launch(Item.task)
    BY <1>3 DEF NoMatch
  <2> QED BY <1>2, <2>1
<1>4. CASE RefreshDraft
  <2>1. Item.task # t
    BY <1>4 DEF RefreshDraft
  <2>2. PICK x \in MatchOf(Item) :
           /\ RowsKept
           /\ \/ /\ DOMAIN rows' = DOMAIN rows /\ UNCHANGED taken
                 /\ \A n \in DOMAIN rows :
                      rows'[n] = IF Ready(n) /\ rows[n].task = Item.task /\ n # loop.found
                                   THEN [rows[n] EXCEPT !.draft = "superseded"] ELSE rows[n]
              \/ /\ DOMAIN rows' = DOMAIN rows \cup {Len(rows) + 1}
                 /\ rows'[Len(rows) + 1] = Draft(Item, x) /\ taken' = taken \ {Item.task}
                 /\ \A n \in DOMAIN rows :
                      rows'[n] = IF Ready(n) /\ rows[n].task = Item.task
                                   THEN [rows[n] EXCEPT !.draft = "superseded"] ELSE rows[n]
    BY <1>4, RefreshingKeeps
  <2>3. Draft(Item, x).task = Item.task
    BY DEF Draft
  <2>4. \A n \in DOMAIN rows : n \in DOMAIN rows' /\ rows'[n].task = rows[n].task
    BY <2>2 DEF RowsKept, SameDraft
  <2>5. \A n \in DOMAIN rows' : n \in DOMAIN rows \/ rows'[n].task = Item.task
    BY <2>2, <2>3
  <2>6. \A n \in DOMAIN rows : rows[n].task # Item.task => rows'[n] = rows[n]
    BY <2>2
  <2> QED BY <2>1, <2>4, <2>5, <2>6 DEF OwnKept
<1>5. CASE SupersedeStale
  <2>1. t \notin loop.stale \/ "manual" \in queued'
    BY <1>5 DEF SupersedeStale, StaleIsGone, Here
  <2>2. rows' = Superseded(rows, loop.stale, NoFind)
    BY <1>5 DEF SupersedeStale
  <2>3. /\ DOMAIN rows' = DOMAIN rows
        /\ \A n \in DOMAIN rows :
              rows'[n] = IF Ready(n) /\ rows[n].task \in loop.stale /\ n # NoFind
                           THEN [rows[n] EXCEPT !.draft = "superseded"] ELSE rows[n]
    BY <2>2, SupersedingKeeps
  <2> QED BY <1>0, <2>1, <2>3 DEF OwnKept, RowsKept, SameDraft
<1>6. ASSUME NEW u \in ManualTasks, DeleteTask(u) PROVE OwnKept(t)
  BY <1>2, <1>6 DEF DeleteTask
<1>7. ASSUME NEW n \in DOMAIN rows, rows[n].task # t, DOMAIN rows' = DOMAIN rows,
             \A m \in DOMAIN rows : m # n => rows'[m] = rows[m]
      PROVE  OwnKept(t)
  BY <1>0, <1>7 DEF OwnKept, RowsKept, SameDraft
<1>8. ASSUME NEW s \in Starters, Claim(s) PROVE OwnKept(t) \/ Starting(t)'
  <2>1. start[s].row \in DOMAIN rows /\ start \in [Starters -> StartState]
    BY <1>0, <1>8 DEF Claim, StartTypes
  <2>2. CASE UNCHANGED rows
    BY <2>2 DEF OwnKept
  <2>3. CASE /\ rows' = [rows EXCEPT ![start[s].row].draft = "none", ![start[s].row].run = "active"]
             /\ start' = [start EXCEPT ![s].pc = "dispatch"]
    <3>1. CASE rows[start[s].row].task = t
      <4>1. start'[s].pc = "dispatch" /\ start'[s].row = start[s].row
        BY <2>1, <2>3 DEF StartState
      <4>2. rows'[start'[s].row].task = t
        BY <1>0, <2>1, <3>1, <4>1 DEF RowsKept, SameDraft
      <4> QED BY <4>1, <4>2 DEF Starting
    <3>2. CASE rows[start[s].row].task # t
      BY <1>7, <2>1, <2>3, <3>2, EditSteps DEF Edited
    <3> QED BY <3>1, <3>2
  <2> QED BY <1>8, <2>2, <2>3 DEF Claim
<1>9. ASSUME NEW s \in Starters, StartEdits(s), ~Claim(s) PROVE OwnKept(t)
  <2>1. CASE UNCHANGED rows
    BY <2>1 DEF OwnKept
  <2>2. CASE Dispatch(s)
    <3>1. start[s].row \in DOMAIN rows /\ rows[start[s].row].task # t
      BY <1>0, <2>2 DEF Dispatch, StartTypes
    <3>2. DOMAIN rows' = DOMAIN rows /\ \A m \in DOMAIN rows : m # start[s].row => rows'[m] = rows[m]
      BY <2>2, <3>1, EditSteps DEF Dispatch, Edited
    <3> QED BY <1>7, <3>1, <3>2
  <2> QED BY <1>9, <2>1, <2>2, OtherStarts
<1>10. ASSUME NEW n \in DOMAIN rows, Discard(n) PROVE OwnKept(t)
  <2>1. rows[n].task # t
    BY <1>10 DEF Discard
  <2>2. DOMAIN rows' = DOMAIN rows /\ \A m \in DOMAIN rows : m # n => rows'[m] = rows[m]
    BY <1>0, <1>10 DEF Discard, RowTypes
  <2> QED BY <1>7, <2>1, <2>2
<1>11. ASSUME NEW n \in DOMAIN rows, Settle(n) PROVE OwnKept(t)
  <2>1. rows[n].task # t
    BY <1>11, FaultsCount DEF Settle
  <2>2. DOMAIN rows' = DOMAIN rows /\ \A m \in DOMAIN rows : m # n => rows'[m] = rows[m]
    BY <1>11, EditSteps DEF Settle, Edited
  <2> QED BY <1>7, <2>1, <2>2
<1> QED BY <1>1, <1>3, <1>4, <1>5, <1>6, <1>8, <1>9, <1>10, <1>11, RowWriters DEF StartEdits

\* The loop comes to task t unless it starts a reconcile for it.
LEMMA ComesKept ==
  ASSUME Typed, DraftsStep, faults' = 0, NEW t \in ManualTasks, Here(t), ~Launch(t), LoopComes(t),
         "manual" \notin queued'
  PROVE  LoopComes(t)'
<1>0. LoopTypes /\ ProviderOf(t) = "manual" /\ t \in Tasks
  BY DEF Typed, ProviderOf, Tasks
<1>1. CASE Drain
  <2>1. queued # {} /\ "manual" \in queued /\ queued \in SUBSET Providers
    BY <1>0, <1>1 DEF LoopComes, Drain, LoopTypes
  <2>2. loop' = RestingLoop("rules", queued)
    BY <1>1, <2>1, Resting DEF Drain
  <2>3. loop'.pc = "rules" /\ "manual" \in loop'.providers
    BY <2>1, <2>2 DEF RestingLoop
  <2> QED BY <2>3 DEF LoopComes
<1>2. CASE ~Drain
  <2>1. /\ "manual" \in loop.providers
        /\ loop.pc \in {"rules", "tasks"} \/ (loop.pc \in {"each", "refresh"} /\ Queues(t))
    BY <1>2, LoopGoes DEF LoopComes
  <2>2. CASE loop' = loop
    BY <2>1, <2>2 DEF LoopComes, Queues
  <2>3. CASE LoadRules
    <3>1. loop'.pc = "tasks" /\ loop'.providers = loop.providers
      BY <1>0, <2>3 DEF LoadRules, LoopTypes
    <3> QED BY <2>1, <3>1 DEF LoopComes
  <2>4. CASE LoadTasks
    <3>1. /\ loop'.providers = loop.providers /\ loop'.pc = "each"
          /\ t \in loop'.seen /\ \E i \in loop'.todo : i.task = t
      BY <1>0, <2>1, <2>4, LoadedTasks
    <3> QED BY <2>1, <3>1 DEF LoopComes, Queues
  <2>5. CASE FindDraft
    <3>1. \E f : loop' = [loop EXCEPT !.pc = "refresh", !.found = f]
      BY <2>5 DEF FindDraft
    <3>2. /\ loop'.providers = loop.providers /\ loop'.pc = "refresh"
          /\ loop'.todo = loop.todo /\ loop.pc = "each"
      BY <1>0, <2>5, <3>1 DEF FindDraft, LoopTypes
    <3> QED BY <2>1, <3>2 DEF LoopComes, Queues
  <2>6. CASE NoMatch \/ RefreshDraft
    <3>1. loop' = ItemDone /\ loop.pc \in {"each", "refresh"} /\ Item.task # t
      BY <2>6 DEF NoMatch, RefreshDraft
    <3>2. loop'.providers = loop.providers /\ loop'.pc = "each" /\ loop'.todo = loop.todo \ {Item}
      BY <1>0, <3>1 DEF ItemDone, LoopTypes
    <3>3. Queues(t) => \E i \in loop'.todo : i.task = t
      BY <3>1, <3>2 DEF Queues
    <3> QED BY <2>1, <3>1, <3>2, <3>3 DEF LoopComes, Queues
  <2>7. ~ListStale /\ ~SupersedeStale /\ ~PassFails
    BY <2>1, FaultsCount DEF ListStale, SupersedeStale, PassFails, Queues
  <2> QED BY <1>2, <2>1, <2>2, <2>3, <2>4, <2>5, <2>6, <2>7, LoopGoes DEF LoopStep
<1> QED BY <1>1, <1>2

\* A request that has claimed a draft of task t starts a reconcile for it.
LEMMA StartingKept ==
  ASSUME Typed, DraftsStep, faults' = 0, NEW t \in ManualTasks, ~Launch(t), Starting(t)
  PROVE  Starting(t)'
<1>0. StartTypes /\ RowsKept
  BY RowsStep DEF Typed
<1>1. PICK s \in Starters : start[s].pc = "dispatch" /\ rows[start[s].row].task = t
  BY DEF Starting
<1>2. start'[s] = start[s]
  <2>1. CASE UNCHANGED <<rows, start, sent>>
    BY <2>1
  <2>2. CASE NoMatch \/ RefreshDraft \/ SupersedeStale \/ \E u \in ManualTasks : DeleteTask(u)
    BY <2>2 DEF NoMatch, RefreshDraft, SupersedeStale, DeleteTask
  <2>3. ASSUME NEW u \in Starters, Claim(u) \/ \E n \in DOMAIN rows : AskStart(u, n) PROVE start'[s] = start[s]
    <3>1. u # s
      BY <1>1, <2>3 DEF Claim, AskStart
    <3> QED BY <1>0, <2>3, <3>1 DEF Claim, AskStart, StartTypes
  <2>4. ASSUME NEW u \in Starters, Dispatch(u) PROVE start'[s] = start[s]
    <3>1. u # s
      BY <1>1, <2>4 DEF Dispatch
    <3> QED BY <1>0, <2>4, <3>1 DEF Dispatch, StartTypes
  <2>5. ASSUME NEW u \in Starters, DispatchFails(u) \/ UndoStart(u) PROVE start'[s] = start[s]
    <3>1. u # s
      BY <1>1, <2>5, FaultsCount DEF DispatchFails, UndoStart
    <3> QED BY <1>0, <2>5, <3>1, FaultsCount DEF DispatchFails, UndoStart, StartTypes
  <2>6. ASSUME NEW n \in DOMAIN rows, Discard(n) \/ Settle(n) PROVE start'[s] = start[s]
    BY <2>6 DEF Discard, Settle
  <2> QED BY <2>1, <2>2, <2>3, <2>4, <2>5, <2>6, RowWriters DEF StartEdits
<1>3. start[s].row \in DOMAIN rows
  BY <1>0, <1>1 DEF StartTypes
<1>4. rows'[start[s].row].task = t
  BY <1>0, <1>1, <1>3 DEF RowsKept, SameDraft
<1> QED BY <1>1, <1>2, <1>4 DEF Starting

\* A reconcile that was not overtaken comes to what the executions say, and then ends.
LEMMA JobTurn ==
  ASSUME Typed, NEW t \in ManualTasks, Here(t), NEW j \in Busy(t), JobStep(j),
         \A i \in Busy(t) : i = j, JobRight(j)
  PROVE  (\A i \in Busy(t) : JobRight(i))' /\ (Busy(t) = {} => task[t].state = Resolved(t, Version(t)))'
<1>0. /\ j \in StateJobs /\ job[j].pc # "free" /\ job[j].task = t /\ Version(t) = task[t].ver
      /\ job \in [StateJobs -> JobState] /\ task \in [ManualTasks -> TaskState]
  BY DraftsAssumption DEF Busy, Version, Typed
<1>1. UNCHANGED rows /\ \A i \in Busy(t)' : i = j
  BY <1>0, JobMoves DEF Busy
<1>2. \A v : Resolved(t, v)' = Resolved(t, v)
  BY <1>1 DEF Resolved, OwnRows, Ready
<1>3. CASE ReadTask(j)
  <2>1. /\ job'[j] = [pc |-> "executions", task |-> t,
                     saw |-> [ver |-> task[t].ver, state |-> task[t].state]]
        /\ UNCHANGED task
    BY <1>0, <1>3 DEF ReadTask
  <2>2. Busy(t)' # {}
    BY <1>0, <2>1 DEF Busy
  <2>3. ASSUME NEW i \in Busy(t)'
        PROVE  /\ job'[i].pc = "executions" /\ job'[i].task = t
               /\ job'[i].saw = [ver |-> task'[t].ver, state |-> task'[t].state]
    BY <1>1, <2>1
  <2>4. (\A i \in Busy(t) : JobRight(i))'
    BY <2>3 DEF JobRight
  <2> QED BY <2>2, <2>4
<1>4. CASE ReadExecutions(j)
  <2> DEFINE s == Resolved(t, task[t].ver)
  <2>1. job[j].saw.ver = task[t].ver /\ job[j].saw.state = task[t].state
    BY <1>0, <1>4 DEF JobRight, ReadExecutions
  <2>2. /\ job'[j] = IF s = task[t].state THEN FreeJob ELSE [pc |-> "write", task |-> t, state |-> s]
        /\ UNCHANGED task
    BY <1>0, <1>4, <2>1 DEF ReadExecutions
  <2>3. Version(t)' = task[t].ver
    BY <1>0, <2>2 DEF Version
  <2>4. Resolved(t, task[t].ver)' = s
    BY <1>2, <2>2
  <2> HIDE DEF s
  <2>5. CASE s = task[t].state
    <3>1. Busy(t)' = {}
      BY <1>1, <2>2, <2>5 DEF Busy, FreeJob
    <3> QED BY <2>2, <2>3, <2>4, <2>5, <3>1
  <2>6. CASE s # task[t].state
    <3>1. job'[j] = [pc |-> "write", task |-> t, state |-> s]
      BY <2>2, <2>6
    <3>2. Busy(t)' # {}
      BY <1>0, <3>1 DEF Busy
    <3>3. ASSUME NEW i \in Busy(t)' PROVE job'[i].pc = "write" /\ job'[i].state = s /\ job'[i].task = t
      BY <1>1, <3>1
    <3>4. (\A i \in Busy(t) : JobRight(i))'
      BY <2>2, <2>3, <2>4, <3>3 DEF JobRight
    <3> QED BY <3>2, <3>4
  <2> QED BY <2>5, <2>6
<1>5. CASE PersistState(j)
  <2>1. /\ job[j].state = Resolved(t, task[t].ver)
        /\ task' = [task EXCEPT ![t].state = job[j].state] /\ job' = [job EXCEPT ![j] = FreeJob]
    BY <1>0, <1>5 DEF PersistState, JobRight
  <2>2. task'[t].state = Resolved(t, task[t].ver) /\ task'[t].ver = task[t].ver
    BY <1>0, <2>1 DEF TaskState
  <2>3. Busy(t)' = {}
    BY <1>0, <1>1, <2>1 DEF Busy, FreeJob
  <2>4. Version(t)' = task[t].ver
    BY <1>0, <2>2 DEF Version
  <2>5. ASSUME NEW v, v = task[t].ver PROVE task'[t].state = Resolved(t, v)' /\ Version(t)' = v
    BY <1>2, <2>2, <2>4, <2>5
  <2>6. task'[t].state = Resolved(t, Version(t))'
    BY <2>5
  <2> QED BY <2>3, <2>6
<1> QED BY <1>3, <1>4, <1>5 DEF JobStep

\* No step changes what task t is and its state but its reconciles, an edit that enqueues the
\* provider of manual tasks, and its deletion, which starts a reconcile.
LEMMA SameTask ==
  ASSUME Typed, DraftsStep, NEW t \in ManualTasks, ~Launch(t), "manual" \notin queued',
         ~\E j \in Busy(t) : JobStep(j)
  PROVE  task'[t].ver = task[t].ver /\ task'[t].state = task[t].state
<1>0. task \in [ManualTasks -> TaskState]
  BY DEF Typed
<1>1. ASSUME NEW j \in StateJobs, PersistState(j) PROVE task'[t] = task[t]
  <2>1. JobStep(j) /\ job[j].pc # "free"
    BY <1>1 DEF JobStep, PersistState
  <2>2. job[j].task # t
    BY <2>1 DEF Busy
  <2> QED BY <2>1, <2>2, JobMoves
<1>2. ASSUME NEW u \in ManualTasks, CreateTask(u) \/ SaveTask(u) \/ RemoveTask(u) PROVE FALSE
  BY <1>2 DEF CreateTask, SaveTask, RemoveTask, Enqueue
<1>3. ASSUME NEW u \in ManualTasks, DeleteTask(u) PROVE task'[t] = task[t]
  BY <1>0, <1>3 DEF DeleteTask
<1>4. ASSUME NEW u \in ManualTasks, AskUpdateTask(u)
      PROVE  task'[t].ver = task[t].ver /\ task'[t].state = task[t].state
  BY <1>0, <1>4 DEF AskUpdateTask, TaskState
<1> QED BY <1>1, <1>2, <1>3, <1>4, TaskWriters DEF TaskEdits

\* Workflow states follow what they are derived from, or are about to.
LEMMA WorkStep ==
  ASSUME Typed, StartInv, StaleIsGone, WorkInv, DraftsStep
  PROVE  WorkInv'
<1> SUFFICES ASSUME faults' = 0, NEW t \in ManualTasks, t \notin tangled'
             PROVE  (\A i, j \in Busy(t)' : i = j) /\ (Here(t)' => Followed(t)')
  BY DEF WorkInv
<1>1. CASE Launch(t)
  BY <1>1, LaunchFollows
<1>2. CASE ~Launch(t)
  <2>1. t \notin tangled /\ faults = 0
    BY <1>2, JobsKept, FaultsCount
  <2>2. (\A i, j \in Busy(t) : i = j) /\ (Here(t) => Followed(t))
    BY <2>1 DEF WorkInv
  <2>3. \A i, j \in Busy(t)' : i = j
    BY <1>2, <2>2, JobsKept
  <2>4. ASSUME Here(t)', "manual" \notin queued' PROVE Followed(t)'
    <3>0. ProviderOf(t) = "manual" /\ t \in Tasks
      BY DEF ProviderOf, Tasks
    <3>1. TaskKept(t)
      BY <2>4, <3>0, TaskStep
    <3>2. Here(t) /\ Version(t)' = Version(t) /\ Followed(t)
      BY <2>2, <2>4, <3>1 DEF TaskKept
    <3>3. CASE LoopComes(t)
      BY <1>2, <2>4, <3>2, <3>3, ComesKept DEF Followed
    <3>4. CASE Starting(t)
      BY <1>2, <3>4, StartingKept DEF Followed
    <3>5. CASE /\ \A j \in Busy(t) : JobRight(j)
               /\ Busy(t) = {} => task[t].state = Resolved(t, Version(t))
      <4>1. ASSUME NEW j \in Busy(t), JobStep(j) PROVE Followed(t)'
        BY <2>2, <3>2, <3>5, <4>1, JobTurn DEF Followed
      <4>2. CASE Busy(t)' = Busy(t) /\ (\A j \in Busy(t) : job'[j] = job[j]) /\ ~\E j \in Busy(t) : JobStep(j)
        <5>1. CASE Starting(t)'
          BY <5>1 DEF Followed
        <5>2. CASE OwnKept(t)
          <6>1. task'[t].ver = task[t].ver /\ task'[t].state = task[t].state
            BY <1>2, <2>4, <4>2, SameTask
          <6>2. ASSUME NEW v, v = Version(t) PROVE Resolved(t, v)' = Resolved(t, v) /\ Version(t)' = v
            BY <3>2, <5>2, <6>2, ResolvedKept
          <6>3. Resolved(t, Version(t))' = Resolved(t, Version(t))
            BY <6>2
          <6>4. ASSUME NEW i \in Busy(t)'
                PROVE  /\ job'[i].pc = "executions" =>
                            job'[i].saw = [ver |-> task'[t].ver, state |-> task'[t].state]
                       /\ job'[i].pc = "write" => job'[i].state = Resolved(t, Version(t))'
                       /\ job'[i].task = t
            BY <3>5, <4>2, <6>1, <6>3 DEF JobRight, Busy
          <6>5. (\A i \in Busy(t) : JobRight(i))'
            BY <6>4 DEF JobRight
          <6>6. (Busy(t) = {} => task[t].state = Resolved(t, Version(t)))'
            BY <3>5, <4>2, <6>1, <6>3
          <6> QED BY <6>5, <6>6 DEF Followed
        <5> QED BY <1>2, <2>4, <3>2, <5>1, <5>2, OwnStep
      <4> QED BY <1>2, <4>1, <4>2, JobsKept
    <3> QED BY <3>2, <3>3, <3>4, <3>5 DEF Followed
  <2>5. "manual" \in queued' => Followed(t)'
    BY DEF Followed, LoopComes
  <2> QED BY <2>3, <2>4, <2>5
<1> QED BY <1>1, <1>2

\* There are no manual tasks at first.
LEMMA WorkInit == Init => WorkInv
  BY DEF Init, WorkInv, Busy, FreeJob, Here, NewTask

\* The page of a task leads to what its state is about.
LEMMA WorkflowIs ==
  ASSUME Typed, StartInv, OrderInv, WorkInv
  PROVE  WorkflowFollows
<1> SUFFICES ASSUME Quiet, faults = 0, NEW t \in ManualTasks, t \notin tangled, Here(t)
             PROVE  /\ task[t].state = Resolved(t, Version(t))
                    /\ task[t].state = "drafted" =>
                         Pointers(t).draft # NoFind /\ Ready(Pointers(t).draft)
                    /\ task[t].state \in {"done", "blocked"} =>
                         /\ Pointers(t).execution \in OwnRows(t, Version(t))
                         /\ rows[Pointers(t).execution].run = IF task[t].state = "done" THEN "done" ELSE "failed"
  BY DEF WorkflowFollows
<1>0. DOMAIN rows = 1..Len(rows) /\ Len(rows) \in Nat
  BY DEF Typed, RowTypes
<1>1. task[t].state = Resolved(t, Version(t))
  <2>1. loop.pc = "idle" /\ queued = {} /\ Busy(t) = {}
    BY DEF Quiet, Scheduled, Typed, LoopTypes, Busy
  <2>2. ~LoopComes(t) /\ ~Starting(t)
    BY <2>1 DEF LoopComes, Starting, Quiet
  <2> QED BY <2>1, <2>2 DEF WorkInv, Followed
<1> DEFINE V == Version(t)
           run == {n \in OwnRows(t, V) : rows[n].draft = "none"}
           own == {n \in DOMAIN rows : rows[n].task = t}
           ds == {n \in own : rows[n].draft # "none"}
           es == {n \in own : rows[n].draft = "none"}
<1>2. Pointers(t).draft = Max(ds \cup {NoFind}) /\ Pointers(t).execution = Max(es \cup {NoFind})
  BY DEF Pointers, Latest
<1>3. ASSUME NEW S \in SUBSET DOMAIN rows, S # {}
      PROVE  Max(S \cup {NoFind}) \in S /\ \A n \in S : n <= Max(S \cup {NoFind})
  <2>1. S \cup {NoFind} \subseteq 0..Len(rows) /\ S \cup {NoFind} # {}
    BY <1>0, <1>3 DEF NoFind
  <2>2. /\ Max(S \cup {NoFind}) \in S \cup {NoFind}
        /\ \A n \in S \cup {NoFind} : n <= Max(S \cup {NoFind})
    BY <1>0, <2>1, HasMax
  <2>3. Max(S \cup {NoFind}) # NoFind
    <3>1. PICK n \in S : n \in Nat /\ n > 0
      BY <1>0, <1>3
    <3>2. n <= Max(S \cup {NoFind})
      BY <2>2, <3>1
    <3> HIDE DEF NoFind
    <3>3. ASSUME NEW k, k = Max(S \cup {NoFind}), k = 0 PROVE FALSE
      BY <3>1, <3>2, <3>3
    <3> QED BY <3>3 DEF NoFind
  <2> QED BY <2>2, <2>3
<1>4. CASE task[t].state = "drafted"
  <2>1. PICK n \in OwnRows(t, V) : Ready(n)
    BY <1>1, <1>4 DEF Resolved
  <2>2. n \in ds /\ n \in DOMAIN rows /\ rows[n].task = t
    BY <2>1 DEF Ready, OwnRows
  <2>3. ASSUME NEW k, k = Max(ds \cup {NoFind}) PROVE k # NoFind /\ Ready(k)
    <3>1. k \in ds /\ n <= k
      BY <1>3, <2>2, <2>3
    <3>2. k \in DOMAIN rows /\ rows[k].task = t
      BY <3>1
    <3>3. k <= n
      BY <2>1, <2>2, <3>2 DEF OrderInv, ReadyIsLast
    <3>4. k = n
      BY <1>0, <2>2, <3>1, <3>2, <3>3
    <3> QED BY <1>0, <2>1, <2>2, <3>4 DEF NoFind
  <2> QED BY <1>1, <1>2, <1>4, <2>3
<1>5. CASE task[t].state \in {"done", "blocked"}
  <2>1. /\ run # {} /\ \A n \in run : rows[n].run # "active"
        /\ task[t].state = IF rows[Max(run)].run = "done" THEN "done" ELSE "blocked"
    BY <1>1, <1>5 DEF Resolved
  <2>2. run \subseteq es /\ run \subseteq 0..Len(rows) /\ es \subseteq DOMAIN rows
    BY <1>0 DEF OwnRows
  <2>3. Max(run) \in run /\ \A n \in run : n <= Max(run)
    <3> HIDE DEF run
    <3> QED BY <1>0, <2>1, <2>2, HasMax
  <2>4. ASSUME NEW k, k = Max(es \cup {NoFind}), NEW m, m = Max(run)
        PROVE k \in OwnRows(t, V) /\ rows[k].run = IF task[t].state = "done" THEN "done" ELSE "failed"
    <3>1. k \in es /\ m <= k /\ m \in run
      <4>1. m \in es
        BY <2>2, <2>3, <2>4
      <4> HIDE DEF es
      <4> QED BY <1>3, <2>2, <2>3, <2>4, <4>1
    <3>2. k \in DOMAIN rows /\ m \in DOMAIN rows /\ rows[k].task = t /\ rows[m].task = t /\ rows[m].ver = V
          /\ rows[k].draft = "none"
      BY <3>1 DEF OwnRows
    <3>3. rows[k].ver \in Nat /\ rows[m].ver \in Nat /\ rows[k] \in RowState
      BY <3>2, RowType DEF RowState
    <3>4. rows[m].ver <= rows[k].ver /\ rows[k].ver <= V
      <4>1. rows[k].ver <= V
        BY <3>2 DEF OrderInv, RowsInOrder
      <4>2. m < k \/ m = k
        BY <1>0, <3>1, <3>2
      <4>3. m < k => rows[m].ver <= rows[k].ver
        BY <3>2 DEF OrderInv, RowsInOrder
      <4> QED BY <3>3, <4>1, <4>2, <4>3
    <3>5. rows[k].ver = V
      BY <3>2, <3>3, <3>4
    <3>6. k \in run
      BY <3>2, <3>5 DEF OwnRows
    <3>7. k = m
      <4>1. k <= m
        BY <2>3, <2>4, <3>6
      <4> QED BY <1>0, <3>1, <3>2, <4>1
    <3>8. rows[k].run \in {"done", "failed"}
      <4>1. rows[k].run # "none"
        BY <3>2 DEF StartInv, DraftOrRun
      <4> QED BY <2>1, <3>3, <3>6, <4>1 DEF RowState
    <3> QED BY <2>1, <2>4, <3>6, <3>7, <3>8
  <2> QED BY <1>1, <1>2, <1>5, <2>4
<1> QED BY <1>1, <1>4, <1>5

\* When everything is quiet, the workflow state of a task is what its executions say, and its
\* page leads to them (WorkflowFollows: state reconciles nobody waits for, in the API and in
\* the worker, against edits, starts and the reconcile loop).
THEOREM WorkflowFollowsHolds == Spec => []WorkflowFollows
<1> DEFINE Inv == Typed /\ StartInv /\ OrderInv /\ WorkInv
<1>1. Init => Inv
  BY TypesInit, StartsInit, OrderInit, WorkInit
<1>2. Inv /\ [Next]_vars => Inv'
  BY TypesStep, StartsStep, OrderStep, WorkStep DEF DraftsStep, OrderInv
<1>3. Inv => WorkflowFollows
  BY WorkflowIs
<1> QED BY <1>1, <1>2, <1>3, PTL DEF Spec

-----------------------------------------------------------------------------
(* The inbox.                                                              *)

\* A control is of a kind while it is active, and it is told to be restored when it is not.
ControlState ==
  [type : Controls, active : BOOLEAN, due : BOOLEAN, ver : 0..MaxVersions, restored : BOOLEAN]

\* The invariant of the controls.
ControlInv ==
  /\ control \in [Tasks -> ControlState]
  /\ hiding \in [Tasks -> [type : Controls, ver : 0..MaxVersions]]
  /\ \A t \in Tasks :
       /\ hiding[t] # NotHiding => hiding[t].type # "none"
       /\ control[t].active => control[t].type # "none" /\ ~control[t].restored
       /\ control[t].type # "none" /\ ~control[t].active => control[t].restored

\* The inbox only counts a request of the user where ManualDrafts is concerned.
LEMMA InboxSteps ==
  ASSUME [InboxNext]_inboxVars
  PROVE  DraftsStep
<1>1. CASE UNCHANGED inboxVars
  BY <1>1 DEF inboxVars, DraftsStep
<1>2. ASSUME NEW t \in Tasks, UpsertControl(t) \/ SnoozeEnds(t) PROVE DraftsStep
  BY <1>2 DEF UpsertControl, SnoozeEnds, DraftsStep
<1>3. ASSUME NEW t \in Tasks, Restore(t) \/ \E type \in Controls \ {"none"} : AskHide(t, type) PROVE DraftsStep
  BY <1>3 DEF Restore, AskHide, DraftsStep, Elsewhere
<1>4. CASE Next
  BY <1>4 DEF DraftsStep
<1> QED BY <1>1, <1>2, <1>3, <1>4 DEF InboxNext

\* No task is hidden at first.
LEMMA ControlsInit == InboxInit => ControlInv
<1>1. 0 \in 0..MaxVersions
  BY DraftsAssumption
<1> QED BY <1>1 DEF InboxInit, ControlInv, ControlState, NoControl, NotHiding, Controls

\* The controls stay what their history says.
LEMMA ControlsStep ==
  ASSUME Typed, ControlInv, [InboxNext]_inboxVars
  PROVE  ControlInv'
<1>0. /\ control \in [Tasks -> ControlState]
      /\ hiding \in [Tasks -> [type : Controls, ver : 0..MaxVersions]]
  BY DEF ControlInv
<1>1. CASE UNCHANGED <<control, hiding>>
  BY <1>1 DEF ControlInv
<1>2. ASSUME NEW t \in Tasks, UpsertControl(t) PROVE ControlInv'
  <2>1. hiding[t].type \in Controls \ {"none"} /\ hiding[t].ver \in 0..MaxVersions
    BY <1>0, <1>2 DEF UpsertControl, ControlInv
  <2>2. /\ control' = [control EXCEPT ![t] = [type |-> hiding[t].type, active |-> TRUE, due |-> FALSE,
                                              ver |-> hiding[t].ver, restored |-> FALSE]]
        /\ hiding' = [hiding EXCEPT ![t] = [type |-> "none", ver |-> 0]]
    BY <1>2 DEF UpsertControl, Suppressed, NotHiding
  <2>3. [type |-> "none", ver |-> 0] \in [type : Controls, ver : 0..MaxVersions]
    BY DraftsAssumption DEF Controls
  <2>4. [type |-> hiding[t].type, active |-> TRUE, due |-> FALSE, ver |-> hiding[t].ver, restored |-> FALSE]
          \in ControlState
    BY <2>1 DEF ControlState
  <2>5. /\ control' \in [Tasks -> ControlState]
        /\ hiding' \in [Tasks -> [type : Controls, ver : 0..MaxVersions]]
    BY <1>0, <2>2, <2>3, <2>4
  <2>6. ASSUME NEW u \in Tasks
        PROVE /\ hiding'[u] # NotHiding => hiding'[u].type # "none"
              /\ control'[u].active => control'[u].type # "none" /\ ~control'[u].restored
              /\ control'[u].type # "none" /\ ~control'[u].active => control'[u].restored
    <3>1. CASE u = t
      BY <1>0, <2>1, <2>2, <3>1 DEF NotHiding
    <3>2. CASE u # t
      BY <1>0, <2>2, <3>2 DEF ControlInv
    <3> QED BY <3>1, <3>2
  <2> QED BY <2>5, <2>6 DEF ControlInv
<1>3. ASSUME NEW t \in Tasks, SnoozeEnds(t) PROVE ControlInv'
  <2>1. control' = [control EXCEPT ![t].due = TRUE] /\ UNCHANGED hiding
    BY <1>3 DEF SnoozeEnds
  <2>2. control' \in [Tasks -> ControlState]
    BY <1>0, <2>1 DEF ControlState
  <2>3. ASSUME NEW u \in Tasks
        PROVE  /\ control'[u].type = control[u].type /\ control'[u].active = control[u].active
               /\ control'[u].restored = control[u].restored
    BY <1>0, <2>1 DEF ControlState
  <2> QED BY <2>1, <2>2, <2>3 DEF ControlInv
<1>4. ASSUME NEW t \in Tasks, Restore(t) PROVE ControlInv'
  <2>1. control' = [control EXCEPT ![t].active = FALSE, ![t].restored = TRUE] /\ UNCHANGED hiding
    BY <1>4 DEF Restore
  <2>2. control' \in [Tasks -> ControlState]
    BY <1>0, <2>1 DEF ControlState
  <2>3. ASSUME NEW u \in Tasks
        PROVE  \/ u = t /\ ~control'[u].active /\ control'[u].restored
               \/ control'[u] = control[u]
    BY <1>0, <2>1 DEF ControlState
  <2> QED BY <2>1, <2>2, <2>3 DEF ControlInv
<1>5. ASSUME NEW t \in Tasks, NEW type \in Controls \ {"none"}, AskHide(t, type) PROVE ControlInv'
  <2>1. UNCHANGED control /\ hiding' = [hiding EXCEPT ![t] = [type |-> type, ver |-> Version(t)]]
    BY <1>5 DEF AskHide
  <2>2. Version(t) \in 0..MaxVersions
    BY ReadItem
  <2>3. hiding' \in [Tasks -> [type : Controls, ver : 0..MaxVersions]]
    BY <1>0, <2>1, <2>2
  <2>4. ASSUME NEW u \in Tasks PROVE hiding'[u].type # "none" \/ hiding'[u] = hiding[u]
    BY <1>0, <2>1
  <2> QED BY <2>1, <2>3, <2>4 DEF ControlInv
<1> QED BY <1>1, <1>2, <1>3, <1>4, <1>5 DEF InboxNext, inboxVars

\* The history of a task is that of its controls, its rule and its rows.
LEMMA HistoryIs ==
  ASSUME Typed, StartInv, ControlInv
  PROVE  HistoryAgrees
<1> SUFFICES ASSUME NEW t \in Tasks, Here(t)
             PROVE  /\ Hidden(t) => Told("task_restored", NoFind) \notin History(t)
                    /\ control[t].type # "none" /\ ~Hidden(t) =>
                         Told("task_restored", NoFind) \in History(t) \/ control[t].due
                    /\ \A n \in DOMAIN rows : rows[n].task = t /\ sent[n] > rows[n].lost =>
                         {h \in History(t) : h.execution = n} = {Told("draft_created", n), Told("draft_started", n)}
  BY DEF HistoryAgrees
<1>0. DOMAIN rows = 1..Len(rows) /\ Len(rows) \in Nat /\ control[t] \in ControlState /\ Len(rows) <= MaxRows
  BY DEF Typed, RowTypes, ControlInv
<1>1. Told("task_restored", NoFind) \in History(t) <=> Told("task_restored", NoFind) \in ControlHistory(t)
  <2>1. Told("task_restored", NoFind) \notin RuleHistory(t)
    BY DEF RuleHistory, Told
  <2>2. \A n : Told("task_restored", NoFind) \notin RowHistory(n)
    BY DEF RowHistory, Told
  <2> QED BY <2>1, <2>2 DEF History
<1>2. Told("task_restored", NoFind) \in ControlHistory(t) <=>
        control[t].type # "none" /\ (control[t].restored \/ Changed(control[t], Version(t)))
  BY DEF ControlHistory, Told
<1>3. Hidden(t) => Told("task_restored", NoFind) \notin History(t)
  BY <1>1, <1>2 DEF Hidden, Hides, Changed, ControlInv
<1>4. control[t].type # "none" /\ ~Hidden(t) =>
         Told("task_restored", NoFind) \in History(t) \/ control[t].due
  BY <1>0, <1>1, <1>2 DEF Hidden, Hides, Changed, ControlInv, ControlState, Controls
<1>5. ASSUME NEW n \in DOMAIN rows, rows[n].task = t, sent[n] > rows[n].lost
      PROVE  {h \in History(t) : h.execution = n} = {Told("draft_created", n), Told("draft_started", n)}
  <2>1. rows[n].draft = "none" /\ n # NoFind
    BY <1>0, <1>5 DEF StartInv, StartedOnce, NoFind
  <2>2. \A h \in RuleHistory(t) \cup ControlHistory(t) : h.execution = NoFind
    BY DEF RuleHistory, ControlHistory, Told
  <2>3. \A m : \A h \in RowHistory(m) : h.execution = m
    BY DEF RowHistory, Told
  <2>4. RowHistory(n) = {Told("draft_created", n), Told("draft_started", n)}
    BY <2>1 DEF RowHistory
  <2>5. \A h : h \in History(t) /\ h.execution = n <=> h \in RowHistory(n)
    <3>1. RowHistory(n) \subseteq History(t)
      BY <1>5 DEF History
    <3> QED BY <2>1, <2>2, <2>3, <3>1 DEF History
  <2> QED BY <2>4, <2>5
<1> QED BY <1>3, <1>4, <1>5

\* The history does not contradict the inbox (HistoryAgrees: controls that are written over,
\* restored, or left behind by a new version, and drafts that are started, dispatched, and
\* undone when the dispatch throws).
THEOREM HistoryAgreesHolds == InboxSpec => []HistoryAgrees
<1> DEFINE Inv == Typed /\ StartInv /\ ControlInv
<1>1. InboxInit => Inv
  BY TypesInit, StartsInit, ControlsInit DEF InboxInit
<1>2. Inv /\ [InboxNext]_inboxVars => Inv'
  BY InboxSteps, TypesStep, StartsStep, ControlsStep
<1>3. Inv => HistoryAgrees
  BY HistoryIs
<1> QED BY <1>1, <1>2, <1>3, PTL DEF InboxSpec

\* When everything is quiet, a ready draft is what the item of its task is about.
LEMMA OffersIs ==
  ASSUME Typed, OrderInv, DraftInv, ControlInv
  PROVE  DraftsOffered
<1> SUFFICES ASSUME Quiet, faults = 0, ~unheard, NEW n \in DOMAIN rows, NEW t, t = rows[n].task,
                    Ready(n), MatchNow(t) # {}, TheMatch(t).id = rows[n].rule
             PROVE  \/ /\ \A query \in About(n) : t \in Inbox(FALSE, query)
                       /\ Reason(t) = "draft_ready" /\ Offered(t) = n
                    \/ /\ control[t].active /\ Reason(t) = control[t].type
                       /\ \A query \in About(n) : t \in Inbox(TRUE, query) \ Inbox(FALSE, query)
                       /\ \/ control[t].type = "snooze" /\ ~control[t].due
                          \/ control[t].type = "dismiss_until_change" /\ control[t].ver = rows[n].ver
  BY DEF DraftsOffered
<1>0. /\ t \in Tasks /\ rows[n] \in RowState /\ DOMAIN rows = 1..Len(rows) /\ Len(rows) \in Nat
      /\ n \in Nat /\ control[t] \in ControlState
  BY RowType DEF Typed, RowTypes, ControlInv
<1>1. RightRow(n, t)
  <2>1. loop.pc = "idle" /\ queued = {}
    BY DEF Quiet, Scheduled, Typed, LoopTypes
  <2>2. ~Waits(t)
    BY <2>1 DEF Waits
  <2> QED BY <1>0, <2>2 DEF DraftInv, Settled, Right
<1> DEFINE x == TheMatch(t)
<1>2. x \in MatchNow(t)
  BY DEF TheMatch
<1>3. x \in ActiveRules /\ x.value = rule[x.id]
  BY <1>2, ReadRules DEF MatchNow, FirstMatch, Typed
<1>4. x.value.mode = "draft" /\ x.value.suggestedAction \in Actions /\ x.value.repositoryId = rows[n].repo
  <2>1. PICK y \in ActiveRules : /\ Drafts({y}) /\ y.id = rows[n].rule
                                 /\ y.value.suggestedAction = rows[n].does /\ y.value.repositoryId = rows[n].repo
    BY <1>1 DEF RightRow, Says, FirstMatch
  <2>2. y.value = rule[y.id]
    BY <2>1, ReadRules DEF Typed
  <2>3. x.value = y.value
    BY <1>3, <2>1, <2>2
  <2> QED BY <1>0, <2>1, <2>3 DEF Drafts, RowState
<1>5. Drafts(MatchNow(t))
  BY <1>2, <1>4 DEF Drafts, Actions, Null
<1>6. n \in ReadyOf(t)
  BY <1>1, <1>4 DEF ReadyOf, Relevant, DraftsOf, RightRow, Ready
<1>7. DraftOutcome(t) = "ready"
  BY <1>5, <1>6 DEF DraftOutcome, ReadyOf
<1>8. Offered(t) = n
  <2>1. ReadyOf(t) \subseteq 0..Len(rows) /\ \A m \in ReadyOf(t) : m \in DOMAIN rows /\ rows[m].task = t
    BY <1>0 DEF ReadyOf, Relevant, DraftsOf
  <2>2. \A m \in ReadyOf(t) : m <= n
    BY <2>1 DEF OrderInv, ReadyIsLast
  <2>3. ASSUME NEW k, k = Max(ReadyOf(t)) PROVE k = n
    <3>1. k \in ReadyOf(t) /\ n <= k
      BY <1>0, <1>6, <2>1, <2>3, HasMax
    <3>2. k <= n /\ k \in Nat
      BY <1>0, <2>1, <2>2, <3>1
    <3> QED BY <1>0, <3>1, <3>2
  <2> QED BY <2>3 DEF Offered
<1>9. \A query \in About(n) : Fits(t, query)
  <2>1. /\ FeedItem(t).ruleId = rows[n].rule /\ FeedItem(t).repositoryId = rows[n].repo
        /\ FeedItem(t).draftStatus = "ready" /\ FeedItem(t).automationState = "drafted"
        /\ FeedItem(t).provider = ProviderOf(t)
    BY <1>4, <1>7 DEF FeedItem
  <2>2. Fits(t, [ruleId |-> rows[n].rule])
    BY <2>1 DEF Fits
  <2>3. Fits(t, [repositoryId |-> rows[n].repo, draftStatus |-> "ready"])
    BY <2>1 DEF Fits
  <2>4. Fits(t, [provider |-> ProviderOf(t), automationState |-> "drafted"])
    BY <2>1 DEF Fits
  <2> QED BY <2>2, <2>3, <2>4 DEF About
<1>10. Here(t)
  BY <1>1 DEF RightRow
<1>11. CASE ~Hidden(t)
  <2>1. Reason(t) = "draft_ready"
    BY <1>7, <1>11 DEF Reason
  <2>2. \A query \in About(n) : t \in Inbox(FALSE, query)
    BY <1>0, <1>9, <1>10, <1>11, <2>1 DEF Inbox, Listed
  <2> QED BY <1>8, <2>1, <2>2
<1>12. CASE Hidden(t)
  <2>1. /\ Reason(t) = control[t].type /\ control[t].active /\ control[t].type # "none"
    BY <1>0, <1>12 DEF Reason, Hidden, Hides, ControlInv
  <2>2. \A query \in About(n) : t \in Inbox(TRUE, query) \ Inbox(FALSE, query)
    BY <1>0, <1>9, <1>10, <1>12, <2>1 DEF Inbox, Listed
  <2>3. \/ control[t].type = "snooze" /\ ~control[t].due
        \/ control[t].type = "dismiss_until_change" /\ control[t].ver = rows[n].ver
    BY <1>0, <1>1, <1>12, <2>1 DEF Hidden, Hides, RightRow, ControlState, Controls
  <2> QED BY <2>1, <2>2, <2>3
<1> QED BY <1>11, <1>12

\* A ready draft is not overlooked (DraftsOffered: the filters, the outcome and the reason of
\* an item over drafts, rules and tasks that changed while the loop and the user were at work).
THEOREM DraftsOfferedHolds == InboxSpec => []DraftsOffered
<1> DEFINE Inv == Typed /\ StartInv /\ OrderInv /\ DraftInv /\ ControlInv
<1>1. InboxInit => Inv
  BY TypesInit, StartsInit, OrderInit, DraftsInit, ControlsInit DEF InboxInit
<1>2. Inv /\ [InboxNext]_inboxVars => Inv'
  BY InboxSteps, TypesStep, StartsStep, OrderStep, DraftsStepKeeps, ControlsStep
<1>3. Inv => DraftsOffered
  BY OffersIs
<1> QED BY <1>1, <1>2, <1>3, PTL DEF InboxSpec

\* The inbox leaves all of this to the drafts: what holds of them holds with it.
THEOREM InboxKeepsDrafts ==
  InboxSpec => [](TypeOK /\ StartedOnce /\ DraftsFollowRules /\ WorkflowFollows)
<1> DEFINE Inv == DraftsInv
           Good == TypeOK /\ StartedOnce /\ DraftsFollowRules /\ WorkflowFollows
<1>1. InboxInit => Inv
  BY TypesInit, StartsInit, OrderInit, DraftsInit, WorkInit DEF InboxInit, DraftsInv
<1>2. Inv /\ [InboxNext]_inboxVars => Inv'
  BY InboxSteps, TypesStep, StartsStep, OrderStep, DraftsStepKeeps, WorkStep DEF OrderInv, DraftsInv
<1>3. Inv => Good
  BY TypesAre, DraftsFollow, WorkflowIs DEF StartInv, DraftsInv
<1> QED BY <1>1, <1>2, <1>3, PTL DEF InboxSpec
=============================================================================
