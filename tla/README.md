# TLA+ models of the task-to-pull-request pipeline

The program takes a task (from Asana, Jira or typed in by hand), drafts an execution for it by
the user's rules, runs the Claude CLI on a checkout of a repository and publishes the result as a
pull request, after an AI review if the user wants one. This directory models the parts of it in
which processes, requests, the queue, the database, git and the providers meet. Source paths below
are relative to `src/backend/src/` unless they say otherwise.

## 1. The system

Two Node.js processes share a PostgreSQL database and a Redis server: the API (`main.ts`) and one
worker (`main-worker.ts`, service `backend-worker` of `docker-compose.yml`, restarted unless
stopped). The worker spawns one CLI process per run.

| component | state | operations | talks to |
|---|---|---|---|
| executions API (`executions/executions.service.ts`, `execution-dispatch.service.ts`) | row of `executions` | create, draft, start, cancel, decide | database, queue, review gate |
| queue (`execution-queue.service.ts`) | Redis lists main, `:processing`, `:dead` | enqueue, consume, acknowledge, retry, bury, requeue at boot | Redis |
| worker (`execution-worker.service.ts`, `execution-orchestrator.service.ts`) | candidates of the recovery | boot, recover orphans, claim a row, sweep overdue decisions | database, queue, runtime manager |
| runtime manager (`execution-runtime.manager.ts`) | map `activeExecutions`: process, flags, timers, output | spawn, time out, notice a cancel, handle the exit, finalize | CLI, database, gate, publication |
| review gate (`execution-review-gate.service.ts`) | `execution_reviews`, gate columns of the parent | start a review, take its verdict, remediate, decide, time out | database, dispatch |
| publication (`execution-publication.service.ts`, `publication/`, `pre-commit/`) | automation columns, working copy | branch, checks, commit, push, pull request, retry without a diff | git, GitHub, dispatch |
| event stream (`execution-stream.hub.ts`, `execution-event-store.service.ts`, `execution-retention.service.ts`) | `execution_events`, subscribers | publish, replay, delete old ones | database, browser |
| drafts (`executions.service.ts`, `tasks/task-automation-orchestrator.service.ts`) | draft rows | refresh, supersede, start | database |
| manual tasks (`manual-tasks/`, `executions/manual-task-automation-state.service.ts`) | workflow state | edit, delete, reconcile with the executions | database, drafts |
| task synchronisation (`tasks/task-sync*.ts`, `task-managers/`) | connections, sync runs, synced tasks and scopes | start a run, fetch, upsert, delete stale ones | Asana, Jira, drafts |
| rules, inbox, feed, defaults (`automation-rules/`, `tasks/`) | rules, controls, defaults | match, snooze, dismiss, restore, list, suggest | database |
| repositories, settings (`repositories/`, `settings/`) | rows, clones on disk | clone, pull, delete, configure | database, git, file system |
| frontend (`src/frontend`) | what the browser shows | follow a stream, poll a sync run, forms | API |
| auth, users, observability, migrations | single rows, counters, schema | request handlers | database |

What is hard: no transaction spans two services, so every `await` between two statements is a
point where another actor runs; most updates go by id, without a condition on what the row
holds, and `save` writes an entity as it was read; the API cannot signal a process of the worker;
queue entries are delivered at least once; both processes restart; the executions of a repository
share one working copy; and the review gate has four writers for one parent.

What makes it correct, by component: *lifecycle*: one owner of an execution at a time, one pull
request, every execution settles; *intake*: one execution per key, the limit; *queue*: no entry
lost, it drains; *review gate*: one process in the checkout, an outcome stands, nothing published
that was not let pass; *publication*: its own changes, checked, one pull request that the row tells;
*stream*: events once each and in order, the page shows the row; *synchronisation*: rows and drafts
mirror the provider; *drafts*: they follow rules and tasks and start once; *manual tasks*: the state
follows the executions; *inbox and feed*: nothing hidden, nothing out of date offered;
*repositories*: rows and directories go together.

## 2. The modules

    ExecutionLifecycle <- MCLifecycle                    Publication      EXTENDS PreCommitChecks
                       <- ExecutionLifecycleProofs                        <- MCPublication
    ExecutionQueue     => JobDelivery  (refinement)                       <- PublicationProofs
                       <- RefinementProofs               ManualDrafts     EXTENDS AutomationRules
    ReviewGate         <- MCGate, ReviewGateProofs       AutomationInbox  EXTENDS ManualDrafts
    ExecutionStream    => EventLog     (refinement)                       <- MCDrafts, DraftsProofs
                       <- RefinementProofs               TaskSync         <- MCSync
    Intake             <- MCIntake, IntakeProofs         TaskFeed         EXTENDS TaskSync
                                                                          <- MCFeed, FeedProofs
                                                         Workspace        <- MCWorkspace
                                                                          <- WorkspaceProofs

MC modules give the constants their values; Proofs modules hold the theorems. Each module begins
with a comment that says what its steps are and what is reduced.

**ExecutionLifecycle**: the executions of one user. `row` has the columns that decide anything
(`status`, `orchestrationState`, `automationStatus`, `isDraft`, `implementationAttempts`); `cons`
is the worker's consumer between two awaits of `processExecution` and `startExecution`; `run`
holds every CLI process with its exit handler (`pc` is the await it is at) and its
`ActiveExecution`; `active` is the map `activeExecutions`. Every database statement is one action.
The queue is a count of entries per execution; `ExecutionQueue` is the detailed one. The AI review
is off. What can fail around the code is chosen by the constant `Faults`.

**Intake**: what happens before: `POST /executions` with an `Idempotency-Key`, up to the answer,
and the start of a draft. A key is looked up before the transaction, in it, and after a failure;
the rows a transaction wrote are seen when it commits, and the lock on the user's row orders the
counts of active executions. A content says how the task is spelled and what is left to a default,
so that the request hash is modelled by what it tells apart.

**ExecutionQueue**: the three lists, one action per Redis command. A command can be refused, or be
executed with its reply lost; the worker can stop or die anywhere. Entries are compared by their
text, as LREM does. **JobDelivery** is what the queue promises, without lists: a stored copy of a
job is given up only after its run has resolved or another copy is known to be stored.

**ReviewGate**: one parent, its review and remediation children, the cycle records, requests and
the sweep. A handler is a script of statements, and an actor performs one statement of its script
per step. Handlers begin with reads that are followed by no other await than reads; these are one
step with the choice of the script. An error drops the rest of a script.

**ExecutionStream**: the output and the events of one execution, from the CLI through the write
queue and the hub of its process to `execution_events`, the subscribers of that process, and what
`useExecutionStream` shows. **EventLog** is the promise of the stored events. Names that
ExecutionQueue has too begin with `Stream` here, since RefinementProofs extends both.

**Publication**: executions of one task and their shared working copy, one git command, GitHub call
or statement per step, with the retries and the clean-up. Branches hold sets of changes.
**PreCommitChecks** is its configuration: which profiles are valid, which one applies, and which
outcomes their commands can have.

**TaskSync**: two runs of `executeRun` as scripts over pages, rows, scopes and ready drafts, while
tasks are moved at the provider, connections come and go, the scheduler and the browser ask for
runs, and the browser polls. **TaskFeed** reads its tables one after the other, as
`listTaskFeedItemsForUser` does, and cuts the feed at its limit; the scopes, the filter and the
suggested repository are operators.

**AutomationRules**: validation, precedence and matching. **ManualDrafts**: the reconcile loop of
one user with its queue of providers, the requests that create, change and delete rules and tasks
(rules and tasks are read in one step and written in another, so that changes overlap), starts of
drafts with their dispatch and its undo, the worker that runs what the queue has, and the reconciles
of the workflow state. The tasks and the rules a pass has loaded are sets; the order the rules are tried in
is their precedence, and the order of the tasks is any. A user begins with one rule for manual tasks
or none. **AutomationInbox**: what the inbox lists and tells of these drafts, and its
controls, read and written in two steps.

**Workspace**: requests about repositories, defaults and settings, one statement, git command or
file operation per step; the rows and the directories are separate state.

### Abstractions

- Texts, prompts, timestamps, exit codes other than zero or not, and ids other than model values
  are left out. Output is a sequence of chunks; its limit is counted in chunks, and that it may be
  cut inside a character is not modelled.
- In ExecutionLifecycle a failed statement before the claim returns the entry to the queue; that an
  entry is dead-lettered after `EXECUTION_QUEUE_MAX_ATTEMPTS` is in ExecutionQueue (`MaxFaults` of
  the lifecycle runs is below it). A BLMOVE that is answered during a shutdown is treated as answered
  just before it. A user cancels an execution once. Publication is its outcome there, and in ReviewGate.
- In ReviewGate the consumer's claim and spawn are one step, and a crash includes the recovery after
  it. There is one sweep at a time; `setInterval` may start the next one before a long one ends. A
  verdict is a free choice.
- In Publication the row's life outside the publication columns is left out.
- In TaskSync a transaction is one step, and the refresh of one task's draft in it is atomic; it is
  taken apart in ManualDrafts. A scope that answers 404 ends with the pages it gave, and the run
  remembers it (`skipped`). Versions stand for `sourceUpdatedAt` and the content. Connections and
  scopes are sets, taken in an order that is fixed but not said (`Due`, `Scope`); a page may hold any of
  the tasks that are left, at Jira the newest of them (`Pages`).
- In ManualDrafts synced tasks do not change, an execution has a start and one of two ends, and there is
  one update of a task at a time (two would write the same columns; updates of rules do overlap).
- TaskFeed has the tasks of one provider: a query that names none lists manual tasks, too, which share its
  limit. AutomationInbox has the items that `total` counts, not which of them the limit sends.
- One worker: `docker-compose.yml` starts one. The `inline` queue driver is for tests; the stream
  covers it (`Homes = {"api"}`).

## 3. What is checked

Each property has a mutant, a change of a mapped definition as a plausible bug would make it, under
which TLC finds the property violated. A mutant stands just before the definition it changes.

| run | bounds | what it shows |
|---|---|---|
| `lifecycle_faults` | 1 execution, 4 runs, 2 attempts, 2 faults of crash, shutdown, API crash, early exit, failing statement; or one refused dispatch | `TypeOK`; `ListenerIsEntry`: exit, timeout and cancel reach a live process that is listened to; `OneOwner`; `OnePullRequest`; `EverySettles`; `CancelStopsProcess` |
| `intake` | 3 creations and a start, 1 key, limit 1, one task written in two ways and another request, one fault | `KeyNamesOneExecution` within the time to live; `LimitKept`; `RetryGetsTheExecution`: a repeat gets the first one's execution, a different request never does |
| `queue` | 2 executions and a malformed entry, 3 entries, 2 attempts, 2 faults | `DeliveryPromise` (refines JobDelivery); `Drains` |
| `gate` | 5 children, 1 decision, 3 cycles (the code's default), 2 attempts, 1 event of seven kinds | `OneProcess` in the checkout; `OnlyApprovedPublished`; `DecidedOnce`: an outcome stands; `GateResolves` |
| `publication` | 2 executions on one copy, 2 branches, 2 retries, 2 attempts, 4 configurations, 1 fault of eight kinds | `OnePullRequestEach`; `OwnChangesOnly`; `RowTellsPullRequest`; `CheckedCode` against a definition without the resolver; `PublicationEnds` |
| `stream` | 1 browser, 2 chunks, output of 1, 2 tries, 1 event, both homes of the CLI | `FaithfulView`: in quiet moments the page shows the row; `EventLogPromise` (refines EventLog); `StreamEnds` |
| `sync` | both providers, 2 runs, 2 connections, 3 tasks, 4 scopes, 1 task per page, 2 pages, 1 event | `UntouchedTasksKept`; `CompletedRunMirrors`; `DraftsFollowRows`; `PollingEnds` |
| `feed` | 2 runs, 3 tasks, 4 scopes, 4 tables of defaults, a limit of 2, 1 change | `ScopesMatchFilter`; `SuggestionStable` for every order of rows; `FeedIsHonest` |
| `drafts` | a manual task in 2 versions and a synced one, 2 rules of 4 kinds, 3 changes by patches, 2 of them to rules at a time, rows of 3, 2 reconciles, 2 starts, 1 fault | `DraftsFollowRules`; `StartedOnce`; `WorkflowFollows`; `DraftsOffered`; `HistoryAgrees`; `Quiesces` |
| `workspace` | 4 requests of any kind, 2 names with one path, both databases, 1 fault of six kinds | `RowHasDirectory`; `NoLostDirectory`; `DefaultTakesEffect`; `SyncHasProvider` |
| `v_lost`, `v_gate_width` | | violated, see below |

The other modules define a `TypeOK` as documentation of their state; only that of
ExecutionLifecycle is a property of a run. The types of the nine components of section 4 are proved.

Bounds. A constant or a guard that bounds something says "bound" in its comment. One stamp makes
all queue entries of an execution equal, which is the hard case of LREM; three entries are two
duplicates and a stranger. Four runs of an execution leave room for a retry and two restarts.
MaxFaults of two allows a fault during the recovery from another. A refused dispatch is in `Alone`:
no other fault precedes or follows it in a behaviour, since together they let the undo of a start
take a row from its owner (section 4, `ReliableDispatch`). Three cycles and two children per cycle
let a fix, a second review and a retry without a diff follow each other. Two executions of one task
collide in the working copy and on branch names; two branch names let the search run out. Three
creations with one key are a winner, a loser of the unique index and a late repeat. Two pages of
one task are a limit that is met exactly and exceeded. Four requests of Workspace are a creation, a
deletion, a re-creation at the same path and one more that holds an old copy of the row. Symmetry is
used in `intake` and `workspace`, whose properties are invariants. Deadlock is not checked: the
system stops when all is settled and the bounds are used up.

Fairness. Processes take their next step (WF): they run and their statements return or fail. An
entry of the queue reaches its head, so Receive of each execution is taken if it is possible again
and again (SF). Timers fire, and a process told to stop is killed (`terminateProcess` sends SIGKILL
after the grace period), so its exit is fair. A worker that stopped is started again by the container
runtime. In the gate one fairness condition covers all that can go on, in the stream the CLI exits
and a review resolves, since both have timeouts. A snooze ends, and the browser polls while it shows
a run. Nothing else is fair: no request of a user, no change at a provider.

### Where the code differs from what it says

- `v_lost`: `dispatch` throws after the entry has reached Redis, `startDraftForUser` turns the row
  into a ready draft by id while the worker runs it, and starting the draft again spawns a second
  CLI in the same checkout. The PRD says that retries make no duplicate runs.
- `v_gate_width`: the state `awaiting_review_decision` has 24 characters, its column 16. On
  PostgreSQL the update is refused after the cycle's record was written: the parent is neither
  decidable nor overdue. `gate` sets `LongestState` to 24, so that it says something about the logic,
  as it runs on the test database.

### Known limits that the properties exclude

These were met while modelling; a property or a history variable names each exclusion that matters.

Lifecycle. A worker crash between the two claims leaves the row pending/running, and one after the
outcome was written leaves it completed/finalizing; `recoverOrphans` looks for neither. A row the
user cancelled becomes failed or completed, because `fail` and `handleExit` write by id. An exit
before the listener is attached, or a failing statement after the spawn, leaves an execution without
handler. The retry without a diff does not check the limit.

Intake. A key of an execution whose dispatch failed answers that failed execution until its time is
over. The time to live is a constant, the PRD has it configurable. The ownership of a manual task is
checked before the key, so a repeat after its deletion gets 403. The frontend makes a new key per
click. An API crash before the dispatch leaves a row that counts until the worker's next recovery.

Review gate. With no cycles left the parent is failed and the exit handler publishes it. Two
decisions, or a decision and the sweep, can both pass the check: a blocked parent may be published,
and `MarkBlocked` can wipe the due date of the next cycle. A decision carries no cycle, so an old
page decides a later one. A parent cancelled while its decision is pending is published by the sweep
24 hours later. Output without a verdict passes; the CLI writes stream-json, in which no line may
ever begin with one.

Publication. An execution that shares the copy with a running one, or follows a failed clean-up or an
execution with publication disabled, may publish their changes or fail at its checkout. A lost reply
or a failing last statement leaves a pull request with a row that says failed. A default profile that
cannot be read fails open to a warning. The override is read at the start and the default at the
check; two changes in between combine to what was never in force. A disabled override masks the
user's blocking default. Plans are published without checks, files that checks write are committed,
and the timeout of a command does not end one whose grandchild keeps its pipes open.

Stream. Subscribers are in the memory of a process: with the CLI in the worker no event reaches a
browser until it reads the row or the stored events again (`Homes`; the properties about the page
are about the API process). The row says completed before the publication has ended. A browser that
registers between the row and the terminal event stays connected. The event of a retry may come
after the first of the next run. A pending execution that is cancelled publishes nothing. Retention
goes by `createdAt`: a draft of 30 days loses fresh output.

Synchronisation. A scope that answers 404 is skipped, and the run goes on: a task that it saw in no other
scope loses its row and its draft though nobody touched it (`Answering` in `UntouchedTasksKept`), and one
it saw elsewhere its scope (`skipped` in `CompletedRunMirrors`). Of two overlapping runs the older
snapshot may re-insert a removed task. A deleted connection or a failing last part leaves ready drafts of
rows that are gone. A crash leaves a run active for ever, which blocks its provider. Jira lists the first
100 projects only. A workspace that gets its first project hides tasks that are only assigned in it. An
empty listing deletes all rows.

Drafts. An update of a rule saves the whole row as it was read: it undoes a change that overlaps it and
re-inserts a deleted rule, and tells the drafts of what it has read only. When the undone change was of
another provider, or a rename undoes a change or a deletion, ready drafts stay that no rule calls for, or
are missing (`unheard`). A dispatch that throws after the queue has taken the entry is undone, and the
draft is dispatched once more for each of these (`lost`); its history then says that it waits. The undo
of a start works by id, whatever the worker made of the row, and can revive a draft whose rule is gone. A
failing pass or a crash of the API leaves drafts as they are until the next change. Overlapping state
reconciles can leave an old state. A task that is started or done and whose rule has no status filter is
drafted again. The inbox says of a superseded draft what is not true after a later one was started, and
masks a failed execution. The end of a snooze is not in the history, and the filter
`automationState=none` lists nothing. Feed and inbox send the first `limit` items (100, at most 200) and
there is no next page: beyond it the number next to a scope is more than the feed by it shows, and
`total` tells the limit.

Workspace. A sync or a change of the profile saves the row it read: a deleted repository comes back
without a directory (`spoiled`), and a profile set during the pull is reverted. A lost reply of the
insert removes the directory of a row that exists. A killed clone, a failing removal or a DELETE whose
reply is lost leaves a directory that makes later creations fail (`littered`). Two names can share a
path. The row, and with it the executions, go before the directory a CLI may use. Overlapping updates of
the settings lose fields and, saved at the same time, leave synchronisation on without a provider
(`raced`). The portable upsert answers with success though its second UPDATE found no row after a
deletion.

## 4. What is proved

For every value of the constants that satisfies the assumptions of the modules: any number of
executions, requests, entries, faults and retries, any limit. Each proof begins with the types and
goes on from them with an inductive invariant, one lemma per group of actions.

`ExecutionLifecycleProofs`:

- `TypeCorrect`: `Spec => []TypeOK`.
- `OneOwnerHolds`: `Spec => []OneOwner`, and from it `AtMostOneProcessHolds`. `OneOwner` is not
  inductive: three actions write a row back to queued by id, without looking at it. `OwnerInv`
  adds what makes them harmless: `Quiet` (while the worker is down or recovers, nobody works on
  anything, so `Recover` takes no row from an owner), `HandlersAfterExit` (a handler past the
  exit has no live process, so the retry without a diff leaves none behind) and `NoUndo` (no start
  is being undone). `NoUndo` needs the assumption `ReliableDispatch`: no dispatch throws. Run
  `v_lost` shows that it cannot be dropped.

- `ListenerIsEntryHolds`: `Spec => []ListenerIsEntry`, by `EntryInv` on top of `OwnerInv`. The table
  `activeExecutions` is written by an execution's next run while the handler of an earlier one may still
  be at work, so the invariant also says whose entry such a handler refers to (`RefIsOwn`).
- `OnePullRequestHolds`: `Spec => []OnePullRequest`, by `PullRequestInv`: an execution with a pull
  request is spent (over, owned by nobody, no orphan, no run before its publication), a run that
  publishes has an execution that is over, and only a recovering worker has orphans.

`IntakeProofs`:

- `IntakeTypes`; `LimitKeptHolds` by `LimitInv`: who counts or writes holds the lock (`HoldsLock`),
  and who writes has room (`RoomLeft`). That `Starts` is finite is assumed: the drafts are rows.
- `KeyNamesOneExecutionHolds` by `KeyInv`: keys are only taken from rows older than the time to
  live, also by a transaction that has not committed.
- `RetryGetsTheExecutionHolds` by `RetryInv`: what a request has read or found at each of its steps
  (`Remembers`) stays true of the rows, which only grow and only lose keys (`RowsGrow`).

`RefinementProofs`, of the queue:

- `QueueTypesHold`, with `Held`: what the consumer may yet resolve is in the processing list.
- `DeliveryPromiseHolds`: `Spec => DeliveryPromise`, the refinement of JobDelivery; every command,
  executed or not, answered or not, is a step of JobDelivery or a stutter. The lemmas count the
  entries of a job in a list that is pushed to, popped from or removed from.

`RefinementProofs`, of the event stream:

- `StreamTypesHold`, with `Numbered`: the number a hub is to insert is taken or the one after the
  last, and it has an event to insert.
- `EventLogPromiseHolds`: `Spec => EventLogPromise`, the refinement of EventLog.

`ReviewGateProofs`, for any number of children, requests, cycles and attempts; that the ids of
children, requests and the two fixed actors differ is assumed:

- `GateTypes`: `Spec => []TypeOK`, with `Scripts`: which statements the script of an actor may hold
  (`Allowed`) and which may follow which (`Follows`). The other proofs reason about the next two
  statements of a script by these relations and never unfold a script.
- `OneProcessHolds` by `AloneInv`: whoever acts for the parent - a queue entry, a process, a
  script - is alone and hands over to one other (`Hands`). The decisions break this chain, since a
  request comes from outside; so the invariant says who may work while the gate awaits one
  (`WhileAwaiting`), when a cycle is open before the gate says so (`BeforeAwaiting`), and that one
  cycle is open at a time (`OneOpen`).
- `OnlyApprovedPublishedHolds`, from the same and `ApprovedInv`: the gate lets pass when a
  publication is next, and scripts publish only after such a write, but for the one the gate
  writes when no cycle is left.
- `DecidedOnceHolds` by `OutcomesInv`, which holds over crashes: a record waits for the outcome of
  each child it names (`RecordsWait`), and who is about to write finds it waiting
  (`WritersExpected`, `OneDecider`).

`PublicationProofs`, for any number of executions that share the working copy, any branch names and
any configurations with at most one profile in each place (a nullable column holds one):

- `PublicationTypesHold`, with the bounds of attempts and retries, and that nothing is pushed to the
  default branch.
- `OnePullRequestEachHolds` by `TriesForItsOwn`: an execution tries again for the branch it has
  opened a pull request of, and GitHub refuses that.
- `RowTellsPullRequestHolds` by `Told`: what the row says at each step of the publication.
- `OwnChangesOnlyHolds` by `HoldsInv`: the copy is clean between executions that clean up
  (`CleanBetween`), what the copy and the branch hold at each step of an execution that is alone in
  it (`HoldsItsOwn`), and what its pull request holds (`HoldsMade`).
- `CheckedCodeHolds` by `CheckedInv`, on top of `HoldsInv`, and by `ChecksSay`, which compares the
  resolver and the loop over the presets with the definition the property uses, for every
  configuration and every outcome.

`WorkspaceProofs`, for any number of requests, names, paths and faults:

- `WorkspaceTypes`: `Spec => []TypeOK`.
- `RowHasDirectoryHolds` and `NoLostDirectoryHolds`, from `WorkspaceInductive`. The directory of a
  path says nothing about who uses it, so `DirectoryInv` adds: `OneUser` (a path has one row, or
  one request that makes or removes its directory), `InStep` (that directory is as far as the
  request is), `SameName` and `FreshIds` (an old copy of a row names the path of the row, and a
  new row has a new id), and `Claimed`, the inductive form of `NoLostDirectory`, which tells half a
  clone from a whole one. Steps that concern neither rows nor directories are collected in `Aside`,
  so that defaults and settings need one argument only.
- `DefaultTakesEffectHolds` by `DefaultInv`: unless a deletion disturbed it, an upsert that comes to
  its second UPDATE finds the row, and one that looks for its default has stored it (`StoredOrDisturbed`).
- `SyncHasProviderHolds` by `SettingsInv`: there is one row of settings (`AtMostOne`), a form that is to
  be saved is valid (`FormsAreValid`), and one request writes at a time, over the row it read (`OneWrites`).

`DraftsProofs`, for any number of tasks, versions, rules, requests, reconciles, rows and changes:

- `DraftTypes`: `Spec => []TypeOK`, by `Typed`, which says of every program what it may hold.
- `StartedOnceHolds` by `StartInv`: a row that is not lost is a draft as long as it has no run
  (`DraftOrRun`), the request that is to dispatch or to undo a row is the only one (`ClaimedRows`), and the
  queue has no more entries of a row than it was sent (`Entries`). Only a fault loses a row (`NoneLost`),
  which the proofs about quiet moments without faults need.
- `DraftsFollowRulesHolds` by `DraftInv`, on top of `OrderInv`. The loop works with rules and tasks that
  it has read, while the user changes both, so every task is either one the loop will still come to
  (`Waits`: its provider is queued, or the pass has it before it) or its drafts are right (`Settled`);
  and what the loop has read of a provider is true as long as nobody queues that provider again
  (`LoopIsFresh`). That only the versions of a task grow (`RowsInOrder`) makes the ready draft the last
  row of its task (`ReadyIsLast`), hence the only one. That the verdict over the rules depends on the
  rules of one provider (`Verdict`) is why a change of another provider's may be missed. Writes that undo
  another change of a rule are told apart by `unheard`: without one, what an editor tells covers what it
  changes, whatever it has read.
- `WorkflowFollowsHolds` by `WorkInv`: the state of a task is right, or a reconcile that read the truth is
  at work, or the loop or a start is about to begin one.
- `HistoryAgreesHolds` and `DraftsOfferedHolds`, of the inbox, by `ControlInv`: a control is of a version the
  task has had. `InboxKeepsDrafts`: the requests about controls leave all of the above as it is.

`FeedProofs`, for any number of connections, scopes, tasks, runs, pages and changes:

- `SyncTypesHold`: `Spec => []TypeOK`, by `Typed`, with what a run has at hand at each of its steps
  (`AtHand`): a connection while it works on one, a scope while it fetches.
- `DraftsFollowRowsHolds` by `DraftInv`: a draft is the one the rows and the rules call for, or an active
  run will still come to it (`Pending`). A run goes by what it has remembered of the rows, so the
  invariant says that this is true (`Remembered`), which needs that an undisturbed run is alone
  (`AloneIfCalm`).
- `UntouchedTasksKeptHolds` by `SnapInv`: of every task that nobody touched, a run at work on a connection
  has each scope, or has it still to come, in a scope or on a page it has not fetched, or the scope was
  skipped (`Snapshot`).
  Two runs may store over each other: the later one writes every such row anew.
- `CompletedRunMirrorsHolds` by `MirrorInv`: the rows of a connection are those of the provider
  (`Mirrored`), or it is still to come; and by `TendInv`: the drafts of what a run has stored are settled,
  or the run will come to them.
- `FeedIsHonestHolds` by `ViewInv`: as long as no table changes under a request, what it has read is what
  they hold, and what it shows are the newest of it (`Newest`). With `DraftInv` this makes an offered draft
  the right one.
- `ScopesMatchFilterHolds`: two queries that are written apart count and list the same tasks
  (`CountedIsFiltered`), and a feed by the scope shows them up to the limit, by `ViewInv`.

The two about snapshots assume `AllListed`: Jira has no more projects than `searchProjects` returns on
the one page the code asks for. Beyond that limit they fail: the rows of what is not listed are
deleted (see the known limits). The run satisfies the assumption.

Model-checked only: the liveness properties (liveness under fairness and ENABLED are outside what
the prover handles); `FaithfulView`, whose page is a fold over the events, and `SuggestionStable`, which
is about sorting (both are inductions over data).

## 5. What is not modelled

Auth, users, encryption and metrics are request handling around single rows and library calls.
Migrations define the schema; what the models need of it, the width of a column and the unique
indexes, is in them. Pages and forms of the frontend hold the state of one user's form. The texts of
prompts, titles, reports and templates, HTTP clients and the parsing of their answers, and the order
and wording of lists are left out. Of the settings, fields that are stored as they come are left out;
of the retention, the report files.

## 6. What could follow

1. Two executions of ExecutionLifecycle composed with the shared working copy of Publication.
2. Two workers that overlap during a deployment, with two heads of the queue.
