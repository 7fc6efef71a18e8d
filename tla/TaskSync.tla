------------------------------ MODULE TaskSync ------------------------------
(***************************************************************************)
(* The synchronisation of one user's tasks with one provider (Asana or     *)
(* Jira): requests from the browser and from the scheduler, the runs they  *)
(* start, and what a run does to the tables synced_tasks and executions    *)
(* (ready drafts).  A run is a script of database statements and calls to  *)
(* the provider; two runs, the browser, the user's changes at the provider *)
(* and the deletion of a connection happen between any two of them.        *)
(*                                                                         *)
(* A transaction is one step here.  createOrRefreshDraftForTask, which is  *)
(* one transaction per task, is taken apart in ManualDrafts.               *)
(***************************************************************************)
EXTENDS Naturals, FiniteSets, FiniteSetsExt, Functions

CONSTANTS
  Tasks,       \* external ids at the provider
  Providers,   \* which of "asana" and "jira" are looked at
  Workspaces,  \* the user's workspaces at Asana; one site at Jira
  Projects,    \* the projects there may be
  HomeOf,      \* the workspace of each project
  Existing,    \* the projects there are at first
  Conns,       \* the user's connections to the provider
  ConfigOf,    \* what each connection is for: one project, one workspace, or all
  Connected,   \* the sets of connections there may be at first
  AtFirst,     \* the projects each task is in at first, and the workspaces in
               \* which it is assigned to the user
  Moves,       \* where a task may be moved to
  ListLimit,   \* maxResults of Jira's searchProjects
  Askers,      \* who asks for runs: "browser", "scheduler"
  Drafting,    \* the tasks some rule turns into a draft
  PageLimit,   \* TASK_SYNC_PAGE_LIMIT
  MaxPages,    \* TASK_SYNC_MAX_PAGES_PER_SCOPE
  Runs,        \* bound: the sync runs there may be
  Faults,      \* which of FaultKinds may happen
  MaxEvents    \* bound: faults, changes at the provider, deleted connections

FaultKinds ==
  { "provider",   \* a call to the provider fails or times out
    "missing",    \* the provider answers 404 for a scope
    "database",   \* a statement fails
    "network",    \* the browser's request for the status of a run fails
    "crash" }     \* a process ends

Scopes == Workspaces \cup Projects
Everything == [at |-> "all"]
Configs == {Everything} \cup [at : {"workspace"}, id : Workspaces]
                        \cup [at : {"project"}, id : Projects]

ASSUME SyncAssumption ==
  /\ Providers \subseteq {"asana", "jira"} /\ Runs \subseteq Nat \ {0} /\ Runs # {}
  /\ HomeOf \in [Projects -> Workspaces] /\ Existing \subseteq Projects
  /\ ConfigOf \in [Conns -> Configs] /\ Connected \subseteq SUBSET Conns
  /\ "jira" \in Providers => \A c \in Conns : ConfigOf[c].at # "workspace"
  /\ AtFirst \in [Tasks -> SUBSET Scopes] /\ Moves \subseteq SUBSET Scopes
  /\ Askers \subseteq {"browser", "scheduler"} /\ Drafting \subseteq Tasks
  /\ ListLimit \in Nat /\ PageLimit \in Nat \ {0} /\ MaxPages \in Nat \ {0}
  /\ MaxEvents \in Nat
  /\ Faults \subseteq FaultKinds

VARIABLES
  provider, \* of the connections and the runs looked at; it never changes
  projects, \* the projects there are at the provider
  remote,   \* the provider: the version of each task and the scopes it is in
  conns,    \* task_manager_connections: those that exist
  wanted,   \* those the user has not asked for yet
  rows,     \* synced_tasks, by connection and external id
  drafts,   \* the version the ready draft of each task was made of, or NoDraft
  runs,     \* task_sync_runs, with the local variables of executeRun
  clock,    \* the time: one tick for each `now` taken
  asking,   \* callers of startUserSync that found no active run
  rested,   \* syncIntervalMinutes have passed since the latest run
  client,   \* useSyncRun: the run the browser polls, or NoRun
  events    \* how many of MaxEvents there were

vars == <<provider, projects, remote, conns, wanted, rows, drafts, runs, clock, asking, rested, client, events>>
site == <<provider, projects, remote>>
tables == <<conns, wanted, rows, drafts>>
requests == <<asking, rested, client>>

Feed == Conns \X Tasks
NoDraft == MaxEvents + 1
NoRun == 0
Active == {"queued", "running"}
Empty == [x \in {} |-> {}]

Unused == [status |-> "none", by |-> "browser", pc |-> "off", todo |-> {},
           scopes |-> {}, page |-> 0, rest |-> {}, found |-> Empty,
           changed |-> {}, work |-> Empty, gone |-> {}, errors |-> FALSE,
           touched |-> {}, skipped |-> {}, calm |-> TRUE, cut |-> FALSE]

Init ==
  /\ provider \in Providers /\ projects = Existing
  /\ remote = [t \in Tasks |-> [ver |-> 0, in |-> AtFirst[t]]]
  /\ conns \in Connected /\ wanted = Conns \ conns
  /\ rows = Empty /\ drafts = [f \in Feed |-> NoDraft]
  /\ runs = [r \in Runs |-> Unused]
  /\ clock = 0
  /\ asking = {} /\ rested = TRUE /\ client = NoRun
  /\ events = 0

Event == events < MaxEvents /\ events' = events + 1
Fault(kind) == kind \in Faults /\ Event

ActiveRuns == {r \in Runs : runs[r].status \in Active}
\* History: these runs are not undisturbed any more.
Disturbed(R) == [r \in Runs |-> [runs[r] EXCEPT !.calm = @ /\ r \notin R]]

-----------------------------------------------------------------------------
(* Outside the code: the provider, and a connection the user deletes.      *)

\* A task is edited, created, moved to other scopes, or removed from all.
RemoteChange(t, in) ==
  /\ Event
  /\ remote' = [remote EXCEPT ![t] = [ver |-> events', in |-> in]]
  /\ runs' = [r \in Runs |-> IF r \in ActiveRuns
                             THEN [runs[r] EXCEPT !.touched = @ \cup {t}] ELSE runs[r]]
  /\ UNCHANGED <<provider, projects, tables, clock, requests>>

\* A project is created or removed; what the tasks in its workspace are listed
\* under changes with it.
ProjectChange(p) ==
  /\ Event
  /\ projects' = IF p \in projects THEN projects \ {p} ELSE projects \cup {p}
  /\ runs' = [r \in Runs |->
       IF r \in ActiveRuns
         THEN [runs[r] EXCEPT !.touched = @ \cup {t \in Tasks :
                                 remote[t].in \cap {p, HomeOf[p]} # {}}]
         ELSE runs[r]]
  /\ UNCHANGED <<provider, remote, tables, clock, requests>>

\* getProject answers 404 for the project of a connection.
ProjectMissing(config) == config.at = "project" /\ config.id \notin projects

\* validateConnection: the user, the workspace and the project are known.
Validates(config) == ~ProjectMissing(config)

\* createConnectionForUser: the provider knows the scope, and no connection has its key
\* (buildScopeKey, a unique index); else nothing changes.
CreateConnection(c) ==
  /\ c \in wanted /\ Event
  /\ Validates(ConfigOf[c]) /\ \A d \in conns : ConfigOf[d] # ConfigOf[c]
  /\ conns' = conns \cup {c} /\ wanted' = wanted \ {c}
  /\ runs' = Disturbed(ActiveRuns)
  /\ UNCHANGED <<site, rows, drafts, clock, requests>>

\* deleteConnectionForUser: the rows go with it (ON DELETE CASCADE), the
\* drafts made of them stay.
DeleteConnection(c) ==
  /\ c \in conns /\ Event
  /\ conns' = conns \ {c}
  /\ rows' = Restrict(rows, {f \in DOMAIN rows : f[1] # c})
  /\ runs' = Disturbed(Runs)
  /\ UNCHANGED <<site, wanted, drafts, clock, requests>>

-----------------------------------------------------------------------------
(* Requests.                                                               *)

\* triggerSync of an idle browser: startUserSync answers with the active run.
Join ==
  /\ client = NoRun /\ "browser" \in Askers \ asking
  /\ client' \in ActiveRuns
  /\ UNCHANGED <<site, tables, runs, clock, asking, rested, events>>

\* runOnce: a user with automatic synchronisation is swept for the providers there is a
\* connection of.  `running` keeps the sweeps apart.
Swept == conns # {}

\* It finds none.  The scheduler's sweep asks only when the interval has passed, and
\* looks twice (startScheduledSyncIfDue, startUserSync).
Ask(a) ==
  /\ a \notin asking /\ ActiveRuns = {}
  /\ IF a = "browser" THEN client = NoRun ELSE Swept /\ rested
  /\ asking' = asking \cup {a}
  /\ UNCHANGED <<site, tables, runs, clock, rested, client, events>>

\* The row of a new run, which setImmediate will execute in the same process.
Started(a) ==
  /\ a \in asking
  /\ \E r \in Runs :
       /\ runs[r].status = "none"
       /\ \A q \in Runs : runs[q].status = "none" => r <= q
       /\ runs' = [Disturbed(IF ActiveRuns = {} THEN {} ELSE ActiveRuns \cup {r})
                   EXCEPT ![r].status = "queued", ![r].by = a, ![r].pc = "begin"]
       /\ client' = IF a = "browser" THEN r ELSE client
  /\ asking' = asking \ {a}
  /\ rested' = FALSE
  /\ UNCHANGED <<site, tables, clock, events>>

IntervalPasses ==
  /\ ~rested /\ ActiveRuns = {}
  /\ rested' = TRUE
  /\ UNCHANGED <<site, tables, runs, clock, asking, client, events>>

\* The browser's poll finds the run over, or fails; what it then shows is left out.
Poll ==
  /\ client # NoRun
  /\ \/ runs[client].status \notin Active /\ UNCHANGED events
     \/ Fault("network")
  /\ client' = NoRun
  /\ UNCHANGED <<site, tables, runs, clock, asking, rested>>

-----------------------------------------------------------------------------
(* executeRun.  A step of run r is a change of its local variables, and of *)
(* the tables; `run` is the record before the step.                        *)

Step(r, at, run) == runs[r].pc = at /\ runs' = [runs EXCEPT ![r] = run]
Local == UNCHANGED <<site, tables, clock, requests, events>>

\* Where the run goes on once its connections are done.
AfterConnections(run) ==
  [run EXCEPT !.pc = IF run.changed # {} THEN "load"
                     ELSE IF run.gone # {} THEN "supersede" ELSE "finish"]

\* listProjectScopesForWorkspace: a workspace without projects is a scope itself.
ScopesOfWorkspace(w) ==
  LET inside == {p \in projects : HomeOf[p] = w}
  IN IF inside = {} THEN {w} ELSE inside

\* listSyncScopes of Asana: the project, or all of one workspace, or of each.
AsanaScopes(config) ==
  CASE config.at = "project" -> {config.id}
    [] config.at = "workspace" -> ScopesOfWorkspace(config.id)
    [] OTHER -> UNION {ScopesOfWorkspace(w) : w \in Workspaces}

\* listSyncScopes of Jira: the project, or the first page of the projects.
JiraScopes(config) ==
  IF config.at = "project" THEN {config.id}
  ELSE IF Cardinality(projects) <= ListLimit THEN projects
  ELSE CHOOSE S \in SUBSET projects : Cardinality(S) = ListLimit

\* The connection and the scope whose turn it is.  The code takes connections as they
\* were created and scopes as they are listed; nothing depends on either order.
Due(run) == CHOOSE c \in run.todo : TRUE
Scope(run) == CHOOSE s \in run.scopes : TRUE

Listed(config) == IF provider = "asana" THEN AsanaScopes(config) ELSE JiraScopes(config)

\* The next connection, with its scopes.  A provider that lists none has no tasks.
NextConnection(run) ==
  IF run.todo = {} THEN AfterConnections(run)
  ELSE LET config == ConfigOf[Due(run)]
           listed == IF ProjectMissing(config) THEN {} ELSE Listed(config)
       IN [run EXCEPT !.scopes = listed, !.found = Empty, !.page = 0, !.rest = {},
                      !.pc = IF ProjectMissing(config) THEN "failed"
                             ELSE IF listed = {} THEN "persist" ELSE "fetch"]

LoopOn(run) == NextConnection([run EXCEPT !.todo = @ \ {Due(run)}])

\* The run becomes running and reads the connections of its user.
Begin(r) ==
  /\ Step(r, "begin", NextConnection([runs[r] EXCEPT !.status = "running",
                        !.todo = conns]))
  /\ Local

\* Mutant: the scopes do not accumulate.
MergedOneScope(found, S, s) ==
  [t \in DOMAIN found \cup S |->
     [ver |-> IF t \in S THEN remote[t].ver ELSE found[t].ver,
      in  |-> IF t \in S THEN {s} ELSE found[t].in]]

\* mergeAggregatedTask, for the tasks S of a page of scope s: the newest version
\* wins and the scopes accumulate.
Merged(found, S, s) ==
  [t \in DOMAIN found \cup S |->
     LET old == IF t \in DOMAIN found THEN {found[t]} ELSE {}
         new == IF t \in S THEN {[ver |-> remote[t].ver, in |-> {s}]} ELSE {}
     IN [ver |-> Max({x.ver : x \in old \cup new}),
         in  |-> UNION {x.in : x \in old \cup new}]]
\* The scope ends; the next one, or the end of the collection.
NextScope(run) ==
  [run EXCEPT !.scopes = @ \ {Scope(run)}, !.page = 0, !.rest = {},
              !.pc = IF run.scopes = {Scope(run)} THEN "persist" ELSE "fetch"]

\* The first n of the tasks S, as they may come: newest first at Jira (ORDER BY updated
\* DESC), in any order at Asana.
Pages(S, n) ==
  IF Cardinality(S) <= n THEN {S}
  ELSE {P \in SUBSET S :
          /\ Cardinality(P) = n
          /\ provider = "jira" => \A t \in P, u \in S \ P : remote[t].ver >= remote[u].ver}

\* There is room for one more page after page number `page`.
MayGoOn(page) == page + 1 < MaxPages

\* A page of the scope; the provider goes on where the page before ended.
FetchPage(r) ==
  LET run == runs[r]
      s == Scope(run)
      here == {t \in Tasks : s \in remote[t].in}
      listing == IF run.page = 0 THEN here ELSE run.rest \cap here
  IN /\ run.pc = "fetch" /\ (s \in Projects => s \in projects)
     /\ \E page \in Pages(listing, PageLimit) :
          LET got == [run EXCEPT !.found = Merged(@, page, s)] IN
          Step(r, "fetch",
            IF page = listing THEN NextScope(got)
            ELSE IF MayGoOn(run.page)
              THEN [got EXCEPT !.page = @ + 1, !.rest = listing \ page]
              ELSE [got EXCEPT !.pc = "failed"])
     /\ Local

\* 404 for the scope: its listing ends with what its earlier pages gave, and the run goes
\* on.  History: the run remembers that it skipped the scope for this connection.
SkipScope(r) ==
  /\ Step(r, "fetch", [NextScope(runs[r]) EXCEPT
                         !.skipped = @ \cup {<<Due(runs[r]), Scope(runs[r])>>}])
  /\ UNCHANGED <<site, tables, clock, requests>>
MissingScope(r) ==
  /\ runs[r].pc = "fetch" /\ Scope(runs[r]) \in Projects \ projects
  /\ SkipScope(r) /\ UNCHANGED events
ScopeLost(r) == Fault("missing") /\ SkipScope(r)

\* Mutant: <= instead of <.
StaleOrEqual(row, now) == row.at <= now

\* deleteStaleTasks: rows this snapshot did not write.
Stale(row, now) == row.at < now

\* The row stored for task t: a new one, or that of <<c, t>> with its id.
Upserted(c, t, found, now) ==
  [id |-> IF <<c, t>> \in DOMAIN rows THEN rows[<<c, t>>].id ELSE now,
   ver |-> found[t].ver, in |-> found[t].in, at |-> now]

\* persistConnectionSnapshot: upsert, scopes, and deletion of what is stale, in a
\* transaction.
Persist(r) ==
  LET run == runs[r]
      c == Due(run)
      now == clock + 1
      written == {<<c, t>> : t \in DOMAIN run.found}
      after == [f \in DOMAIN rows \cup written |->
                  IF f \in written THEN Upserted(c, f[2], run.found, now) ELSE rows[f]]
      stale == {f \in DOMAIN after : f[1] = c /\ Stale(after[f], now)}
  IN /\ run.pc = "persist" /\ written # {} /\ c \in conns
     /\ Step(r, "persist", [run EXCEPT !.gone = @ \cup stale, !.pc = "find"])
     /\ rows' = Restrict(after, DOMAIN after \ stale)
     /\ clock' = now
     /\ UNCHANGED <<site, conns, wanted, drafts, requests, events>>

\* deleteAllTasksForConnection, when nothing was found.
DeleteAll(r) ==
  LET run == runs[r]
      all == {f \in DOMAIN rows : f[1] = Due(run)}
  IN /\ run.pc = "persist" /\ DOMAIN run.found = {}
     /\ Step(r, "persist", LoopOn([run EXCEPT !.gone = @ \cup all]))
     /\ rows' = Restrict(rows, DOMAIN rows \ all)
     /\ clock' = clock + 1
     /\ UNCHANGED <<site, conns, wanted, drafts, requests, events>>

\* The connection is gone: the upsert violates the foreign key.
PersistRefused(r) ==
  /\ runs[r].pc = "persist" /\ DOMAIN runs[r].found # {}
  /\ Due(runs[r]) \notin conns
  /\ Step(r, "persist", [runs[r] EXCEPT !.pc = "failed"])
  /\ Local

\* findPersistedTasks, outside the transaction: the rows whatever their snapshot.
\* Then the connection and the run are updated, and the loop goes on.
FindPersisted(r) ==
  LET run == runs[r]
      found == {f \in DOMAIN rows : f[1] = Due(run) /\ f[2] \in DOMAIN run.found}
  IN /\ Step(r, "find", LoopOn([run EXCEPT !.changed = @ \cup
                                             {<<f, rows[f].id>> : f \in found}]))
     /\ Local

ConnectionFailed(r) ==
  /\ Step(r, "failed", LoopOn([runs[r] EXCEPT !.errors = TRUE]))
  /\ Local

\* Mutant: the deleted rows are forgotten once there are tasks to evaluate.
AfterTasksFinish(run) ==
  [run EXCEPT !.pc = IF DOMAIN run.work # {} THEN "evaluate" ELSE "finish"]

AfterTasks(run) ==
  IF DOMAIN run.work # {} THEN [run EXCEPT !.pc = "evaluate"]
  ELSE [run EXCEPT !.pc = IF run.gone # {} THEN "supersede" ELSE "finish"]

\* processSyncedTasks reads the tasks that still exist.
Load(r) ==
  LET kept == {f \in DOMAIN rows : <<f, rows[f].id>> \in runs[r].changed}
  IN /\ Step(r, "load", AfterTasks([runs[r] EXCEPT !.work = [f \in kept |-> rows[f].ver]]))
     /\ Local

Done(run, f) == AfterTasks([run EXCEPT !.work = Restrict(@, DOMAIN @ \ {f})])

\* The task whose turn it is (ORDER BY createdAt).
Turn(r) == CHOOSE f \in DOMAIN runs[r].work : TRUE

\* Its draft is made, refreshed or superseded.
Evaluate(r) ==
  /\ Step(r, "evaluate", Done(runs[r], Turn(r)))
  /\ drafts' = [drafts EXCEPT ![Turn(r)] = IF Turn(r)[2] \in Drafting
                                           THEN runs[r].work[Turn(r)] ELSE NoDraft]
  /\ UNCHANGED <<site, conns, wanted, rows, clock, requests, events>>

\* Its transaction fails; the error is logged.
EvaluateFails(r) ==
  /\ Fault("database")
  /\ Step(r, "evaluate", [Done(runs[r], Turn(r)) EXCEPT !.calm = FALSE])
  /\ UNCHANGED <<site, tables, clock, requests>>

\* supersedeDraftsForTaskIds: the drafts of the rows that were deleted.
Supersede(r) ==
  /\ Step(r, "supersede", [runs[r] EXCEPT !.pc = "finish"])
  /\ drafts' = [f \in Feed |-> IF f \in runs[r].gone THEN NoDraft ELSE drafts[f]]
  /\ UNCHANGED <<site, conns, wanted, rows, clock, requests, events>>

End(r, at, status) ==
  /\ Step(r, at, [Unused EXCEPT !.status = status, !.by = runs[r].by,
                                !.calm = runs[r].calm])
  /\ rested' = FALSE
  /\ UNCHANGED <<site, tables, clock, asking, client, events>>
Finish(r) == End(r, "finish", IF runs[r].errors THEN "failed" ELSE "completed")
\* Mutant: the catch block rethrows.
AbortRethrows(r) == End(r, "abort", "running")

Abort(r) == End(r, "abort", "failed")

-----------------------------------------------------------------------------
(* Faults.                                                                 *)

\* An error of one connection is caught and the loop goes on.
ConnectionErrs(r) ==
  /\ \/ runs[r].pc = "fetch" /\ Fault("provider")
     \/ runs[r].pc \in {"persist", "find"} /\ Fault("database")
  /\ runs' = [runs EXCEPT ![r].pc = "failed", ![r].calm = FALSE]
  /\ UNCHANGED <<site, tables, clock, requests>>

\* Any other error ends the run: outside the try block ("begin") and in the catch
\* block ("abort") nothing is left to write the status.
RunErrs(r) ==
  /\ Fault("database")
  /\ \/ /\ runs[r].pc \in {"failed", "load", "supersede", "finish"}
        /\ runs' = [runs EXCEPT ![r].pc = "abort", ![r].calm = FALSE]
     \/ /\ runs[r].pc \in {"begin", "abort"}
        /\ runs' = [runs EXCEPT ![r].pc = "off", ![r].calm = FALSE,
                                     ![r].cut = TRUE]
  /\ UNCHANGED <<site, tables, clock, requests>>

\* The API process or the worker ends, with the runs and requests it has.
Crash(a) ==
  /\ Fault("crash")
  /\ runs' = [r \in Runs |-> IF runs[r].by = a /\ runs[r].pc # "off"
                             THEN [runs[r] EXCEPT !.pc = "off", !.calm = FALSE, !.cut = TRUE]
                             ELSE runs[r]]
  /\ asking' = asking \ {a}
  /\ UNCHANGED <<site, tables, clock, rested, client>>

RunStep(r) ==
  \/ Begin(r) \/ FetchPage(r)
  \/ Persist(r) \/ DeleteAll(r) \/ PersistRefused(r) \/ FindPersisted(r)
  \/ MissingScope(r) \/ ConnectionFailed(r)
  \/ Load(r) \/ Evaluate(r)
  \/ Supersede(r) \/ Finish(r) \/ Abort(r)

Next ==
  \/ \E t \in Tasks, in \in Moves : RemoteChange(t, in)
  \/ \E p \in Projects : ProjectChange(p)
  \/ \E c \in Conns : CreateConnection(c) \/ DeleteConnection(c)
  \/ Join \/ IntervalPasses \/ Poll
  \/ \E a \in Askers : Ask(a) \/ Started(a) \/ Crash(a)
  \/ \E r \in Runs : RunStep(r)
  \/ \E r \in Runs : ScopeLost(r) \/ ConnectionErrs(r) \/ EvaluateFails(r) \/ RunErrs(r)

\* Node runs what is ready: a request, a run and the browser's timer go on.
Fairness ==
  /\ \A a \in Askers : WF_vars(Started(a))
  /\ \A r \in Runs : WF_vars(RunStep(r))
  /\ WF_vars(Poll)

Spec == Init /\ [][Next]_vars /\ Fairness

-----------------------------------------------------------------------------
(* Properties.                                                             *)

Versions == 0..MaxEvents
Steps == {"off", "begin", "fetch", "persist", "find", "failed",
          "load", "evaluate", "supersede", "finish", "abort"}

\* Type invariant.
TypeOK ==
  /\ provider \in Providers /\ projects \subseteq Projects
  /\ remote \in [Tasks -> [ver : Versions, in : SUBSET Scopes]]
  /\ conns \subseteq Conns /\ wanted \subseteq Conns \ conns
  /\ DOMAIN rows \subseteq Feed
  /\ \A f \in DOMAIN rows : /\ f[1] \in conns /\ rows[f].ver \in Versions
                            /\ rows[f].in # {} /\ rows[f].id <= rows[f].at
                            /\ rows[f].at <= clock
  /\ drafts \in [Feed -> 0..NoDraft]
  /\ \A r \in Runs : /\ runs[r].status \in {"none", "completed", "failed"} \cup Active
                     /\ runs[r].pc \in Steps
                     /\ runs[r].page < MaxPages
                     /\ runs[r].pc # "off" => runs[r].status \in Active
  /\ asking \subseteq Askers /\ client \in Runs \cup {NoRun}
  /\ events \in 0..MaxEvents

\* What a connection is for, said without the listing: the projects it names, and
\* at Asana the workspaces that have none.
Covered(c) ==
  LET config == ConfigOf[c]
      Of(w) == config.at = "all" \/ config = [at |-> "workspace", id |-> w]
  IN {p \in projects : config = [at |-> "project", id |-> p] \/ Of(HomeOf[p])}
       \cup {w \in Workspaces : /\ provider = "asana" /\ Of(w)
                                /\ \A p \in projects : HomeOf[p] # w}
Visible(c) == {t \in Tasks : remote[t].in \cap Covered(c) # {}}

\* The scopes in which connection c sees task t and run r was answered.
Answering(r, c, t) == {s \in remote[t].in \cap Covered(c) : <<c, s>> \notin runs[r].skipped}

\* A task that nobody touched at the provider while a run looked at it is in the
\* table when the run has stored its snapshot, in its latest version, whatever a
\* second run stored in the meantime, whichever other connections failed, and
\* whichever scopes answered 404, as long as one of its own did not: a task all of
\* whose scopes are skipped loses its row (deleteStaleTasks takes what the snapshot
\* does not have), and of such a task nothing is said.
UntouchedTasksKept ==
  [][\A r \in Runs :
       runs[r].pc = "persist" /\ runs'[r].pc \notin {"persist", "failed", "off"} =>
         LET c == Due(runs[r])
         IN \A t \in Tasks \ runs[r].touched :
              Answering(r, c, t) # {} =>
                <<c, t>> \in DOMAIN rows' /\ rows'[<<c, t>>].ver = remote[t].ver]_vars

\* A run that completes, alone, without a fault and without a skipped scope, has left
\* for every task nobody touched the row, the scopes and the ready draft (or none) the
\* provider and the rules call for, and no row for a task its connection does not see.
CompletedRunMirrors ==
  [][\A r \in Runs :
       runs[r].pc = "finish" /\ runs'[r].status = "completed"
         /\ runs[r].calm /\ runs[r].skipped = {} =>
         \A c \in conns, t \in Tasks \ runs[r].touched :
           IF t \in Visible(c)
             THEN /\ <<c, t>> \in DOMAIN rows
                  /\ rows[<<c, t>>].ver = remote[t].ver
                  /\ rows[<<c, t>>].in = remote[t].in \cap Covered(c)
                  /\ drafts[<<c, t>>] = IF t \in Drafting THEN remote[t].ver ELSE NoDraft
             ELSE <<c, t>> \notin DOMAIN rows]_vars

\* With no run at work and none ever disturbed, the ready drafts are those of the
\* rows there are: one for each row the rules turn into a draft, of its version.
DraftsFollowRows ==
  ActiveRuns = {} /\ (\A r \in Runs : runs[r].calm) =>
    \A f \in Feed :
      drafts[f] = IF f \in DOMAIN rows /\ f[2] \in Drafting THEN rows[f].ver ELSE NoDraft

\* The browser stops polling, unless the run it polls lost its process or could not
\* write its last status: no connection error, page limit or deleted connection
\* leaves a run unsettled.
PollingEnds ==
  [](\A r \in Runs : ~runs[r].cut) =>
    (client # NoRun ~> client = NoRun)
=============================================================================
