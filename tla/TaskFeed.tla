------------------------------ MODULE TaskFeed ------------------------------
(***************************************************************************)
(* What the user is shown of the synced tasks: the list of the scopes, the *)
(* filter by a scope, the repository suggested for a task, and the feed,   *)
(* which reads the connections, the tasks and the drafts one after the     *)
(* other while the runs of TaskSync change them.                           *)
(***************************************************************************)
EXTENDS TaskSync, SequencesExt

CONSTANTS
  FeedLimit,   \* how many items a feed may have: TASKS_DEFAULT_LIMIT, or the query's `limit`
  ScopeOrder,  \* the scopes as `${scopeType}:${scopeId}` sorts them
  DefaultRows  \* bound: what task_scope_repository_defaults may hold, sets of rows

Default == "provider"
Nothing == "nothing"

ASSUME FeedAssumption ==
  /\ FeedLimit \in Nat \ {0}
  /\ Range(ScopeOrder) = Scopes /\ Nothing \notin Scopes
  /\ \A D \in DefaultRows, d, e \in UNION DefaultRows :
       /\ d.scope \in Scopes \cup {Default}
       /\ d \in D /\ e \in D /\ d.scope = e.scope => d = e

VARIABLE view   \* one request for the feed, or for an item of it
feedvars == <<vars, view>>

NoView == [pc |-> "idle", kind |-> "list", of |-> {}, by |-> Nothing, seen |-> {}, tasks |-> Empty,
           items |-> {}, still |-> TRUE]

-----------------------------------------------------------------------------
(* Scopes.                                                                 *)

IsProject(s) == provider = "asana" /\ s \in Projects
IsWorkspace(s) == provider = "asana" /\ s \in Workspaces
Sorts(s, t) == \E i, j \in DOMAIN ScopeOrder : i < j /\ ScopeOrder[i] = s /\ ScopeOrder[j] = t

\* replaceTaskScopes: the rows of a task's scopes; the first is the primary one.
ScopeRows(in) ==
  {[id |-> s,
    parent |-> IF IsProject(s) THEN HomeOf[s] ELSE Nothing,
    primary |-> \A t \in in \ {s} : Sorts(s, t)] : s \in in}

\* listScopesForUser: the tasks counted for scope s, over all rows of all tasks.
Counted(s) ==
  LET listed == UNION {{[task |-> f, scope |-> x] : x \in ScopeRows(rows[f].in)} :
                         f \in DOMAIN rows}
  IN {x.task : x \in {y \in listed : y.scope.id = s \/ y.scope.parent = s}}

\* Mutant: the filter by a workspace forgets the projects in it.
MatchesScopeOwnRows(in, s) == \E x \in ScopeRows(in) : x.id = s

\* filterByScope for one task: a project by its id, a workspace also by its projects.
MatchesScope(in, s) ==
  \E x \in ScopeRows(in) : x.id = s \/ (IsWorkspace(s) /\ x.parent = s)

-----------------------------------------------------------------------------
(* The suggested repository.                                               *)

\* Mutant: the rows in the order the database returns them.
AsLoaded(loaded) == loaded

\* sortScopes: the primary scope first, then as they sort.
SortScopes(loaded) ==
  SortSeq(loaded, LAMBDA x, y :
    IF x.primary # y.primary THEN x.primary ELSE Sorts(x.id, y.id))

\* buildLookupForUser: the repositories by scope.
Lookup(D) == [s \in {d.scope : d \in D} |-> (CHOOSE d \in D : d.scope = s).repo]

\* The first of the scopes in the sequence that has a default.
FirstDefault(scopes, lookup) ==
  LET found == SelectSeq(scopes, LAMBDA s : s \in DOMAIN lookup)
  IN IF found = <<>> THEN Nothing ELSE lookup[Head(found)]

Ids(loaded) == [i \in DOMAIN loaded |-> loaded[i].id]

\* resolveAsanaProjectDefault, and resolveJiraProjectDefault.
ProjectDefault(loaded, lookup) ==
  FirstDefault(SelectSeq(Ids(SortScopes(loaded)), LAMBDA s : s \in Projects), lookup)

\* resolveAsanaWorkspaceDefault: workspaces, and the parents of projects.
WorkspaceDefault(loaded, lookup) ==
  LET sorted == SortScopes(loaded)
  IN FirstDefault([i \in DOMAIN sorted |->
                     IF IsProject(sorted[i].id) THEN sorted[i].parent ELSE sorted[i].id],
                  lookup)

ProviderDefault(lookup) == IF Default \in DOMAIN lookup THEN lookup[Default] ELSE Nothing

\* resolveSuggestedRepository: the project's, the workspace's, the provider's.
Suggested(loaded, lookup) ==
  LET project == ProjectDefault(loaded, lookup)
      workspace == IF provider = "asana" THEN WorkspaceDefault(loaded, lookup) ELSE Nothing
  IN IF project # Nothing THEN project
     ELSE IF workspace # Nothing THEN workspace ELSE ProviderDefault(lookup)

-----------------------------------------------------------------------------
(* The feed.                                                               *)

Reading(pc, next) == view.pc = pc /\ view' = next
Read == UNCHANGED vars

\* listTaskFeedItemsForUser, of one scope or of all of the provider (a query that names no
\* provider lists manual tasks, too; they are left out): the connections of the user.
ReadConnections(filter) ==
  /\ Reading("idle", [NoView EXCEPT !.pc = "tasks", !.by = filter, !.seen = conns])
  /\ Read

Wanted(f) == view.by = Nothing \/ MatchesScope(rows[f].in, view.by)

\* Then the tasks of the user; those of other connections are skipped.
ReadTasks ==
  /\ Reading("tasks", [view EXCEPT !.pc = "drafts",
       !.tasks = [f \in {g \in DOMAIN rows : g[1] \in view.seen /\ Wanted(g)} |->
                    [ver |-> rows[f].ver, in |-> rows[f].in]]])
  /\ Read

\* getTaskFeedItemByKey: first the task, then its connection.
ReadTask(f) ==
  /\ f \in DOMAIN rows
  /\ Reading("idle", [NoView EXCEPT !.pc = "connection", !.kind = "key", !.of = {f},
                        !.tasks = [g \in {f} |-> [ver |-> rows[g].ver, in |-> rows[g].in]]])
  /\ Read
FindConnection ==
  /\ view.pc = "connection"
  /\ \A f \in view.of :
       IF f[1] \in conns THEN view' = [view EXCEPT !.pc = "drafts", !.seen = {f[1]}]
       ELSE view' = NoView
  /\ Read

\* Mutant: any ready draft of the task is offered.
OffersAny(f, ver) == f[2] \in Drafting /\ drafts[f] # NoDraft

\* resolveDraftOutcome: the rule drafts the task and the ready draft is of its version.
Offers(f, ver) == f[2] \in Drafting /\ drafts[f] = ver

\* slice(0, limit) of what compareItems sorted: the newest, and of equally new ones any.
Slices(tasks) ==
  LET all == DOMAIN tasks
  IN IF Cardinality(all) <= FeedLimit THEN {all}
     ELSE {P \in SUBSET all : /\ Cardinality(P) = FeedLimit
                              /\ \A f \in P, g \in all \ P : tasks[f].ver >= tasks[g].ver}

\* The ready drafts are read, the items built, and those of a list sorted and cut; `total`
\* is the number of items after the cut.
ReadDrafts ==
  /\ \E shown \in IF view.kind = "list" THEN Slices(view.tasks) ELSE {DOMAIN view.tasks} :
       Reading("drafts", [view EXCEPT !.pc = "done",
         !.items = {[task |-> f, ver |-> view.tasks[f].ver,
                     draft |-> IF Offers(f, view.tasks[f].ver) THEN drafts[f] ELSE NoDraft] :
                       f \in shown}])
  /\ Read

Answered == Reading("done", NoView) /\ Read

FeedStep ==
  \/ \E filter \in Scopes \cup {Nothing} : ReadConnections(filter)
  \/ ReadTasks \/ FindConnection \/ ReadDrafts \/ Answered
  \/ \E f \in Feed : ReadTask(f)

\* A step of the synchronisation; `still` remembers whether one changed what is read.
SyncStep ==
  /\ Next
  /\ view' = IF view.pc = "idle" \/ UNCHANGED tables THEN view
             ELSE [view EXCEPT !.still = FALSE]

FeedSpec == Init /\ view = NoView /\ [][SyncStep \/ FeedStep]_feedvars

-----------------------------------------------------------------------------
(* Properties.                                                             *)

\* The tasks the answer shows.
ShownTasks == {x.task : x \in view.items}

\* The number next to a scope is the number of tasks the filter by it lets through, and
\* every scope that gives tasks is listed: with tasks in several projects, projects of
\* one workspace, and workspaces listed themselves.  A feed by a scope that nothing
\* overlapped has that number of tasks, unless it is cut at the limit: then it has fewer,
\* and its `total` tells the limit.
ScopesMatchFilter ==
  \A s \in Scopes :
    /\ Counted(s) = {f \in DOMAIN rows : MatchesScope(rows[f].in, s)}
    /\ view.pc = "done" /\ view.still /\ view.by = s =>
         /\ ShownTasks \subseteq Counted(s)
         /\ ShownTasks = Counted(s) \/ Cardinality(ShownTasks) = FeedLimit

\* The suggested repository does not depend on the order in which the database returns
\* the scopes of a task, and a default of a project it is in goes before all others.
SuggestionStable ==
  \A f \in DOMAIN rows, D \in DefaultRows :
    LET l == Lookup(D)
        loaded == SetToSeqs(ScopeRows(rows[f].in))
        answers == {Suggested(x, l) : x \in loaded}
        projects_ == {s \in rows[f].in \cap Projects : s \in DOMAIN l}
    IN /\ Cardinality(answers) = 1
       /\ projects_ # {} => answers \subseteq {l[s] : s \in projects_}

\* A feed that was read while a run worked offers no draft for another version of the
\* task than the one it shows, nor a task of a connection that was not there; and one
\* that nothing overlapped shows every task of its scope if there are no more than the
\* limit, and else as many as the limit and no older ones, and offers for each every draft
\* that is ready.
FeedIsHonest ==
  view.pc = "done" =>
    /\ \A x \in view.items : /\ x.draft \in {NoDraft, x.ver}
                             /\ x.task[1] \in view.seen
    /\ view.still /\ view.kind = "list" =>
         LET all == {f \in DOMAIN rows : Wanted(f)}
         IN /\ ShownTasks \subseteq all
            /\ IF Cardinality(all) <= FeedLimit THEN ShownTasks = all
               ELSE Cardinality(ShownTasks) = FeedLimit
            /\ \A f \in ShownTasks, g \in all \ ShownTasks : rows[f].ver >= rows[g].ver
            /\ (\A r \in Runs : runs[r].calm) /\ ActiveRuns = {} =>
                 \A x \in view.items : x.draft = drafts[x.task]
=============================================================================
