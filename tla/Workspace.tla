------------------------------ MODULE Workspace ------------------------------
(***************************************************************************)
(* What one user has configured: the managed repositories with their       *)
(* clones on disk, the default repository of a provider or scope, and the  *)
(* settings.  Each request of the API is one process of the database, the  *)
(* file system and git, and every step of one may fall between two steps   *)
(* of another.                                                             *)
(***************************************************************************)
EXTENDS Naturals, FiniteSets

CONSTANTS
  Requests,   \* bound: the requests there may be; one creates at most one repository
  First,      \* the repository there is at first
  Names,      \* full names of repositories
  FirstName,  \* that of First
  GitHub,     \* what GitHub says: the full name of each name it knows, also of a former one
  Paths,      \* local paths
  PathOf,     \* buildLocalPath: names that sanitise alike share a path
  Profiles,   \* check profiles of a repository, with NoProfile
  NoProfile,
  DefaultDtos, \* provider and scope of a default, as they are asked for
  Drivers,    \* of the database: "postgres", "sqlite"
  Updates,    \* bodies of PATCH /settings, with the fields they give
  Faults,     \* which of FaultKinds may happen
  MaxFaults   \* bound: the faults there may be

Fields == {"token", "syncEnabled", "asana", "jira"}
Providers == {"manual", "asana", "jira"}
FaultKinds ==
  { "git",       \* a git command fails; a failing clone removes what it made
    "timeout",   \* a git command is killed; what a clone made stays
    "database",  \* a statement fails
    "reply",     \* a statement is executed, but its reply is lost
    "files",     \* a directory cannot be removed
    "crash" }    \* the API process ends

ASSUME WorkspaceAssumption ==
  /\ First \notin Requests
  /\ FirstName \in Names /\ \A asked \in DOMAIN GitHub : GitHub[asked] \in Names
  /\ PathOf \in [Names -> Paths]
  /\ NoProfile \in Profiles
  /\ Drivers \subseteq {"postgres", "sqlite"}
  /\ \A dto \in DefaultDtos : dto \in [provider : Providers, scopeType : STRING, scopeId : STRING]
  /\ \A u \in Updates : DOMAIN u \subseteq Fields /\ \A f \in DOMAIN u : u[f] \in BOOLEAN
  /\ Faults \subseteq FaultKinds /\ MaxFaults \in Nat

VARIABLES
  driver,    \* the database; it never changes
  repos,     \* repositories: a set of rows
  dirs,      \* what is at each path: "none", "partial" or "clone"
  defaults,  \* task_scope_repository_defaults: a set of rows
  settings,  \* user_settings: the empty set, or the set of its one row
  req,       \* the requests
  faults,    \* how many of MaxFaults there were
  spoiled,   \* history: paths whose row was stored after its directory was removed
  littered,  \* history: paths whose clean-up a fault prevented
  raced      \* history: two updates of the settings saved at the same time

vars == <<driver, repos, dirs, defaults, settings, req, faults, spoiled, littered, raced>>
disk == <<dirs, littered>>
others == <<driver, faults>>

Ids == Requests \cup {First}
FirstRow == [id |-> First, name |-> FirstName, profile |-> NoProfile]
NoKey == [provider |-> "none", scopeType |-> "none", scopeId |-> "none"]
Idle == [pc |-> "idle", row |-> FirstRow, key |-> NoKey, repo |-> First,
         form |-> {}, was |-> {}, answer |-> "none", stored |-> FALSE, calm |-> TRUE]

Init ==
  /\ driver \in Drivers
  /\ repos = {FirstRow}
  /\ dirs = [p \in Paths |-> IF p = PathOf[FirstName] THEN "clone" ELSE "none"]
  /\ defaults = {}
  /\ settings \in {{}, {[f \in Fields |-> f # "syncEnabled"]}}
  /\ req = [r \in Requests |-> Idle]
  /\ faults = 0 /\ spoiled = {} /\ littered = {} /\ raced = FALSE

Fault(kind) == kind \in Faults /\ faults < MaxFaults /\ faults' = faults + 1
Path(r) == PathOf[req[r].row.name]
At(r, pc) == req[r].pc = pc
Goes(r, pc) == req' = [req EXCEPT ![r].pc = pc]
Answers(r, a) == req' = [req EXCEPT ![r].pc = "done", ![r].answer = a]

-----------------------------------------------------------------------------
(* Repositories.                                                           *)

\* getRepository: the repository's full name, or an error of one kind or another.
GetRepository(asked) == {GitHub[n] : n \in {asked} \cap DOMAIN GitHub}

\* createForUser: the token, GitHub's answer, and assertPathDoesNotExist.
Create(r, asked) ==
  /\ At(r, "idle")
  /\ \E s \in settings : s["token"]
  /\ \E n \in GetRepository(asked) :
       req' = [req EXCEPT ![r].pc = IF dirs[PathOf[n]] = "none" THEN "clone" ELSE "done",
                          ![r].answer = IF dirs[PathOf[n]] = "none" THEN "none" ELSE "error",
                          ![r].row = [id |-> r, name |-> n, profile |-> NoProfile]]
  /\ UNCHANGED <<repos, disk, defaults, settings, others, spoiled, raced>>

\* git clone refuses a path that exists.
CloneBegins(r) ==
  /\ At(r, "clone")
  /\ IF dirs[Path(r)] = "none"
       THEN /\ Goes(r, "cloning")
            /\ dirs' = [dirs EXCEPT ![Path(r)] = "partial"]
       ELSE Answers(r, "error") /\ UNCHANGED dirs
  /\ UNCHANGED <<repos, defaults, settings, others, spoiled, littered, raced>>

CloneEnds(r) ==
  /\ At(r, "cloning") /\ dirs[Path(r)] = "partial"
  /\ Goes(r, "save")
  /\ dirs' = [dirs EXCEPT ![Path(r)] = "clone"]
  /\ UNCHANGED <<repos, defaults, settings, others, spoiled, littered, raced>>

\* It fails, or its directory was removed under it.
CloneFails(r) ==
  /\ At(r, "cloning")
  /\ Answers(r, "error")
  /\ \/ /\ dirs[Path(r)] # "partial"
        /\ UNCHANGED <<dirs, faults, littered>>
     \/ /\ Fault("git")
        /\ dirs' = [dirs EXCEPT ![Path(r)] = "none"] /\ UNCHANGED littered
     \/ /\ Fault("timeout")
        /\ littered' = littered \cup {Path(r)} /\ UNCHANGED dirs
  /\ UNCHANGED <<driver, repos, defaults, settings, spoiled, raced>>

Taken(n) == \E x \in repos : x.name = n

\* The row is inserted, unless the user has one of that name.
SaveNew(r) ==
  /\ At(r, "save")
  /\ IF Taken(req[r].row.name) THEN Goes(r, "remove") /\ UNCHANGED repos
     ELSE Answers(r, "ok") /\ repos' = repos \cup {req[r].row}
  /\ UNCHANGED <<disk, defaults, settings, others, spoiled, raced>>
SaveNewFails(r) ==
  /\ At(r, "save") /\ Goes(r, "remove")
  /\ \/ Fault("database") /\ UNCHANGED <<repos, spoiled>>
     \/ /\ ~Taken(req[r].row.name) /\ Fault("reply")
        /\ repos' = repos \cup {req[r].row}
        /\ spoiled' = spoiled \cup {Path(r)}
  /\ UNCHANGED <<driver, disk, defaults, settings, raced>>

\* removeLocalPathQuietly, and rm at the end of a deletion.
Remove(r, at, a) ==
  /\ At(r, at)
  /\ \/ /\ dirs' = [dirs EXCEPT ![Path(r)] = "none"]
        /\ Answers(r, a) /\ UNCHANGED <<faults, littered>>
     \/ /\ Fault("files") /\ UNCHANGED dirs
        /\ littered' = littered \cup {Path(r)}
        /\ Answers(r, "error")
  /\ UNCHANGED <<driver, repos, defaults, settings, spoiled, raced>>

\* Mutant: the error after a failing insert is thrown at once.
RemoveQuietlyNot(r) ==
  /\ At(r, "remove") /\ Answers(r, "error")
  /\ UNCHANGED <<repos, disk, defaults, settings, others, spoiled, raced>>

RemoveQuietly(r) == Remove(r, "remove", "error")
RemoveClone(r) == Remove(r, "rm", "ok")

\* getOwnedRepository, at the beginning of a deletion, a sync and a change of the
\* profile; the row is a copy from here on.
Read(r, x, pc) ==
  /\ At(r, "idle") /\ x \in repos
  /\ req' = [req EXCEPT ![r].pc = pc, ![r].row = x]
  /\ UNCHANGED <<repos, disk, defaults, settings, others, spoiled, raced>>

\* History: an upsert of a default in R is disturbed.
Disturbed(R) == [q \in Requests |-> [req[q] EXCEPT !.calm = @ /\ q \notin R]]

\* Mutant: the number of deleted rows is not looked at.
GoneAnyway(r) == TRUE

\* The DELETE of the row affects a row.
Affected(r) == \E x \in repos : x.id = req[r].row.id

\* The DELETE takes the row and, with it, its defaults (ON DELETE CASCADE).
Deletes(r) ==
  /\ repos' = {x \in repos : x.id # req[r].row.id}
  /\ defaults' = {d \in defaults : d.repo # req[r].row.id}

\* The requests whose default is removed.
Bereft == Disturbed({q \in Requests : \E d \in defaults \ defaults' : d.key = req[q].key})

DeleteRow(r) ==
  /\ At(r, "delete")
  /\ IF Affected(r)
       THEN Deletes(r) /\ req' = [Bereft EXCEPT ![r].pc = "rm"]
       ELSE Answers(r, "error") /\ UNCHANGED <<repos, defaults>>
  /\ UNCHANGED <<disk, settings, others, spoiled, raced>>

\* It took the row, but its reply is lost: the error is answered and the clone stays.
DeleteLost(r) ==
  /\ At(r, "delete") /\ Affected(r) /\ Fault("reply")
  /\ Deletes(r)
  /\ req' = [Bereft EXCEPT ![r].pc = "done", ![r].answer = "error"]
  /\ littered' = littered \cup {Path(r)}
  /\ UNCHANGED <<driver, dirs, settings, spoiled, raced>>

\* syncForUser: a clone is there, clean or not, and the pull succeeds or not.
LookAtClone(r) ==
  /\ At(r, "git")
  /\ \/ dirs[Path(r)] = "clone" /\ Goes(r, "pull")
     \/ Answers(r, "error")
  /\ UNCHANGED <<repos, disk, defaults, settings, others, spoiled, raced>>
Pull(r) ==
  /\ At(r, "pull")
  /\ IF dirs[Path(r)] = "clone" THEN Goes(r, "store") ELSE Answers(r, "error")
  /\ UNCHANGED <<repos, disk, defaults, settings, others, spoiled, raced>>

\* upsertCheckProfileForUser, deleteCheckProfileForUser.
SetProfile(r, x, profile) ==
  /\ At(r, "idle") /\ x \in repos
  /\ req' = [req EXCEPT ![r].pc = "store", ![r].row = [x EXCEPT !.profile = profile]]
  /\ UNCHANGED <<repos, disk, defaults, settings, others, spoiled, raced>>

\* save of an entity that was read before: an update of what differs, or an insert
\* when the row is gone (refused if its name is taken).
Store(r) ==
  LET copy == req[r].row
  IN /\ At(r, "store")
     /\ IF \E x \in repos : x.id = copy.id
          THEN /\ repos' = {IF x.id = copy.id THEN copy ELSE x : x \in repos}
               /\ Answers(r, "ok") /\ UNCHANGED spoiled
          ELSE IF Taken(copy.name)
            THEN Answers(r, "error") /\ UNCHANGED <<repos, spoiled>>
            ELSE /\ repos' = repos \cup {copy}
                 /\ spoiled' = spoiled \cup {PathOf[copy.name]}
                 /\ Answers(r, "ok")
     /\ UNCHANGED <<disk, defaults, settings, others, raced>>

-----------------------------------------------------------------------------
(* The default repository of a provider or a scope.                        *)

ScopeTypes == [manual |-> {}, asana |-> {"asana_project", "asana_workspace"},
               jira |-> {"jira_project"}]

\* resolveScope: of the provider, or of a scope it has, which takes a type and an id.
Resolves(dto) ==
  \/ dto.scopeType = "none" /\ dto.scopeId = "none"
  \/ dto.scopeType \in ScopeTypes[dto.provider] /\ dto.scopeId # "none"

\* upsertForUser: assertOwnedRepository.
SetDefault(r, dto, x) ==
  /\ At(r, "idle") /\ Resolves(dto) /\ x \in repos
  /\ req' = [req EXCEPT ![r].pc = "upsert", ![r].key = dto, ![r].repo = x.id]
  /\ UNCHANGED <<repos, disk, defaults, settings, others, spoiled, raced>>

Known(id) == \E x \in repos : x.id = id   \* the foreign key of a default
Has(k) == \E d \in defaults : d.key = k

\* The default is stored in the row of its key, or in a new one.
Stores(r, pc) ==
  LET q == req[r]
  IN /\ defaults' = {d \in defaults : d.key # q.key} \cup
                    {[key |-> q.key, repo |-> q.repo,
                      by |-> IF Has(q.key) THEN (CHOOSE d \in defaults : d.key = q.key).by
                             ELSE r]}
     /\ req' = [req EXCEPT ![r].pc = pc, ![r].stored = TRUE]

\* Postgres: one INSERT ... ON CONFLICT DO UPDATE.  Else an UPDATE first.
Upsert(r) ==
  /\ At(r, "upsert")
  /\ IF driver = "sqlite" /\ ~Has(req[r].key)
       THEN Goes(r, "insert") /\ UNCHANGED defaults
       ELSE IF Known(req[r].repo) THEN Stores(r, "find")
       ELSE Answers(r, "error") /\ UNCHANGED defaults
  /\ UNCHANGED <<repos, disk, settings, others, spoiled, raced>>

\* Mutant: the unique violation is taken for success.
SecondUpdateSkipped(r) == Goes(r, "find") /\ UNCHANGED defaults

\* upsertDefaultPortable after a unique violation: the UPDATE once more.
SecondUpdate(r) == Goes(r, "update") /\ UNCHANGED defaults

InsertDefault(r) ==
  /\ At(r, "insert")
  /\ IF Has(req[r].key) THEN SecondUpdate(r)
     ELSE IF Known(req[r].repo) THEN Stores(r, "find")
     ELSE Answers(r, "error") /\ UNCHANGED defaults
  /\ UNCHANGED <<repos, disk, settings, others, spoiled, raced>>
UpdateAgain(r) ==
  /\ At(r, "update")
  /\ IF ~Has(req[r].key) THEN Goes(r, "find") /\ UNCHANGED defaults
     ELSE IF Known(req[r].repo) THEN Stores(r, "find")
     ELSE Answers(r, "error") /\ UNCHANGED defaults
  /\ UNCHANGED <<repos, disk, settings, others, spoiled, raced>>

\* findExistingDefault: the answer is what is stored now.
FindDefault(r) ==
  /\ At(r, "find")
  /\ Answers(r, IF Has(req[r].key) THEN "ok" ELSE "error")
  /\ UNCHANGED <<repos, disk, defaults, settings, others, spoiled, raced>>

\* deleteForUser: the row that is found is deleted by its id, if it is still there.
UnsetDefault(r, d) ==
  /\ At(r, "idle") /\ d \in defaults
  /\ req' = [req EXCEPT ![r].pc = "erase", ![r].repo = d.by]
  /\ UNCHANGED <<repos, disk, defaults, settings, others, spoiled, raced>>
EraseDefault(r) ==
  /\ At(r, "erase")
  /\ defaults' = {d \in defaults : d.by # req[r].repo}
  /\ req' = [Bereft EXCEPT ![r].pc = "done", ![r].answer = "ok"]
  /\ UNCHANGED <<repos, disk, settings, others, spoiled, raced>>

-----------------------------------------------------------------------------
(* Settings.                                                               *)

Fresh == [f \in Fields |-> f \in {"asana", "jira"}]
Applied(row, u) == [f \in Fields |-> IF f \in DOMAIN u THEN u[f] ELSE row[f]]
Valid(row) == row["syncEnabled"] => row["asana"] \/ row["jira"]

\* Mutant: the body alone is validated.
AcceptsBody(row, u) == Valid(Applied(Fresh, u))

\* validateSyncConfiguration of the settings with the fields applied.
Accepts(row, u) == Valid(Applied(row, u))

\* updateSettings reads the row, or makes one.
UpdateSettings(r, u) ==
  /\ At(r, "idle")
  /\ \E row \in IF settings = {} THEN {Fresh} ELSE settings :
       IF Accepts(row, u)
         THEN req' = [req EXCEPT ![r].pc = "reload", ![r].form = {Applied(row, u)}]
         ELSE Answers(r, "error")
  /\ UNCHANGED <<repos, disk, defaults, settings, others, spoiled, raced>>

\* save reads the row again and then writes what differs.
Reload(r) ==
  /\ At(r, "reload")
  /\ req' = [req EXCEPT ![r].pc = "write", ![r].was = settings]
  /\ raced' = (raced \/ \E q \in Requests : At(q, "write"))
  /\ UNCHANGED <<repos, disk, defaults, settings, others, spoiled>>
WriteSettings(r) ==
  LET form == req[r].form
      was == req[r].was
      differ == {f \in Fields : \A x \in was : \A y \in form : x[f] # y[f]}
  IN /\ At(r, "write")
     /\ IF was = {} /\ settings # {}      \* the primary key is taken
          THEN Answers(r, "error") /\ UNCHANGED settings
          ELSE /\ Answers(r, "ok")
               /\ settings' =
                    IF was = {} THEN form
                    ELSE {[f \in Fields |-> IF f \in differ THEN y[f] ELSE s[f]] :
                            s \in settings, y \in form}
     /\ UNCHANGED <<repos, disk, defaults, others, spoiled, raced>>

-----------------------------------------------------------------------------
(* Faults.                                                                 *)

\* A statement, or a git command of a sync, fails without effect: the request does, with
\* what it did before.
RequestFails(r) ==
  /\ \/ Fault("database") /\ req[r].pc \in {"delete", "store", "upsert", "insert", "update",
                                            "find", "erase", "reload", "write"}
     \/ At(r, "pull") /\ (Fault("git") \/ Fault("timeout"))
  /\ Answers(r, "error")
  /\ UNCHANGED <<driver, repos, disk, defaults, settings, spoiled, raced>>

\* The process ends with the requests it has.
Cleaning == {"cloning", "save", "remove", "rm"}
Crash ==
  /\ Fault("crash")
  /\ littered' = littered \cup {Path(r) : r \in {q \in Requests : req[q].pc \in Cleaning}}
  /\ req' = [r \in Requests |-> IF req[r].pc \in {"idle", "done"} THEN req[r]
                                ELSE [req[r] EXCEPT !.pc = "done", !.answer = "error"]]
  /\ UNCHANGED <<driver, repos, dirs, defaults, settings, spoiled, raced>>

RequestStep(r) ==
  \/ \E asked \in DOMAIN GitHub : Create(r, asked)
  \/ CloneBegins(r) \/ CloneEnds(r) \/ CloneFails(r)
  \/ SaveNew(r) \/ SaveNewFails(r) \/ RemoveQuietly(r)
  \/ \E x \in repos : Read(r, x, "delete") \/ Read(r, x, "git")
  \/ DeleteRow(r) \/ DeleteLost(r) \/ RemoveClone(r)
  \/ LookAtClone(r) \/ Pull(r)
  \/ \E x \in repos, profile \in Profiles : SetProfile(r, x, profile)
  \/ Store(r)
  \/ \E dto \in DefaultDtos, x \in repos : SetDefault(r, dto, x)
  \/ Upsert(r) \/ InsertDefault(r) \/ UpdateAgain(r) \/ FindDefault(r)
  \/ \E d \in defaults : UnsetDefault(r, d)
  \/ EraseDefault(r)
  \/ \E u \in Updates : UpdateSettings(r, u)
  \/ Reload(r) \/ WriteSettings(r)
  \/ RequestFails(r)

Next == (\E r \in Requests : RequestStep(r)) \/ Crash
Spec == Init /\ [][Next]_vars

-----------------------------------------------------------------------------
(* Properties.                                                             *)

Rows == [id : Ids, name : Names, profile : Profiles]
SettingsRows == [Fields -> BOOLEAN]
Keys == DefaultDtos \cup {NoKey}
Steps == {"idle", "clone", "cloning", "save", "remove", "delete", "rm", "git", "pull", "store",
          "upsert", "insert", "update", "find", "erase", "reload", "write", "done"}
RequestState == [pc : Steps, row : Rows, key : Keys, repo : Ids, form : SUBSET SettingsRows,
                 was : SUBSET SettingsRows, answer : {"none", "ok", "error"},
                 stored : BOOLEAN, calm : BOOLEAN]

TypeOK ==
  /\ repos \subseteq Rows
  /\ dirs \in [Paths -> {"none", "partial", "clone"}]
  /\ defaults \subseteq [key : Keys, repo : Ids, by : Requests]
  /\ settings \subseteq SettingsRows
  /\ req \in [Requests -> RequestState]
  /\ spoiled \subseteq Paths /\ littered \subseteq Paths
  /\ driver \in Drivers /\ faults \in 0..MaxFaults /\ raced \in BOOLEAN

\* Every repository has its clone: no deletion, however late, removes the directory of
\* a repository created since, and no failing creation that of another.  Not so where
\* a row was stored after its directory was gone (a sync that ends after the deletion,
\* a lost reply).
RowHasDirectory ==
  \A x \in repos : PathOf[x.name] \in spoiled \/ dirs[PathOf[x.name]] = "clone"

\* A directory at a path is there for a row, or for a request that is working on it:
\* otherwise the path refuses every later creation.  Only a fault leaves one behind.
NoLostDirectory ==
  \A p \in Paths \ littered :
    dirs[p] # "none" =>
      \/ \E x \in repos : PathOf[x.name] = p
      \/ \E r \in Requests : req[r].pc \in Cleaning /\ Path(r) = p

\* An upsert of a default that is answered with success has stored its repository,
\* though another request inserted the row in between, unless a deletion of the
\* default interfered.
DefaultTakesEffect ==
  \A r \in Requests :
    At(r, "done") /\ req[r].answer = "ok" /\ req[r].key # NoKey /\ req[r].calm =>
      req[r].stored

\* Automatic synchronisation is never on without a provider: each update writes all it
\* read, so of two updates that overlap the later one prevails as a whole, unless they
\* save at the same time.
SyncHasProvider == ~raced => \A row \in settings : Valid(row)
=============================================================================
