--------------------------- MODULE WorkspaceProofs ---------------------------
(***************************************************************************)
(* Theorems about Workspace for any number of requests, names, paths and   *)
(* faults: its types, that a repository has its directory and no directory *)
(* is lost, that an answered default is stored, and that the settings stay *)
(* valid.                                                                  *)
(***************************************************************************)
EXTENDS Workspace, TLAPS

-----------------------------------------------------------------------------
(* Types.                                                                  *)

\* What a step of request r does to the requests, as far as repositories are concerned:
\* r goes to pc, with the row `row`, and the others keep theirs.
Moved(r, pc, row) ==
  /\ req'[r].pc = pc /\ req'[r].row = row
  /\ \A q \in Requests \ {r} : req'[q].pc = req[q].pc /\ req'[q].row = req[q].row

\* An idle request has the type of a request.
LEMMA IdleType == Idle \in RequestState /\ FirstRow \in Rows
  BY WorkspaceAssumption DEF Idle, RequestState, FirstRow, Rows, Keys, Ids, Steps

\* The record of one request is replaced.
LEMMA Written ==
  ASSUME TypeOK, NEW r \in Requests, NEW x \in RequestState, req' = [req EXCEPT ![r] = x]
  PROVE  req' \in [Requests -> RequestState] /\ Moved(r, x.pc, x.row)
  BY DEF TypeOK, Moved

\* The record of a request is one, and it names a path.
LEMMA RequestType ==
  ASSUME TypeOK, NEW r \in Requests
  PROVE  req[r] \in RequestState /\ req[r].row \in Rows /\ Path(r) \in Paths
  BY WorkspaceAssumption DEF TypeOK, RequestState, Rows, Path

\* A request that goes on keeps its row and the types.
LEMMA GoesType ==
  ASSUME TypeOK, NEW r \in Requests, NEW pc \in Steps, Goes(r, pc)
  PROVE  req' \in [Requests -> RequestState] /\ Moved(r, pc, req[r].row)
<1> DEFINE x == [req[r] EXCEPT !.pc = pc]
<1>1. x \in RequestState /\ x.pc = pc /\ x.row = req[r].row
  BY RequestType DEF RequestState
<1>2. req' = [req EXCEPT ![r] = x]
  BY DEF Goes
<1> HIDE DEF x
<1> QED BY <1>1, <1>2, Written

\* So does one that ends with an answer.
LEMMA AnswersType ==
  ASSUME TypeOK, NEW r \in Requests, NEW a \in {"ok", "error"}, Answers(r, a)
  PROVE  req' \in [Requests -> RequestState] /\ Moved(r, "done", req[r].row)
<1> DEFINE x == [req[r] EXCEPT !.pc = "done", !.answer = a]
<1>1. x \in RequestState /\ x.pc = "done" /\ x.row = req[r].row
  BY RequestType DEF RequestState, Steps
<1>2. req' = [req EXCEPT ![r] = x]
  BY RequestType DEF Answers, TypeOK
<1> HIDE DEF x
<1> QED BY <1>1, <1>2, Written

\* A fault is counted.
LEMMA FaultType ==
  ASSUME TypeOK, NEW kind, Fault(kind) PROVE faults' \in 0..MaxFaults
  BY WorkspaceAssumption DEF TypeOK, Fault

\* Init establishes the types.
LEMMA TypeInit == Init => TypeOK
<1> SUFFICES ASSUME Init PROVE TypeOK
  OBVIOUS
<1>1. dirs \in [Paths -> {"none", "partial", "clone"}]
  BY DEF Init
<1>2. settings \subseteq SettingsRows
  BY DEF Init, SettingsRows
<1>3. req \in [Requests -> RequestState]
  BY IdleType DEF Init
<1>4. faults \in 0..MaxFaults /\ driver \in Drivers
  BY WorkspaceAssumption DEF Init
<1>5. raced \in BOOLEAN
  BY DEF Init
<1>6. repos \subseteq Rows /\ spoiled \subseteq Paths /\ littered \subseteq Paths
  BY IdleType DEF Init
<1>7. defaults \subseteq [key : Keys, repo : Ids, by : Requests]
  BY DEF Init
<1> QED BY <1>1, <1>2, <1>3, <1>4, <1>5, <1>6, <1>7 DEF TypeOK

\* A row is made of an id, a name and a profile.
LEMMA RowMade ==
  ASSUME NEW i \in Ids, NEW n \in Names, NEW p \in Profiles
  PROVE  [id |-> i, name |-> n, profile |-> p] \in Rows
  BY DEF Rows

\* The steps of a creation keep the types.
LEMMA CreateType ==
  ASSUME TypeOK, NEW r \in Requests, NEW asked \in DOMAIN GitHub, Create(r, asked)
  PROVE  /\ TypeOK'
         /\ \E n \in Names, pc \in {"clone", "done"} :
              Moved(r, pc, [id |-> r, name |-> n, profile |-> NoProfile])
<1>1. PICK n \in GetRepository(asked) :
        req' = [req EXCEPT ![r].pc = IF dirs[PathOf[n]] = "none" THEN "clone" ELSE "done",
                           ![r].answer = IF dirs[PathOf[n]] = "none" THEN "none" ELSE "error",
                           ![r].row = [id |-> r, name |-> n, profile |-> NoProfile]]
  BY DEF Create
<1>2. n \in Names
  BY <1>1, WorkspaceAssumption DEF GetRepository
<1>3. [id |-> r, name |-> n, profile |-> NoProfile] \in Rows
  <2>1. r \in Ids
    BY DEF Ids
  <2>2. NoProfile \in Profiles
    BY WorkspaceAssumption
  <2> QED BY <1>2, <2>1, <2>2, RowMade
<1> DEFINE pc == IF dirs[PathOf[n]] = "none" THEN "clone" ELSE "done"
           a == IF dirs[PathOf[n]] = "none" THEN "none" ELSE "error"
           row == [id |-> r, name |-> n, profile |-> NoProfile]
           x == [req[r] EXCEPT !.pc = pc, !.answer = a, !.row = row]
<1>4. x \in RequestState /\ x.pc = pc /\ x.row = row
  <2>1. pc \in Steps /\ a \in {"none", "ok", "error"}
    BY DEF Steps
  <2>2. req[r] \in RequestState
    BY RequestType
  <2>3. row \in Rows
    BY <1>3
  <2> HIDE DEF pc, a, row
  <2> QED BY <2>1, <2>2, <2>3 DEF RequestState
<1>5. req' = [req EXCEPT ![r] = x]
  BY <1>1, RequestType DEF TypeOK
<1>6. req' \in [Requests -> RequestState] /\ Moved(r, pc, row)
  <2> HIDE DEF x
  <2> QED BY <1>4, <1>5, Written
<1>7. TypeOK'
  BY <1>6 DEF TypeOK, Create, disk, others
<1> QED BY <1>2, <1>6, <1>7

\* git clone: the types, and where the request goes on.
LEMMA CloneType ==
  ASSUME TypeOK, NEW r \in Requests, CloneBegins(r) \/ CloneEnds(r) \/ CloneFails(r)
  PROVE  /\ TypeOK'
         /\ CloneBegins(r) => IF dirs[Path(r)] = "none" THEN Moved(r, "cloning", req[r].row)
                              ELSE Moved(r, "done", req[r].row)
         /\ CloneEnds(r) => Moved(r, "save", req[r].row)
         /\ CloneFails(r) => Moved(r, "done", req[r].row)
<1>1. CloneBegins(r) => TypeOK' /\ IF dirs[Path(r)] = "none"
                                      THEN Moved(r, "cloning", req[r].row)
                                      ELSE Moved(r, "done", req[r].row)
  <2> HAVE CloneBegins(r)
  <2>1. /\ req' \in [Requests -> RequestState]
        /\ IF dirs[Path(r)] = "none" THEN Moved(r, "cloning", req[r].row)
           ELSE Moved(r, "done", req[r].row)
    BY GoesType, AnswersType DEF CloneBegins, Steps
  <2>2. TypeOK'
    BY <2>1, RequestType DEF TypeOK, CloneBegins, others
  <2> QED BY <2>1, <2>2
<1>2. CloneEnds(r) => TypeOK' /\ Moved(r, "save", req[r].row)
  <2> HAVE CloneEnds(r)
  <2>1. req' \in [Requests -> RequestState] /\ Moved(r, "save", req[r].row)
    BY GoesType DEF CloneEnds, Steps
  <2>2. TypeOK'
    BY <2>1, RequestType DEF TypeOK, CloneEnds, others
  <2> QED BY <2>1, <2>2
<1>3. CloneFails(r) => TypeOK' /\ Moved(r, "done", req[r].row)
  <2> HAVE CloneFails(r)
  <2>1. req' \in [Requests -> RequestState] /\ Moved(r, "done", req[r].row)
    BY AnswersType DEF CloneFails
  <2>2. faults' \in 0..MaxFaults
    BY FaultType DEF CloneFails, TypeOK
  <2>3. TypeOK'
    BY <2>1, <2>2, RequestType DEF TypeOK, CloneFails
  <2> QED BY <2>1, <2>3
<1> QED BY <1>1, <1>2, <1>3

\* The insert of a new row: the types, and where the request goes on.
LEMMA SaveType ==
  ASSUME TypeOK, NEW r \in Requests, SaveNew(r) \/ SaveNewFails(r)
  PROVE  /\ TypeOK'
         /\ SaveNew(r) => IF Taken(req[r].row.name) THEN Moved(r, "remove", req[r].row)
                          ELSE Moved(r, "done", req[r].row)
         /\ SaveNewFails(r) => Moved(r, "remove", req[r].row)
<1>1. CASE SaveNew(r)
  <2>1. /\ req' \in [Requests -> RequestState]
        /\ IF Taken(req[r].row.name) THEN Moved(r, "remove", req[r].row)
           ELSE Moved(r, "done", req[r].row)
    BY <1>1, GoesType, AnswersType DEF SaveNew, Steps
  <2>2. TypeOK'
    BY <1>1, <2>1, RequestType DEF TypeOK, SaveNew, disk, others
  <2>3. SaveNewFails(r) => Moved(r, "remove", req[r].row)
    BY GoesType DEF SaveNewFails, Steps
  <2> QED BY <2>1, <2>2, <2>3
<1>2. CASE SaveNewFails(r)
  <2>1. req' \in [Requests -> RequestState] /\ Moved(r, "remove", req[r].row)
    BY <1>2, GoesType DEF SaveNewFails, Steps
  <2>2. faults' \in 0..MaxFaults
    BY <1>2, FaultType DEF SaveNewFails
  <2>3. TypeOK'
    BY <1>2, <2>1, <2>2, RequestType DEF TypeOK, SaveNewFails, disk
  <2>4. SaveNew(r) => IF Taken(req[r].row.name) THEN Moved(r, "remove", req[r].row)
                      ELSE Moved(r, "done", req[r].row)
    BY GoesType, AnswersType DEF SaveNew, Steps
  <2> QED BY <2>1, <2>3, <2>4
<1> QED BY <1>1, <1>2

\* The removal of a directory ends the request.
LEMMA RemoveType ==
  ASSUME TypeOK, NEW r \in Requests, RemoveQuietly(r) \/ RemoveClone(r)
  PROVE  TypeOK' /\ Moved(r, "done", req[r].row)
<1>1. PICK at \in Steps, a \in {"ok", "error"} : Remove(r, at, a)
  BY DEF RemoveQuietly, RemoveClone, Steps
<1>2. req' \in [Requests -> RequestState] /\ Moved(r, "done", req[r].row)
  BY <1>1, AnswersType DEF Remove
<1>3. faults' \in 0..MaxFaults
  BY <1>1, FaultType DEF Remove, TypeOK
<1>4. TypeOK'
  BY <1>1, <1>2, <1>3, RequestType DEF TypeOK, Remove
<1> QED BY <1>2, <1>4

\* getOwnedRepository and the requests that go on with a copy of the row.
LEMMA CopyType ==
  ASSUME TypeOK, NEW r \in Requests, NEW x \in repos
  PROVE  /\ \A pc \in {"delete", "git"} :
              Read(r, x, pc) => TypeOK' /\ Moved(r, pc, x)
         /\ \A profile \in Profiles :
              SetProfile(r, x, profile) =>
                TypeOK' /\ Moved(r, "store", [x EXCEPT !.profile = profile])
<1>0. x \in Rows /\ req[r] \in RequestState
  BY RequestType DEF TypeOK
<1>1. ASSUME NEW pc \in {"delete", "git"}, Read(r, x, pc)
      PROVE  TypeOK' /\ Moved(r, pc, x)
  <2> DEFINE y == [req[r] EXCEPT !.pc = pc, !.row = x]
  <2>1. y \in RequestState /\ y.pc = pc /\ y.row = x
    BY <1>0 DEF RequestState, Steps
  <2>2. req' = [req EXCEPT ![r] = y]
    BY <1>0, <1>1 DEF Read, TypeOK
  <2>3. req' \in [Requests -> RequestState] /\ Moved(r, pc, x)
    <3> HIDE DEF y
    <3> QED BY <2>1, <2>2, Written
  <2> QED BY <1>1, <2>3 DEF Read, TypeOK, disk, others
<1>2. ASSUME NEW profile \in Profiles, SetProfile(r, x, profile)
      PROVE  TypeOK' /\ Moved(r, "store", [x EXCEPT !.profile = profile])
  <2> DEFINE row == [x EXCEPT !.profile = profile]
             y == [req[r] EXCEPT !.pc = "store", !.row = row]
  <2>0. row \in Rows
    BY <1>0 DEF Rows
  <2>1. y \in RequestState /\ y.pc = "store" /\ y.row = row
    <3> HIDE DEF row
    <3> QED BY <1>0, <2>0 DEF RequestState, Steps
  <2>2. req' = [req EXCEPT ![r] = y]
    BY <1>0, <1>2 DEF SetProfile, TypeOK
  <2>3. req' \in [Requests -> RequestState] /\ Moved(r, "store", row)
    <3> HIDE DEF y, row
    <3> QED BY <2>1, <2>2, Written
  <2> QED BY <1>2, <2>3 DEF SetProfile, TypeOK, disk, others
<1> QED BY <1>1, <1>2

\* Disturbing upserts changes neither rows nor steps.
LEMMA DisturbedType ==
  ASSUME TypeOK, NEW R
  PROVE  /\ Disturbed(R) \in [Requests -> RequestState]
         /\ \A q \in Requests : Disturbed(R)[q].pc = req[q].pc /\ Disturbed(R)[q].row = req[q].row
<1>1. ASSUME NEW q \in Requests
      PROVE  /\ [req[q] EXCEPT !.calm = @ /\ q \notin R] \in RequestState
             /\ [req[q] EXCEPT !.calm = @ /\ q \notin R].pc = req[q].pc
             /\ [req[q] EXCEPT !.calm = @ /\ q \notin R].row = req[q].row
  BY RequestType DEF RequestState
<1> QED BY <1>1 DEF Disturbed

\* The DELETE of a row: the types, and where the request goes on.
LEMMA DeleteType ==
  ASSUME TypeOK, NEW r \in Requests, DeleteRow(r)
  PROVE  /\ TypeOK'
         /\ Moved(r, IF Affected(r) THEN "rm" ELSE "done", req[r].row)
<1>1. CASE Affected(r)
  <2> DEFINE R == {q \in Requests : \E d \in defaults \ defaults' : d.key = req[q].key}
             x == [Disturbed(R)[r] EXCEPT !.pc = "rm"]
  <2>1. req' = [Disturbed(R) EXCEPT ![r].pc = "rm"]
    BY <1>1 DEF DeleteRow, Bereft
  <2> HIDE DEF R
  <2>2. x \in RequestState /\ x.pc = "rm" /\ x.row = req[r].row
    BY DisturbedType DEF RequestState, Steps
  <2>3. req' = [Disturbed(R) EXCEPT ![r] = x]
    BY <2>1
  <2>4. req' \in [Requests -> RequestState] /\ Moved(r, "rm", req[r].row)
    <3> HIDE DEF x
    <3> QED BY <2>2, <2>3, DisturbedType DEF Moved
  <2>5. TypeOK'
    BY <1>1, <2>4 DEF DeleteRow, Deletes, TypeOK, disk, others
  <2> QED BY <1>1, <2>4, <2>5
<1>2. CASE ~Affected(r)
  <2>1. req' \in [Requests -> RequestState] /\ Moved(r, "done", req[r].row)
    BY <1>2, AnswersType DEF DeleteRow
  <2> QED BY <1>2, <2>1 DEF DeleteRow, TypeOK, disk, others
<1> QED BY <1>1, <1>2

\* The reply of the DELETE is lost: the types, and the end of the request.
LEMMA DeleteLostType ==
  ASSUME TypeOK, NEW r \in Requests, DeleteLost(r)
  PROVE  TypeOK' /\ Moved(r, "done", req[r].row)
<1> DEFINE R == {q \in Requests : \E d \in defaults \ defaults' : d.key = req[q].key}
           x == [Disturbed(R)[r] EXCEPT !.pc = "done", !.answer = "error"]
<1>0. req' = [Disturbed(R) EXCEPT ![r].pc = "done", ![r].answer = "error"]
  BY DEF DeleteLost, Bereft
<1>1. req' \in [Requests -> RequestState] /\ Moved(r, "done", req[r].row)
  <2> HIDE DEF R
  <2>1. Disturbed(R)[r] \in RequestState /\ Disturbed(R)[r].row = req[r].row
    BY DisturbedType
  <2>2. x \in RequestState /\ x.pc = "done" /\ x.row = req[r].row
    BY <2>1 DEF RequestState, Steps
  <2>3. req' = [Disturbed(R) EXCEPT ![r] = x]
    BY <1>0, DisturbedType DEF RequestState
  <2> HIDE DEF x
  <2> QED BY <2>2, <2>3, DisturbedType DEF Moved
<1>2. faults' \in 0..MaxFaults
  BY FaultType DEF DeleteLost
<1>3. littered' \subseteq Paths
  BY RequestType DEF DeleteLost, TypeOK
<1> QED BY <1>1, <1>2, <1>3 DEF DeleteLost, Deletes, TypeOK

\* The save of a copy ends the request.
LEMMA StoreType ==
  ASSUME TypeOK, NEW r \in Requests, Store(r)
  PROVE  TypeOK' /\ Moved(r, "done", req[r].row)
<1>1. req' \in [Requests -> RequestState] /\ Moved(r, "done", req[r].row)
  BY AnswersType DEF Store
<1>2. req[r].row \in Rows
  BY RequestType
<1>3. PathOf[req[r].row.name] \in Paths
  BY RequestType DEF Path
<1>4. repos' \subseteq Rows /\ spoiled' \subseteq Paths
  BY <1>2, <1>3 DEF Store, TypeOK
<1> QED BY <1>1, <1>4 DEF Store, TypeOK, disk, others

\* The steps in which no repository and no directory changes, no row is read and no
\* clean-up is due before or after.
Aside(r) ==
  /\ UNCHANGED <<repos, dirs, spoiled, littered>>
  /\ req[r].pc \notin Cleaning
  /\ \E pc \in Steps \ (Cleaning \cup {"idle"}) : Moved(r, pc, req[r].row)

GitStep(r) == LookAtClone(r) \/ Pull(r)
DefaultStep(r) ==
  \/ \E dto \in DefaultDtos, x \in repos : SetDefault(r, dto, x)
  \/ Upsert(r) \/ InsertDefault(r) \/ UpdateAgain(r) \/ FindDefault(r)
  \/ \E d \in defaults : UnsetDefault(r, d)
  \/ EraseDefault(r)
SettingsStep(r) == (\E u \in Updates : UpdateSettings(r, u)) \/ Reload(r) \/ WriteSettings(r)

\* A sync looks at the clone and pulls aside.
LEMMA GitAside ==
  ASSUME TypeOK, NEW r \in Requests, GitStep(r)
  PROVE  TypeOK' /\ Aside(r)
<1>1. /\ req' \in [Requests -> RequestState]
      /\ \E pc \in {"pull", "store", "done"} : Moved(r, pc, req[r].row)
  BY GoesType, AnswersType DEF GitStep, LookAtClone, Pull, Steps
<1>2. TypeOK'
  BY <1>1 DEF GitStep, LookAtClone, Pull, TypeOK, disk, others
<1> QED BY <1>1, <1>2 DEF GitStep, LookAtClone, Pull, At, Aside, Cleaning, Steps, disk

\* The default of a key that is stored.
LEMMA StoresType ==
  ASSUME TypeOK, NEW r \in Requests, NEW pc \in Steps, Stores(r, pc)
  PROVE  /\ req' \in [Requests -> RequestState] /\ Moved(r, pc, req[r].row)
         /\ defaults' \subseteq [key : Keys, repo : Ids, by : Requests]
<1> DEFINE q == req[r]
           by == IF Has(q.key) THEN (CHOOSE d \in defaults : d.key = q.key).by ELSE r
           x == [q EXCEPT !.pc = pc, !.stored = TRUE]
<1>1. q.key \in Keys /\ q.repo \in Ids
  BY RequestType DEF RequestState
<1>2. by \in Requests
  BY DEF Has, TypeOK
<1>3. defaults' = {d \in defaults : d.key # q.key} \cup {[key |-> q.key, repo |-> q.repo, by |-> by]}
  BY DEF Stores
<1>4. defaults' \subseteq [key : Keys, repo : Ids, by : Requests]
  <2> HIDE DEF by, q
  <2> QED BY <1>1, <1>2, <1>3 DEF TypeOK
<1>5. x \in RequestState /\ x.pc = pc /\ x.row = req[r].row
  BY RequestType DEF RequestState
<1>6. req' = [req EXCEPT ![r] = x]
  BY RequestType DEF Stores, TypeOK
<1>7. req' \in [Requests -> RequestState] /\ Moved(r, pc, req[r].row)
  <2> HIDE DEF x
  <2> QED BY <1>5, <1>6, Written
<1> QED BY <1>4, <1>7

\* A request that takes a default up.
LEMMA SetDefaultType ==
  ASSUME TypeOK, NEW r \in Requests
  PROVE  /\ \A dto \in DefaultDtos, x \in repos : SetDefault(r, dto, x) =>
              req' \in [Requests -> RequestState] /\ Moved(r, "upsert", req[r].row)
         /\ \A d \in defaults : UnsetDefault(r, d) =>
              req' \in [Requests -> RequestState] /\ Moved(r, "erase", req[r].row)
         /\ EraseDefault(r) =>
              req' \in [Requests -> RequestState] /\ Moved(r, "done", req[r].row)
<1>1. ASSUME NEW dto \in DefaultDtos, NEW x \in repos, SetDefault(r, dto, x)
      PROVE  req' \in [Requests -> RequestState] /\ Moved(r, "upsert", req[r].row)
  <2> DEFINE y == [req[r] EXCEPT !.pc = "upsert", !.key = dto, !.repo = x.id]
  <2>1. x.id \in Ids /\ dto \in Keys
    BY DEF TypeOK, Rows, Keys
  <2>2. y \in RequestState /\ y.pc = "upsert" /\ y.row = req[r].row
    BY <2>1, RequestType DEF RequestState, Steps
  <2>3. req' = [req EXCEPT ![r] = y]
    BY <1>1, RequestType DEF SetDefault, TypeOK
  <2> HIDE DEF y
  <2> QED BY <2>2, <2>3, Written
<1>2. ASSUME NEW d \in defaults, UnsetDefault(r, d)
      PROVE  req' \in [Requests -> RequestState] /\ Moved(r, "erase", req[r].row)
  <2> DEFINE y == [req[r] EXCEPT !.pc = "erase", !.repo = d.by]
  <2>1. d.by \in Ids
    BY DEF TypeOK, Ids
  <2>2. y \in RequestState /\ y.pc = "erase" /\ y.row = req[r].row
    BY <2>1, RequestType DEF RequestState, Steps
  <2>3. req' = [req EXCEPT ![r] = y]
    BY <1>2, RequestType DEF UnsetDefault, TypeOK
  <2> HIDE DEF y
  <2> QED BY <2>2, <2>3, Written
<1>3. ASSUME EraseDefault(r)
      PROVE  req' \in [Requests -> RequestState] /\ Moved(r, "done", req[r].row)
  <2> DEFINE R == {q \in Requests : \E d \in defaults \ defaults' : d.key = req[q].key}
             y == [Disturbed(R)[r] EXCEPT !.pc = "done", !.answer = "ok"]
  <2>1. req' = [Disturbed(R) EXCEPT ![r].pc = "done", ![r].answer = "ok"]
    BY <1>3 DEF EraseDefault, Bereft
  <2> HIDE DEF R
  <2>0. Disturbed(R)[r] \in RequestState /\ Disturbed(R)[r].row = req[r].row
    BY DisturbedType
  <2>2. y \in RequestState /\ y.pc = "done" /\ y.row = req[r].row
    BY <2>0 DEF RequestState, Steps
  <2>3. req' = [Disturbed(R) EXCEPT ![r] = y]
    BY <2>1, DisturbedType DEF RequestState
  <2> HIDE DEF y
  <2> QED BY <2>2, <2>3, DisturbedType DEF Moved
<1> QED BY <1>1, <1>2, <1>3

\* So is what is done to a default.
LEMMA DefaultAside ==
  ASSUME TypeOK, NEW r \in Requests, DefaultStep(r)
  PROVE  TypeOK' /\ Aside(r)
<1> DEFINE After == {"upsert", "erase", "done", "insert", "update", "find"}
<1>1. /\ req' \in [Requests -> RequestState]
      /\ \E pc \in After : Moved(r, pc, req[r].row)
      /\ defaults' \subseteq [key : Keys, repo : Ids, by : Requests]
  <2>1. CASE \E dto \in DefaultDtos, x \in repos : SetDefault(r, dto, x)
    BY <2>1, SetDefaultType DEF SetDefault, TypeOK
  <2>2. CASE \E d \in defaults : UnsetDefault(r, d)
    BY <2>2, SetDefaultType DEF UnsetDefault, TypeOK
  <2>3. CASE EraseDefault(r)
    BY <2>3, SetDefaultType DEF EraseDefault, TypeOK
  <2>4. CASE Upsert(r)
    BY <2>4, GoesType, AnswersType, StoresType DEF Upsert, TypeOK, Steps
  <2>5. CASE InsertDefault(r)
    BY <2>5, GoesType, AnswersType, StoresType DEF InsertDefault, SecondUpdate, TypeOK, Steps
  <2>6. CASE UpdateAgain(r)
    BY <2>6, GoesType, AnswersType, StoresType DEF UpdateAgain, TypeOK, Steps
  <2>7. CASE FindDefault(r)
    BY <2>7, AnswersType DEF FindDefault, TypeOK
  <2> QED BY <2>1, <2>2, <2>3, <2>4, <2>5, <2>6, <2>7 DEF DefaultStep
<1>2. /\ UNCHANGED <<repos, dirs, settings, spoiled, littered, driver, faults, raced>>
      /\ req[r].pc \notin Cleaning
  BY DEF DefaultStep, SetDefault, UnsetDefault, EraseDefault, Upsert, InsertDefault,
         UpdateAgain, FindDefault, At, Cleaning, disk, others
<1>3. After \subseteq Steps \ (Cleaning \cup {"idle"})
  BY DEF Steps, Cleaning
<1> HIDE DEF After
<1> QED BY <1>1, <1>2, <1>3 DEF TypeOK, Aside

\* updateSettings: what is applied is a row, and so is what is written.
LEMMA SettingsAside ==
  ASSUME TypeOK, NEW r \in Requests, SettingsStep(r)
  PROVE  TypeOK' /\ Aside(r)
<1>0. req[r] \in RequestState
  BY RequestType
<1>1. /\ req' \in [Requests -> RequestState]
      /\ \E pc \in {"reload", "write", "done"} : Moved(r, pc, req[r].row)
  <2>1. ASSUME NEW u \in Updates, UpdateSettings(r, u)
        PROVE  <1>1!1 /\ <1>1!2
    <3>1. PICK row \in IF settings = {} THEN {Fresh} ELSE settings :
            IF Accepts(row, u)
              THEN req' = [req EXCEPT ![r].pc = "reload", ![r].form = {Applied(row, u)}]
              ELSE Answers(r, "error")
      BY <2>1 DEF UpdateSettings
    <3>2. row \in SettingsRows
      <4>1. Fresh \in SettingsRows
        BY DEF Fresh, SettingsRows
      <4> QED BY <4>1 DEF TypeOK
    <3>3. Applied(row, u) \in SettingsRows
      BY <3>2, WorkspaceAssumption DEF Applied, SettingsRows
    <3> DEFINE y == [req[r] EXCEPT !.pc = "reload", !.form = {Applied(row, u)}]
    <3>4. y \in RequestState /\ y.pc = "reload" /\ y.row = req[r].row
      BY <1>0, <3>3 DEF RequestState, Steps
    <3>5. CASE req' = [req EXCEPT ![r].pc = "reload", ![r].form = {Applied(row, u)}]
      <4>1. req' = [req EXCEPT ![r] = y]
        BY <1>0, <3>5 DEF TypeOK
      <4> HIDE DEF y
      <4> QED BY <4>1, <3>4, Written
    <3> QED BY <3>1, <3>5, AnswersType
  <2>2. ASSUME Reload(r)
        PROVE  <1>1!1 /\ <1>1!2
    <3> DEFINE y == [req[r] EXCEPT !.pc = "write", !.was = settings]
    <3>1. y \in RequestState /\ y.pc = "write" /\ y.row = req[r].row
      BY <1>0 DEF RequestState, Steps, TypeOK
    <3>2. req' = [req EXCEPT ![r] = y]
      BY <1>0, <2>2 DEF Reload, TypeOK
    <3> HIDE DEF y
    <3> QED BY <3>1, <3>2, Written
  <2>3. ASSUME WriteSettings(r)
        PROVE  <1>1!1 /\ <1>1!2
    BY <2>3, AnswersType DEF WriteSettings
  <2> QED BY <2>1, <2>2, <2>3 DEF SettingsStep
<1>2. settings' \subseteq SettingsRows
  <2>1. CASE WriteSettings(r)
    BY <1>0, <2>1 DEF WriteSettings, SettingsRows, RequestState, TypeOK
  <2> QED BY <2>1 DEF SettingsStep, UpdateSettings, Reload, TypeOK
<1>3. raced' \in BOOLEAN
  <2>1. CASE Reload(r)
    <3>1. raced' = (raced \/ \E q \in Requests : At(q, "write"))
      BY <2>1 DEF Reload
    <3> QED BY <3>1
  <2>2. CASE ~Reload(r)
    <3>1. raced' = raced
      BY <2>2 DEF SettingsStep, UpdateSettings, WriteSettings
    <3> QED BY <3>1 DEF TypeOK
  <2> QED BY <2>1, <2>2
<1>4. /\ UNCHANGED <<repos, dirs, defaults, spoiled, littered, driver, faults>>
      /\ req[r].pc \notin Cleaning
  BY DEF SettingsStep, UpdateSettings, Reload, WriteSettings, At, Cleaning, disk, others
<1> QED BY <1>1, <1>2, <1>3, <1>4 DEF TypeOK, Aside, Steps, Cleaning

\* A request that fails has nothing to clean up.
LEMMA FailsAside ==
  ASSUME TypeOK, NEW r \in Requests, RequestFails(r)
  PROVE  TypeOK' /\ Aside(r)
<1>1. req' \in [Requests -> RequestState] /\ Moved(r, "done", req[r].row)
  BY AnswersType DEF RequestFails
<1>2. faults' \in 0..MaxFaults
  BY FaultType DEF RequestFails
<1>3. req[r].pc \notin Cleaning
  BY DEF RequestFails, At, Cleaning
<1> QED BY <1>1, <1>2, <1>3 DEF RequestFails, TypeOK, Aside, Steps, Cleaning, disk

\* The end of the process: the requests are over, with the rows they had.
LEMMA CrashType ==
  ASSUME TypeOK, Crash
  PROVE  /\ TypeOK'
         /\ \A q \in Requests : /\ req'[q].row = req[q].row
                                /\ req'[q].pc = IF req[q].pc = "idle" THEN "idle" ELSE "done"
<1>1. ASSUME NEW q \in Requests
      PROVE  /\ req'[q] \in RequestState /\ req'[q].row = req[q].row
             /\ req'[q].pc = IF req[q].pc = "idle" THEN "idle" ELSE "done"
  <2>1. req'[q] = IF req[q].pc \in {"idle", "done"} THEN req[q]
                  ELSE [req[q] EXCEPT !.pc = "done", !.answer = "error"]
    BY DEF Crash
  <2>2. req[q] \in RequestState
    BY RequestType
  <2>3. [req[q] EXCEPT !.pc = "done", !.answer = "error"] \in RequestState
    BY <2>2 DEF RequestState, Steps
  <2> QED BY <2>1, <2>2, <2>3 DEF RequestState
<1>2. req' \in [Requests -> RequestState]
  BY <1>1 DEF Crash
<1>3. faults' \in 0..MaxFaults
  BY FaultType DEF Crash
<1>4. littered' \subseteq Paths
  BY RequestType DEF Crash, TypeOK
<1> QED BY <1>1, <1>2, <1>3, <1>4 DEF Crash, TypeOK

-----------------------------------------------------------------------------
(* The cases of a step.                                                    *)

\* RequestStep, with the steps that do nothing to repositories and directories together.
LEMMA Cases ==
  ASSUME NEW r \in Requests, RequestStep(r)
  PROVE  \/ \E asked \in DOMAIN GitHub : Create(r, asked)
         \/ CloneBegins(r) \/ CloneEnds(r) \/ CloneFails(r)
         \/ SaveNew(r) \/ SaveNewFails(r) \/ RemoveQuietly(r) \/ RemoveClone(r)
         \/ \E x \in repos, pc \in {"delete", "git"} : Read(r, x, pc)
         \/ \E x \in repos, profile \in Profiles : SetProfile(r, x, profile)
         \/ DeleteRow(r) \/ DeleteLost(r) \/ Store(r)
         \/ GitStep(r) \/ DefaultStep(r) \/ SettingsStep(r) \/ RequestFails(r)
  BY DEF RequestStep, GitStep, DefaultStep, SettingsStep

\* No step breaks a type.
LEMMA TypeStep == TypeOK /\ [Next]_vars => TypeOK'
<1> SUFFICES ASSUME TypeOK, [Next]_vars PROVE TypeOK'
  OBVIOUS
<1>1. ASSUME NEW r \in Requests, RequestStep(r) PROVE TypeOK'
  BY <1>1, Cases, CreateType, CloneType, SaveType, RemoveType, CopyType, DeleteType, DeleteLostType,
     StoreType, GitAside, DefaultAside, SettingsAside, FailsAside
<1>2. CASE Crash
  BY <1>2, CrashType
<1>3. CASE UNCHANGED vars
  BY <1>3 DEF vars, TypeOK
<1> QED BY <1>1, <1>2, <1>3 DEF Next

\* Rows, directories, defaults, settings and requests keep their types, in particular a
\* request its step.
THEOREM WorkspaceTypes == Spec => []TypeOK
  BY TypeInit, TypeStep, PTL DEF Spec

-----------------------------------------------------------------------------
(* The inductive invariant.                                                *)

\* Rows that exist, or that a request has a copy of.
Seen == repos \cup {req[q].row : q \in Requests}

\* A row has one name for ever: a copy that is old names the path of its row.
SameName == \A x, y \in Seen : x.id = y.id => x.name = y.name

\* The id of a row that is to be created is not in use.
FreshIds == \A r \in Requests : req[r].pc = "idle" => \A x \in Seen : x.id # r

\* A path has one user at most: a row, or a request that makes or removes the directory.
OneUser ==
  /\ \A x, y \in repos : PathOf[x.name] = PathOf[y.name] => x = y \/ PathOf[x.name] \in spoiled
  /\ \A x \in repos, q \in Requests :
       req[q].pc \in Cleaning /\ Path(q) = PathOf[x.name] => Path(q) \in spoiled
  /\ \A p, q \in Requests :
       req[p].pc \in Cleaning /\ req[q].pc \in Cleaning /\ Path(p) = Path(q) =>
         p = q \/ Path(p) \in spoiled

\* The directory of a request is as far as the request is.
Made(q) == IF req[q].pc = "cloning" THEN "partial" ELSE "clone"
InStep ==
  \A q \in Requests :
    req[q].pc \in Cleaning => Path(q) \in spoiled \/ dirs[Path(q)] = Made(q)

\* The inductive form of NoLostDirectory: it tells half a clone from a whole one.
Claimed ==
  \A p \in Paths \ littered :
    /\ dirs[p] = "clone" =>
         \/ \E x \in repos : PathOf[x.name] = p
         \/ \E q \in Requests : req[q].pc \in Cleaning \ {"cloning"} /\ Path(q) = p
    /\ dirs[p] = "partial" =>
         \E q \in Requests : req[q].pc = "cloning" /\ Path(q) = p

DirectoryInv == SameName /\ FreshIds /\ OneUser /\ RowHasDirectory /\ InStep /\ Claimed

\* No row is seen that was not seen before, up to its profile.
LEMMA SeenKept ==
  ASSUME SameName, FreshIds,
         \A x \in Seen' : \E y \in Seen : y.id = x.id /\ y.name = x.name,
         \A r \in Requests : req'[r].pc = "idle" => req[r].pc = "idle"
  PROVE  SameName' /\ FreshIds'
  BY DEF SameName, FreshIds

\* At first there is one row, with its clone.
LEMMA DirectoryInit == Init => DirectoryInv
<1> SUFFICES ASSUME Init PROVE DirectoryInv
  OBVIOUS
<1>1. Seen = {FirstRow} /\ repos = {FirstRow}
  BY DEF Init, Seen, Idle
<1>2. \A q \in Requests : req[q].pc = "idle"
  BY DEF Init, Idle
<1>3. SameName /\ FreshIds
  BY <1>1, WorkspaceAssumption DEF SameName, FreshIds, FirstRow
<1>4. OneUser /\ InStep
  BY <1>1, <1>2 DEF OneUser, InStep, Cleaning
<1>5. dirs = [p \in Paths |-> IF p = PathOf[FirstName] THEN "clone" ELSE "none"]
  BY DEF Init
<1>6. PathOf[FirstName] \in Paths /\ FirstRow.name = FirstName
  BY WorkspaceAssumption DEF FirstRow
<1>7. RowHasDirectory
  BY <1>1, <1>5, <1>6 DEF RowHasDirectory
<1>8. Claimed
  BY <1>1, <1>5, <1>6 DEF Claimed
<1> QED BY <1>3, <1>4, <1>7, <1>8 DEF DirectoryInv

\* A step aside changes nothing the invariant is about.
LEMMA AsideKeeps ==
  ASSUME TypeOK, DirectoryInv, NEW r \in Requests, Aside(r)
  PROVE  DirectoryInv'
<1>1. PICK pc \in Steps \ (Cleaning \cup {"idle"}) : Moved(r, pc, req[r].row)
  BY DEF Aside
<1>2. /\ repos' = repos /\ dirs' = dirs /\ spoiled' = spoiled /\ littered' = littered
      /\ \A q \in Requests : req'[q].row = req[q].row /\ Path(q)' = Path(q)
      /\ \A q \in Requests : req[q].pc \in Cleaning \/ req'[q].pc \in Cleaning
                               => req'[q].pc = req[q].pc
      /\ \A q \in Requests : req'[q].pc = "idle" => req[q].pc = "idle"
  BY <1>1 DEF Moved, Aside, Path
<1>3. SameName' /\ FreshIds'
  <2>1. Seen' = Seen
    BY <1>2 DEF Seen
  <2> QED BY <1>2, <2>1, SeenKept DEF DirectoryInv
<1>4. OneUser'
  BY <1>2 DEF DirectoryInv, OneUser
<1>5. RowHasDirectory'
  BY <1>2 DEF DirectoryInv, RowHasDirectory
<1>6. InStep'
  BY <1>2 DEF DirectoryInv, InStep, Made, Cleaning
<1>7. Claimed'
  BY <1>2 DEF DirectoryInv, Claimed, Cleaning
<1> QED BY <1>3, <1>4, <1>5, <1>6, <1>7 DEF DirectoryInv

\* The end of the process leaves directories, all of them littered.
LEMMA CrashKeeps ==
  ASSUME TypeOK, DirectoryInv, Crash
  PROVE  DirectoryInv'
<1>1. /\ repos' = repos /\ dirs' = dirs /\ spoiled' = spoiled
      /\ littered' = littered \cup {Path(q) : q \in {p \in Requests : req[p].pc \in Cleaning}}
  BY DEF Crash
<1>2. \A q \in Requests : /\ req'[q].row = req[q].row /\ Path(q)' = Path(q)
                          /\ req'[q].pc \notin Cleaning
                          /\ req'[q].pc = "idle" => req[q].pc = "idle"
  BY CrashType DEF Cleaning, Path
<1>3. SameName' /\ FreshIds'
  <2>1. Seen' = Seen
    BY <1>1, <1>2 DEF Seen
  <2> QED BY <1>2, <2>1, SeenKept DEF DirectoryInv
<1>4. OneUser' /\ InStep'
  BY <1>1, <1>2 DEF DirectoryInv, OneUser, InStep
<1>5. RowHasDirectory'
  BY <1>1 DEF DirectoryInv, RowHasDirectory
<1>6. Claimed'
  <2>1. ASSUME NEW p \in Paths \ littered'
        PROVE  /\ p \notin littered
               /\ \A q \in Requests : req[q].pc \in Cleaning => Path(q) # p
    BY <1>1
  <2> QED BY <1>1, <2>1 DEF DirectoryInv, Claimed, Cleaning
<1> QED BY <1>3, <1>4, <1>5, <1>6 DEF DirectoryInv

\* A creation that begins has a new row, and no directory yet.
LEMMA CreateKeeps ==
  ASSUME TypeOK, DirectoryInv, NEW r \in Requests, NEW asked \in DOMAIN GitHub, Create(r, asked)
  PROVE  DirectoryInv'
<1>1. PICK n \in Names, pc \in {"clone", "done"} :
        Moved(r, pc, [id |-> r, name |-> n, profile |-> NoProfile])
  BY CreateType
<1>2. /\ req[r].pc = "idle"
      /\ repos' = repos /\ dirs' = dirs /\ spoiled' = spoiled /\ littered' = littered
  BY DEF Create, At, disk
<1>3. SameName' /\ FreshIds'
  <2>1. \A x \in Seen' : x \in Seen \/ x = [id |-> r, name |-> n, profile |-> NoProfile]
    BY <1>1, <1>2 DEF Seen, Moved
  <2>2. \A x \in Seen : x.id # r
    BY <1>2 DEF DirectoryInv, FreshIds
  <2>3. SameName'
    BY <2>1, <2>2 DEF SameName, DirectoryInv
  <2>4. FreshIds'
    BY <1>1, <2>1 DEF FreshIds, DirectoryInv, Moved
  <2> QED BY <2>3, <2>4
<1>4. \A q \in Requests : req[q].pc \in Cleaning \/ req'[q].pc \in Cleaning
                          => /\ req'[q].pc = req[q].pc /\ Path(q)' = Path(q)
  BY <1>1, <1>2 DEF Moved, Path, Cleaning
<1>5. OneUser'
  BY <1>2, <1>4 DEF DirectoryInv, OneUser
<1>6. RowHasDirectory'
  BY <1>2 DEF DirectoryInv, RowHasDirectory
<1>7. InStep'
  BY <1>2, <1>4 DEF DirectoryInv, InStep, Made
<1>8. Claimed'
  BY <1>2, <1>4 DEF DirectoryInv, Claimed, Cleaning
<1> QED BY <1>3, <1>5, <1>6, <1>7, <1>8 DEF DirectoryInv

\* A request that was idle has a copy of a row from now on.
LEMMA CopyKeeps ==
  ASSUME TypeOK, DirectoryInv, NEW r \in Requests, NEW x \in repos, NEW row \in Rows,
         row.id = x.id, row.name = x.name, req[r].pc = "idle",
         NEW pc \in {"delete", "git", "store"}, Moved(r, pc, row),
         UNCHANGED <<repos, dirs, spoiled, littered>>
  PROVE  DirectoryInv'
<1>1. SameName' /\ FreshIds'
  <2>1. \A y \in Seen' : y \in Seen \/ y = row
    BY DEF Seen, Moved
  <2>2. x \in Seen
    BY DEF Seen
  <2>3. \A q \in Requests : req'[q].pc = "idle" => req[q].pc = "idle"
    BY DEF Moved
  <2> QED BY <2>1, <2>2, <2>3, SeenKept DEF DirectoryInv
<1>2. \A q \in Requests : req[q].pc \in Cleaning \/ req'[q].pc \in Cleaning
                          => /\ req'[q].pc = req[q].pc /\ Path(q)' = Path(q)
  BY DEF Moved, Path, Cleaning
<1>3. OneUser'
  BY <1>2 DEF DirectoryInv, OneUser
<1>4. RowHasDirectory'
  BY DEF DirectoryInv, RowHasDirectory
<1>5. InStep'
  BY <1>2 DEF DirectoryInv, InStep, Made
<1>6. Claimed'
  BY <1>2 DEF DirectoryInv, Claimed, Cleaning
<1> QED BY <1>1, <1>3, <1>4, <1>5, <1>6 DEF DirectoryInv

\* Paths stay when a request goes on with its row, and so do the names if no row comes.
LEMMA Keeps ==
  ASSUME TypeOK, DirectoryInv, NEW r \in Requests, NEW pc \in Steps, pc # "idle",
         Moved(r, pc, req[r].row)
  PROVE  /\ \A q \in Requests : Path(q)' = Path(q) /\ (q # r => req'[q].pc = req[q].pc)
         /\ req'[r].pc = pc
         /\ (\A x \in repos' : \E y \in Seen : y.id = x.id /\ y.name = x.name)
              => SameName' /\ FreshIds'
<1>1. \A q \in Requests : req'[q].row = req[q].row /\ (q # r => req'[q].pc = req[q].pc)
  BY DEF Moved
<1>2. req'[r].pc = pc
  BY DEF Moved
<1>3. ASSUME \A x \in repos' : \E y \in Seen : y.id = x.id /\ y.name = x.name
      PROVE  SameName' /\ FreshIds'
  <2>1. \A x \in Seen' : \E y \in Seen : y.id = x.id /\ y.name = x.name
    BY <1>1, <1>3 DEF Seen
  <2>2. \A q \in Requests : req'[q].pc = "idle" => req[q].pc = "idle"
    BY <1>1, <1>2
  <2> QED BY <2>1, <2>2, SeenKept DEF DirectoryInv
<1> QED BY <1>1, <1>2, <1>3 DEF Path

\* git clone: who makes a directory is alone at its path.
LEMMA CloneKeeps ==
  ASSUME TypeOK, DirectoryInv, NEW r \in Requests, CloneBegins(r) \/ CloneEnds(r) \/ CloneFails(r)
  PROVE  DirectoryInv'
<1>0. repos' = repos /\ spoiled' = spoiled /\ littered \subseteq littered' /\ Path(r) \in Paths
  BY RequestType DEF CloneBegins, CloneEnds, CloneFails
<1>1. PICK pc \in {"cloning", "save", "done"} : Moved(r, pc, req[r].row)
  BY CloneType
<1>2. /\ \A q \in Requests : Path(q)' = Path(q) /\ (q # r => req'[q].pc = req[q].pc)
      /\ req'[r].pc = pc
      /\ SameName' /\ FreshIds'
  <2>1. pc \in Steps /\ pc # "idle"
    BY DEF Steps
  <2>2. \A x \in repos' : \E y \in Seen : y.id = x.id /\ y.name = x.name
    BY <1>0 DEF Seen
  <2> QED BY <1>1, <2>1, <2>2, Keeps
<1>3. CASE CloneBegins(r) /\ dirs[Path(r)] = "none"
  <2>1. pc = "cloning" /\ dirs' = [dirs EXCEPT ![Path(r)] = "partial"] /\ littered' = littered
    BY <1>2, <1>3, CloneType DEF CloneBegins, Moved
  <2>2. \A x \in repos : PathOf[x.name] = Path(r) => Path(r) \in spoiled
    BY <1>3 DEF DirectoryInv, RowHasDirectory
  <2>3. \A q \in Requests : req[q].pc \in Cleaning /\ Path(q) = Path(r) => Path(r) \in spoiled
    BY <1>3 DEF DirectoryInv, InStep, Made
  <2>4. OneUser'
    BY <1>0, <1>2, <2>1, <2>2, <2>3 DEF OneUser, DirectoryInv
  <2>5. RowHasDirectory'
    BY <1>0, <2>1, <2>2 DEF RowHasDirectory, DirectoryInv, TypeOK
  <2>6. InStep'
    BY <1>0, <1>2, <2>1, <2>3 DEF InStep, Made, DirectoryInv, TypeOK
  <2>7. Claimed'
    BY <1>0, <1>2, <1>3, <2>1 DEF Claimed, DirectoryInv, TypeOK, CloneBegins, At, Cleaning
  <2> QED BY <1>2, <2>4, <2>5, <2>6, <2>7 DEF DirectoryInv
<1>4. CASE CloneBegins(r) /\ dirs[Path(r)] # "none"
  <2>1. pc = "done" /\ dirs' = dirs /\ littered' = littered /\ req[r].pc = "clone"
    BY <1>2, <1>4, CloneType DEF CloneBegins, Moved, At
  <2>2. OneUser' /\ InStep'
    BY <1>0, <1>2, <2>1 DEF OneUser, InStep, Made, DirectoryInv, Cleaning
  <2>3. RowHasDirectory'
    BY <1>0, <2>1 DEF RowHasDirectory, DirectoryInv
  <2>4. Claimed'
    BY <1>0, <1>2, <2>1 DEF Claimed, DirectoryInv, Cleaning
  <2> QED BY <1>2, <2>2, <2>3, <2>4 DEF DirectoryInv
<1>5. CASE CloneEnds(r)
  <2>1. /\ req[r].pc = "cloning" /\ dirs[Path(r)] = "partial" /\ pc = "save"
        /\ dirs' = [dirs EXCEPT ![Path(r)] = "clone"] /\ littered' = littered
    BY <1>2, <1>5, CloneType DEF CloneEnds, Moved, At
  <2>2. OneUser'
    BY <1>0, <1>2, <2>1 DEF OneUser, DirectoryInv, Cleaning
  <2>3. RowHasDirectory'
    BY <1>0, <2>1 DEF RowHasDirectory, DirectoryInv, TypeOK
  <2>4. InStep'
    <3>1. ASSUME NEW q \in Requests, q # r, req[q].pc \in Cleaning
          PROVE  Path(q) = Path(r) => Path(q) \in spoiled
      BY <2>1, <3>1 DEF DirectoryInv, OneUser, Cleaning
    <3> QED BY <1>0, <1>2, <2>1, <3>1 DEF InStep, Made, DirectoryInv, TypeOK
  <2>5. Claimed'
    BY <1>0, <1>2, <2>1 DEF Claimed, DirectoryInv, TypeOK, Cleaning
  <2> QED BY <1>2, <2>2, <2>3, <2>4, <2>5 DEF DirectoryInv
<1>6. CASE CloneFails(r)
  <2>1. /\ req[r].pc = "cloning" /\ pc = "done"
        /\ \/ dirs[Path(r)] # "partial" /\ dirs' = dirs
           \/ dirs' = [dirs EXCEPT ![Path(r)] = "none"]
           \/ dirs' = dirs /\ littered' = littered \cup {Path(r)}
    BY <1>2, <1>6, CloneType DEF CloneFails, Moved, At
  <2>2. OneUser'
    BY <1>0, <1>2, <2>1 DEF OneUser, DirectoryInv, Cleaning
  <2>3. \A x \in repos : PathOf[x.name] = Path(r) => Path(r) \in spoiled
    BY <2>1 DEF DirectoryInv, OneUser, Cleaning
  <2>9. \A p \in Paths : p # Path(r) => dirs'[p] = dirs[p]
    BY <2>1 DEF TypeOK
  <2>4. RowHasDirectory'
    <3>1. \A x \in repos : PathOf[x.name] \in Paths
      BY WorkspaceAssumption DEF TypeOK, Rows
    <3> QED BY <1>0, <2>9, <2>3, <3>1 DEF RowHasDirectory, DirectoryInv
  <2>5. InStep'
    <3>2. \A q \in Requests : Path(q) \in Paths
      BY RequestType
    <3>1. ASSUME NEW q \in Requests, q # r, req[q].pc \in Cleaning
          PROVE  Path(q) = Path(r) => Path(q) \in spoiled
      BY <2>1, <3>1 DEF DirectoryInv, OneUser, Cleaning
    <3> QED BY <1>0, <1>2, <2>1, <2>9, <3>1, <3>2 DEF InStep, Made, DirectoryInv, Cleaning
  <2>6. Claimed'
    BY <1>0, <1>2, <2>1 DEF Claimed, DirectoryInv, TypeOK, Cleaning
  <2> QED BY <1>2, <2>2, <2>4, <2>5, <2>6 DEF DirectoryInv
<1> QED BY <1>3, <1>4, <1>5, <1>6

\* The row of a new repository is stored, at a path that was the request's alone, or the
\* request is to remove the directory; after a lost reply both.
LEMMA SaveKeeps ==
  ASSUME TypeOK, DirectoryInv, NEW r \in Requests, SaveNew(r) \/ SaveNewFails(r)
  PROVE  DirectoryInv'
<1> DEFINE row == req[r].row
<1>0. /\ dirs' = dirs /\ littered' = littered /\ req[r].pc = "save"
      /\ Path(r) \in Paths /\ PathOf[row.name] = Path(r)
  BY RequestType DEF SaveNew, SaveNewFails, disk, At, Path
<1>1. PICK pc \in {"remove", "done"} :
        /\ Moved(r, pc, row)
        /\ \/ pc = "remove" /\ repos' = repos /\ spoiled' = spoiled
           \/ pc = "done" /\ repos' = repos \cup {row} /\ spoiled' = spoiled
           \/ pc = "remove" /\ repos' = repos \cup {row} /\ spoiled' = spoiled \cup {Path(r)}
  <2>1. CASE SaveNew(r) /\ Taken(row.name)
    BY <2>1, SaveType DEF SaveNew
  <2>2. CASE SaveNew(r) /\ ~Taken(row.name)
    BY <2>2, SaveType DEF SaveNew
  <2>3. CASE SaveNewFails(r)
    BY <2>3, SaveType DEF SaveNewFails
  <2> QED BY <2>1, <2>2, <2>3
<1>2. /\ \A q \in Requests : Path(q)' = Path(q) /\ (q # r => req'[q].pc = req[q].pc)
      /\ req'[r].pc = pc
      /\ SameName' /\ FreshIds'
  <2>1. pc \in Steps /\ pc # "idle"
    BY DEF Steps
  <2>2. \A x \in repos' : \E y \in Seen : y.id = x.id /\ y.name = x.name
    BY <1>1 DEF Seen
  <2> QED BY <1>1, <2>1, <2>2, Keeps
<1> HIDE DEF row
<1>3. /\ \A x \in repos : PathOf[x.name] = Path(r) => Path(r) \in spoiled
      /\ \A q \in Requests : q # r /\ req[q].pc \in Cleaning /\ Path(q) = Path(r)
                               => Path(r) \in spoiled
      /\ Path(r) \in spoiled \/ dirs[Path(r)] = "clone"
  BY <1>0 DEF DirectoryInv, OneUser, InStep, Made, Cleaning
<1>4. CASE pc = "remove" /\ repos' = repos /\ spoiled' = spoiled
  <2>1. OneUser'
    BY <1>0, <1>2, <1>4 DEF OneUser, DirectoryInv, Cleaning
  <2>2. RowHasDirectory'
    BY <1>0, <1>4 DEF RowHasDirectory, DirectoryInv
  <2>3. InStep'
    BY <1>0, <1>2, <1>4 DEF InStep, Made, DirectoryInv, Cleaning
  <2>4. Claimed'
    BY <1>0, <1>2, <1>4 DEF Claimed, DirectoryInv, Cleaning
  <2> QED BY <1>2, <2>1, <2>2, <2>3, <2>4 DEF DirectoryInv
<1>5. CASE pc = "done" /\ repos' = repos \cup {row} /\ spoiled' = spoiled
  <2>1. OneUser'
    BY <1>0, <1>2, <1>3, <1>5 DEF OneUser, DirectoryInv, Cleaning
  <2>2. RowHasDirectory'
    BY <1>0, <1>3, <1>5 DEF RowHasDirectory, DirectoryInv
  <2>3. InStep'
    BY <1>0, <1>2, <1>5 DEF InStep, Made, DirectoryInv, Cleaning
  <2>4. Claimed'
    BY <1>0, <1>2, <1>5 DEF Claimed, DirectoryInv, Cleaning
  <2> QED BY <1>2, <2>1, <2>2, <2>3, <2>4 DEF DirectoryInv
<1>6. CASE pc = "remove" /\ repos' = repos \cup {row} /\ spoiled' = spoiled \cup {Path(r)}
  <2>1. OneUser'
    BY <1>0, <1>2, <1>6 DEF OneUser, DirectoryInv, Cleaning
  <2>2. RowHasDirectory'
    BY <1>0, <1>6 DEF RowHasDirectory, DirectoryInv
  <2>3. InStep'
    BY <1>0, <1>2, <1>6 DEF InStep, Made, DirectoryInv, Cleaning
  <2>4. Claimed'
    BY <1>0, <1>2, <1>6 DEF Claimed, DirectoryInv, Cleaning
  <2> QED BY <1>2, <2>1, <2>2, <2>3, <2>4 DEF DirectoryInv
<1> QED BY <1>1, <1>4, <1>5, <1>6

\* A directory is removed by the only user of its path.
LEMMA RemoveKeeps ==
  ASSUME TypeOK, DirectoryInv, NEW r \in Requests, RemoveQuietly(r) \/ RemoveClone(r)
  PROVE  DirectoryInv'
<1>0. repos' = repos /\ spoiled' = spoiled /\ Path(r) \in Paths /\ req[r].pc \in {"remove", "rm"}
  BY RequestType DEF RemoveQuietly, RemoveClone, Remove, At
<1>1. \/ dirs' = [dirs EXCEPT ![Path(r)] = "none"] /\ littered' = littered
      \/ dirs' = dirs /\ littered' = littered \cup {Path(r)}
  BY DEF RemoveQuietly, RemoveClone, Remove
<1>2. /\ \A q \in Requests : Path(q)' = Path(q) /\ (q # r => req'[q].pc = req[q].pc)
      /\ req'[r].pc = "done"
      /\ SameName' /\ FreshIds'
  <2>1. Moved(r, "done", req[r].row) /\ "done" \in Steps
    BY RemoveType DEF Steps
  <2>2. \A x \in repos' : \E y \in Seen : y.id = x.id /\ y.name = x.name
    BY <1>0 DEF Seen
  <2> QED BY <2>1, <2>2, Keeps
<1>3. /\ \A x \in repos : PathOf[x.name] = Path(r) => Path(r) \in spoiled
      /\ \A q \in Requests : q # r /\ req[q].pc \in Cleaning /\ Path(q) = Path(r)
                               => Path(r) \in spoiled
  BY <1>0 DEF DirectoryInv, OneUser, Cleaning
<1>4. /\ \A p \in Paths : p # Path(r) => dirs'[p] = dirs[p]
      /\ dirs'[Path(r)] = "none" \/ Path(r) \in littered'
      /\ littered \subseteq littered'
      /\ \A p \in Paths : p # Path(r) /\ p \in littered' => p \in littered
  BY <1>0, <1>1 DEF TypeOK
<1>5. OneUser'
  BY <1>0, <1>2 DEF OneUser, DirectoryInv, Cleaning
<1>6. RowHasDirectory'
  <2>1. \A x \in repos : PathOf[x.name] \in Paths
    BY WorkspaceAssumption DEF TypeOK, Rows
  <2> QED BY <1>0, <1>3, <1>4, <2>1 DEF RowHasDirectory, DirectoryInv
<1>7. InStep'
  <2>1. \A q \in Requests : Path(q) \in Paths
    BY RequestType
  <2>2. ASSUME NEW q \in Requests, req'[q].pc \in Cleaning
        PROVE  Path(q) \in spoiled \/ (q # r /\ Path(q) # Path(r))
    BY <1>2, <1>3, <2>2 DEF Cleaning
  <2> QED BY <1>0, <1>2, <1>4, <2>1, <2>2 DEF InStep, Made, DirectoryInv, Cleaning
<1>8. Claimed'
  BY <1>0, <1>2, <1>4 DEF Claimed, DirectoryInv, Cleaning
<1> QED BY <1>2, <1>5, <1>6, <1>7, <1>8 DEF DirectoryInv

\* A deletion that removes the row takes over its directory.
LEMMA DeleteKeeps ==
  ASSUME TypeOK, DirectoryInv, NEW r \in Requests, DeleteRow(r)
  PROVE  DirectoryInv'
<1>0. /\ dirs' = dirs /\ littered' = littered /\ spoiled' = spoiled
      /\ req[r].pc = "delete" /\ repos' \subseteq repos
  BY DEF DeleteRow, Deletes, disk, At
<1>1. PICK pc \in {"rm", "done"} :
        /\ Moved(r, pc, req[r].row)
        /\ pc = IF Affected(r) THEN "rm" ELSE "done"
  BY DeleteType
<1>2. /\ \A q \in Requests : Path(q)' = Path(q) /\ (q # r => req'[q].pc = req[q].pc)
      /\ req'[r].pc = pc
      /\ SameName' /\ FreshIds'
  <2>1. pc \in Steps /\ pc # "idle"
    BY DEF Steps
  <2>2. \A x \in repos' : \E y \in Seen : y.id = x.id /\ y.name = x.name
    BY <1>0 DEF Seen
  <2> QED BY <1>1, <2>1, <2>2, Keeps
<1>3. CASE Affected(r)
  <2>1. pc = "rm" /\ repos' = {x \in repos : x.id # req[r].row.id}
    BY <1>1, <1>3 DEF DeleteRow, Deletes
  <2>2. \A x \in repos : x.id = req[r].row.id => PathOf[x.name] = Path(r)
    BY DEF DirectoryInv, SameName, Seen, Path
  <2>3. PICK x \in repos : x.id = req[r].row.id
    BY <1>3 DEF Affected
  <2>4. /\ \A y \in repos' : PathOf[y.name] = Path(r) => Path(r) \in spoiled
        /\ \A q \in Requests : req[q].pc \in Cleaning /\ Path(q) = Path(r) => Path(r) \in spoiled
        /\ Path(r) \in spoiled \/ dirs[Path(r)] = "clone"
    BY <2>1, <2>2, <2>3 DEF DirectoryInv, OneUser, RowHasDirectory
  <2>5. OneUser'
    BY <1>0, <1>2, <2>1, <2>4 DEF OneUser, DirectoryInv, Cleaning
  <2>6. RowHasDirectory'
    BY <1>0 DEF RowHasDirectory, DirectoryInv
  <2>7. InStep'
    BY <1>0, <1>2, <2>1, <2>4 DEF InStep, Made, DirectoryInv, Cleaning
  <2>8. Claimed'
    BY <1>0, <1>2, <2>1, <2>2 DEF Claimed, DirectoryInv, Cleaning
  <2> QED BY <1>2, <2>5, <2>6, <2>7, <2>8 DEF DirectoryInv
<1>4. CASE ~Affected(r)
  <2>1. pc = "done" /\ repos' = repos
    BY <1>1, <1>4 DEF DeleteRow
  <2>2. OneUser'
    BY <1>0, <1>2, <2>1 DEF OneUser, DirectoryInv, Cleaning
  <2>3. RowHasDirectory'
    BY <1>0, <2>1 DEF RowHasDirectory, DirectoryInv
  <2>4. InStep'
    BY <1>0, <1>2, <2>1 DEF InStep, Made, DirectoryInv, Cleaning
  <2>5. Claimed'
    BY <1>0, <1>2, <2>1 DEF Claimed, DirectoryInv, Cleaning
  <2> QED BY <1>2, <2>2, <2>3, <2>4, <2>5 DEF DirectoryInv
<1> QED BY <1>3, <1>4

\* The clone of a row that went with a lost reply is littered.
LEMMA DeleteLostKeeps ==
  ASSUME TypeOK, DirectoryInv, NEW r \in Requests, DeleteLost(r)
  PROVE  DirectoryInv'
<1>0. /\ dirs' = dirs /\ littered' = littered \cup {Path(r)} /\ spoiled' = spoiled
      /\ req[r].pc = "delete" /\ repos' = {x \in repos : x.id # req[r].row.id}
  BY DEF DeleteLost, Deletes, At
<1>1. Moved(r, "done", req[r].row)
  BY DeleteLostType
<1>2. /\ \A q \in Requests : Path(q)' = Path(q) /\ (q # r => req'[q].pc = req[q].pc)
      /\ req'[r].pc = "done"
      /\ SameName' /\ FreshIds'
  <2>1. "done" \in Steps
    BY DEF Steps
  <2>2. \A x \in repos' : \E y \in Seen : y.id = x.id /\ y.name = x.name
    BY <1>0 DEF Seen
  <2> QED BY <1>1, <2>1, <2>2, Keeps
<1>3. OneUser'
  BY <1>0, <1>2 DEF OneUser, DirectoryInv, Cleaning
<1>4. RowHasDirectory'
  BY <1>0 DEF RowHasDirectory, DirectoryInv
<1>5. InStep'
  BY <1>0, <1>2 DEF InStep, Made, DirectoryInv, Cleaning
<1>6. Claimed'
  <2>1. \A x \in repos : x.id = req[r].row.id => PathOf[x.name] = Path(r)
    BY DEF DirectoryInv, SameName, Seen, Path
  <2> QED BY <1>0, <1>2, <2>1 DEF Claimed, DirectoryInv, Cleaning
<1> QED BY <1>2, <1>3, <1>4, <1>5, <1>6 DEF DirectoryInv

\* A copy replaces its row, under the same name; where it comes back without a row, its
\* path is spoiled.
LEMMA StoreKeeps ==
  ASSUME TypeOK, DirectoryInv, NEW r \in Requests, Store(r)
  PROVE  DirectoryInv'
<1> DEFINE copy == req[r].row
           new(x) == IF x.id = copy.id THEN copy ELSE x
<1>0. /\ dirs' = dirs /\ littered' = littered /\ req[r].pc = "store"
      /\ copy \in Seen
      /\ \A x \in repos : new(x).id = x.id /\ new(x).name = x.name
  BY DEF Store, disk, At, Seen, DirectoryInv, SameName
<1>1. \/ repos' = {new(x) : x \in repos} /\ spoiled' = spoiled
      \/ repos' = repos /\ spoiled' = spoiled
      \/ repos' = repos \cup {copy} /\ spoiled' = spoiled \cup {PathOf[copy.name]}
  BY DEF Store
<1> HIDE DEF new
<1>2. /\ \A q \in Requests : Path(q)' = Path(q) /\ (q # r => req'[q].pc = req[q].pc)
      /\ req'[r].pc = "done"
      /\ SameName' /\ FreshIds'
  <2>1. Moved(r, "done", req[r].row) /\ "done" \in Steps
    BY StoreType DEF Steps
  <2>2. \A x \in repos' : \E y \in Seen : y.id = x.id /\ y.name = x.name
    BY <1>0, <1>1 DEF Seen
  <2> QED BY <2>1, <2>2, Keeps
<1> HIDE DEF copy
<1>3. CASE repos' = {new(x) : x \in repos} /\ spoiled' = spoiled
  <2>1. OneUser'
    <3>1. ASSUME NEW x \in repos', NEW y \in repos', PathOf[x.name] = PathOf[y.name]
          PROVE  x = y \/ PathOf[x.name] \in spoiled
      <4>1. PICK v \in repos, w \in repos : x = new(v) /\ y = new(w)
        BY <1>3
      <4>2. v = w \/ PathOf[v.name] \in spoiled
        BY <1>0, <3>1, <4>1 DEF DirectoryInv, OneUser
      <4> QED BY <1>0, <4>1, <4>2
    <3>2. ASSUME NEW x \in repos', NEW q \in Requests, req'[q].pc \in Cleaning,
                 Path(q) = PathOf[x.name]
          PROVE  Path(q) \in spoiled
      <4>1. PICK v \in repos : x = new(v)
        BY <1>3
      <4> QED BY <1>0, <1>2, <3>2, <4>1 DEF DirectoryInv, OneUser, Cleaning
    <3>3. \A p, q \in Requests :
            req'[p].pc \in Cleaning /\ req'[q].pc \in Cleaning /\ Path(p) = Path(q) =>
              p = q \/ Path(p) \in spoiled
      BY <1>0, <1>2 DEF DirectoryInv, OneUser, Cleaning
    <3> QED BY <1>2, <1>3, <3>1, <3>2, <3>3 DEF OneUser
  <2>2. RowHasDirectory'
    BY <1>0, <1>3 DEF RowHasDirectory, DirectoryInv
  <2>3. InStep'
    BY <1>0, <1>2, <1>3 DEF InStep, Made, DirectoryInv, Cleaning
  <2>4. Claimed'
    <3>1. \A x \in repos : \E y \in repos' : y.name = x.name
      BY <1>0, <1>3
    <3> QED BY <1>0, <1>2, <3>1 DEF Claimed, DirectoryInv, Cleaning
  <2> QED BY <1>2, <2>1, <2>2, <2>3, <2>4 DEF DirectoryInv
<1>4. CASE repos' = repos /\ spoiled' = spoiled
  <2>1. OneUser'
    BY <1>0, <1>2, <1>4 DEF OneUser, DirectoryInv, Cleaning
  <2>2. RowHasDirectory'
    BY <1>0, <1>4 DEF RowHasDirectory, DirectoryInv
  <2>3. InStep'
    BY <1>0, <1>2, <1>4 DEF InStep, Made, DirectoryInv, Cleaning
  <2>4. Claimed'
    BY <1>0, <1>2, <1>4 DEF Claimed, DirectoryInv, Cleaning
  <2> QED BY <1>2, <2>1, <2>2, <2>3, <2>4 DEF DirectoryInv
<1>5. CASE repos' = repos \cup {copy} /\ spoiled' = spoiled \cup {PathOf[copy.name]}
  <2>1. OneUser'
    BY <1>0, <1>2, <1>5 DEF OneUser, DirectoryInv, Cleaning
  <2>2. RowHasDirectory'
    BY <1>0, <1>5 DEF RowHasDirectory, DirectoryInv
  <2>3. InStep'
    BY <1>0, <1>2, <1>5 DEF InStep, Made, DirectoryInv, Cleaning
  <2>4. Claimed'
    BY <1>0, <1>2, <1>5 DEF Claimed, DirectoryInv, Cleaning
  <2> QED BY <1>2, <2>1, <2>2, <2>3, <2>4 DEF DirectoryInv
<1> QED BY <1>1, <1>3, <1>4, <1>5

-----------------------------------------------------------------------------
(* The theorems.                                                           *)

\* Every step of a request, and every other step, keeps the invariant.
LEMMA DirectoryStep == TypeOK /\ DirectoryInv /\ [Next]_vars => DirectoryInv'
<1> SUFFICES ASSUME TypeOK, DirectoryInv, [Next]_vars PROVE DirectoryInv'
  OBVIOUS
<1>1. ASSUME NEW r \in Requests, RequestStep(r) PROVE DirectoryInv'
  <2>1. CASE \E asked \in DOMAIN GitHub : Create(r, asked)
    BY <2>1, CreateKeeps
  <2>2. CASE CloneBegins(r) \/ CloneEnds(r) \/ CloneFails(r)
    BY <2>2, CloneKeeps
  <2>3. CASE SaveNew(r) \/ SaveNewFails(r)
    BY <2>3, SaveKeeps
  <2>4. CASE RemoveQuietly(r) \/ RemoveClone(r)
    BY <2>4, RemoveKeeps
  <2>5. ASSUME NEW x \in repos, NEW pc \in {"delete", "git"}, Read(r, x, pc)
        PROVE  DirectoryInv'
    <3>1. Moved(r, pc, x) /\ x \in Rows
      BY <2>5, CopyType DEF TypeOK
    <3>2. req[r].pc = "idle" /\ UNCHANGED <<repos, dirs, spoiled, littered>>
      BY <2>5 DEF Read, At, disk
    <3> QED BY <3>1, <3>2, CopyKeeps
  <2>6. ASSUME NEW x \in repos, NEW profile \in Profiles, SetProfile(r, x, profile)
        PROVE  DirectoryInv'
    <3> DEFINE row == [x EXCEPT !.profile = profile]
    <3>1. Moved(r, "store", row)
      BY <2>6, CopyType
    <3>2. row \in Rows /\ row.id = x.id /\ row.name = x.name
      BY DEF TypeOK, Rows
    <3>3. req[r].pc = "idle" /\ UNCHANGED <<repos, dirs, spoiled, littered>>
      BY <2>6 DEF SetProfile, At, disk
    <3> HIDE DEF row
    <3> QED BY <3>1, <3>2, <3>3, CopyKeeps
  <2>7. CASE DeleteRow(r) \/ DeleteLost(r) \/ Store(r)
    BY <2>7, DeleteKeeps, DeleteLostKeeps, StoreKeeps
  <2>8. CASE GitStep(r) \/ DefaultStep(r) \/ SettingsStep(r) \/ RequestFails(r)
    BY <2>8, GitAside, DefaultAside, SettingsAside, FailsAside, AsideKeeps
  <2> QED BY <1>1, <2>1, <2>2, <2>3, <2>4, <2>5, <2>6, <2>7, <2>8, Cases
<1>2. CASE Crash
  BY <1>2, CrashKeeps
<1>3. CASE UNCHANGED vars
  BY <1>3 DEF vars, DirectoryInv, SameName, FreshIds, Seen, OneUser, RowHasDirectory, InStep,
     Made, Claimed, Path
<1> QED BY <1>1, <1>2, <1>3 DEF Next

\* The inductive invariant holds in every state.
THEOREM WorkspaceInductive == Spec => []DirectoryInv
<1>1. Spec => []TypeOK
  BY WorkspaceTypes
<1> QED BY <1>1, DirectoryInit, DirectoryStep, PTL DEF Spec

\* Whatever the requests, their number and their order: a row has its clone, unless it was
\* stored after its directory was gone.
THEOREM RowHasDirectoryHolds == Spec => []RowHasDirectory
<1>1. DirectoryInv => RowHasDirectory
  BY DEF DirectoryInv
<1> QED BY <1>1, WorkspaceInductive, PTL

\* Whatever fails: a directory is left behind at no path but those whose clean-up a fault
\* prevented.
THEOREM NoLostDirectoryHolds == Spec => []NoLostDirectory
<1>1. TypeOK /\ DirectoryInv => NoLostDirectory
  BY DEF TypeOK, DirectoryInv, Claimed, NoLostDirectory, Cleaning
<1> QED BY <1>1, WorkspaceTypes, WorkspaceInductive, PTL

-----------------------------------------------------------------------------
(* Defaults and settings.                                                  *)

\* The steps of upsertForUser before its answer.
UpsertSteps == {"upsert", "insert", "update", "find"}

\* Only an upsert has the key of a default; the row a second UPDATE counts on is there, and
\* an upsert that looks for its default has stored it, unless it was disturbed.
KeyOfUpsert == \A r \in Requests : req[r].key # NoKey => req[r].pc \in UpsertSteps \cup {"done"}
StoredOrDisturbed ==
  \A r \in Requests : req[r].calm =>
    /\ At(r, "update") => Has(req[r].key)
    /\ At(r, "find") => req[r].stored
DefaultInv == KeyOfUpsert /\ StoredOrDisturbed /\ DefaultTakesEffect

\* What updateSettings is to save was accepted; of two updates none saves while the other
\* one does, and so the row is the one that was read again, unless they raced.
AtMostOne(S) == \A x, y \in S : x = y
FormsAreValid ==
  \A r \in Requests : AtMostOne(req[r].form) /\ \A y \in req[r].form : Valid(y)
OneWrites ==
  ~raced => /\ \A q, r \in Requests : At(q, "write") /\ At(r, "write") => q = r
            /\ \A r \in Requests : At(r, "write") => req[r].was = settings
SettingsInv == AtMostOne(settings) /\ FormsAreValid /\ OneWrites /\ SyncHasProvider

\* What most steps leave alone of a request, and of the other requests.
Untouched(q) == /\ req'[q].key = req[q].key /\ req'[q].form = req[q].form
            /\ req'[q].was = req[q].was /\ req'[q].stored = req[q].stored
Others(r) == \A q \in Requests \ {r} : req'[q] = req[q]
Fails(r) == req'[r].pc = "done" /\ req'[r].answer = "error"
Passes(r) == /\ req[r].pc \notin UpsertSteps \cup {"done"}
             /\ req'[r].pc \notin UpsertSteps \cup {"write"}

\* The steps that are neither about the row of a default nor about settings.
Passing(r) ==
  \/ \E asked \in DOMAIN GitHub : Create(r, asked)
  \/ CloneBegins(r) \/ CloneEnds(r) \/ CloneFails(r)
  \/ SaveNew(r) \/ SaveNewFails(r) \/ RemoveQuietly(r) \/ RemoveClone(r)
  \/ \E x \in repos, pc \in {"delete", "git"} : Read(r, x, pc)
  \/ \E x \in repos, profile \in Profiles : SetProfile(r, x, profile)
  \/ Store(r) \/ GitStep(r) \/ RequestFails(r) \/ \E d \in defaults : UnsetDefault(r, d)

\* Such a step.
LEMMA PassingStep ==
  ASSUME TypeOK, NEW r \in Requests, Passing(r)
  PROVE  /\ Untouched(r) /\ req'[r].calm = req[r].calm /\ Others(r)
         /\ Fails(r) \/ Passes(r)
         /\ UNCHANGED <<defaults, settings, raced>>
<1>0. req \in [Requests -> RequestState] /\ req[r] \in RequestState
  BY RequestType DEF TypeOK
<1>1. ASSUME NEW pc, Goes(r, pc) 
      PROVE  Untouched(r) /\ req'[r].calm = req[r].calm /\ Others(r) /\ req'[r].pc = pc
  BY <1>0, <1>1 DEF Goes, RequestState, Untouched, Others
<1>2. ASSUME NEW a, Answers(r, a) 
      PROVE  /\ Untouched(r) /\ req'[r].calm = req[r].calm /\ Others(r)
             /\ req'[r].pc = "done" /\ req'[r].answer = a
  BY <1>0, <1>2 DEF Answers, RequestState, Untouched, Others
<1>3. CASE \E asked \in DOMAIN GitHub : Create(r, asked)
  <2>0. PICK asked \in DOMAIN GitHub : Create(r, asked)
    BY <1>3
  <2>1. \E pc \in {"clone", "done"} : \E a, row :
          req' = [req EXCEPT ![r].pc = pc, ![r].answer = a, ![r].row = row]
    <3>1. \E n \in GetRepository(asked) :
            req' = [req EXCEPT ![r].pc = IF dirs[PathOf[n]] = "none" THEN "clone" ELSE "done",
                               ![r].answer = IF dirs[PathOf[n]] = "none" THEN "none" ELSE "error",
                               ![r].row = [id |-> r, name |-> n, profile |-> NoProfile]]
      BY <2>0, Zenon DEF Create
    <3> QED BY <3>1, Zenon
  <2>2. Untouched(r) /\ req'[r].calm = req[r].calm /\ Others(r) /\ req'[r].pc \in {"clone", "done"}
    BY <1>0, <2>1 DEF RequestState, Untouched, Others
  <2> QED BY <2>0, <2>2 DEF Create, Passes, UpsertSteps, At
<1>4. CASE CloneBegins(r) \/ CloneEnds(r) \/ CloneFails(r)
  BY <1>1, <1>2, <1>4 DEF CloneBegins, CloneEnds, CloneFails, Passes, Fails, UpsertSteps, At
<1>5. CASE SaveNew(r) \/ SaveNewFails(r)
  BY <1>1, <1>2, <1>5 DEF SaveNew, SaveNewFails, Passes, Fails, UpsertSteps, At
<1>6. CASE RemoveQuietly(r) \/ RemoveClone(r)
  BY <1>1, <1>2, <1>6 DEF RemoveQuietly, RemoveClone, Remove, Passes, Fails, UpsertSteps, At
<1>7. CASE \E x \in repos, pc \in {"delete", "git"} : Read(r, x, pc)
  <2>1. PICK x \in repos, pc \in {"delete", "git"} : Read(r, x, pc)
    BY <1>7
  <2>2. req' = [req EXCEPT ![r].pc = pc, ![r].row = x]
    BY <2>1 DEF Read
  <2>3. Untouched(r) /\ req'[r].calm = req[r].calm /\ Others(r) /\ req'[r].pc = pc
    BY <1>0, <2>2 DEF RequestState, Untouched, Others
  <2> QED BY <2>1, <2>3 DEF Read, Passes, UpsertSteps, At
<1>8. CASE \E x \in repos, profile \in Profiles : SetProfile(r, x, profile)
  <2>1. PICK x \in repos, profile \in Profiles : SetProfile(r, x, profile)
    BY <1>8
  <2>2. PICK copy : req' = [req EXCEPT ![r].pc = "store", ![r].row = copy]
    BY <2>1 DEF SetProfile
  <2>3. Untouched(r) /\ req'[r].calm = req[r].calm /\ Others(r) /\ req'[r].pc = "store"
    BY <1>0, <2>2 DEF RequestState, Untouched, Others
  <2> QED BY <2>1, <2>3 DEF SetProfile, Passes, UpsertSteps, At
<1>9. CASE Store(r) \/ GitStep(r)
  BY <1>1, <1>2, <1>9 DEF Store, GitStep, LookAtClone, Pull, Passes, Fails, UpsertSteps, At
<1>10. CASE RequestFails(r)
  BY <1>2, <1>10 DEF RequestFails, Fails
<1>11. CASE \E d \in defaults : UnsetDefault(r, d)
  <2>1. PICK d \in defaults : UnsetDefault(r, d)
    BY <1>11
  <2>2. PICK by : req' = [req EXCEPT ![r].pc = "erase", ![r].repo = by]
    BY <2>1 DEF UnsetDefault
  <2>3. Untouched(r) /\ req'[r].calm = req[r].calm /\ Others(r) /\ req'[r].pc = "erase"
    BY <1>0, <2>2 DEF RequestState, Untouched, Others
  <2> QED BY <2>1, <2>3 DEF UnsetDefault, Passes, UpsertSteps, At
<1> QED BY <1>3, <1>4, <1>5, <1>6, <1>7, <1>8, <1>9, <1>10, <1>11 DEF Passing

\* A step in which defaults are removed: whose key loses its default is disturbed.
LEMMA RemovingStep ==
  ASSUME TypeOK, NEW r \in Requests, DeleteRow(r) \/ DeleteLost(r) \/ EraseDefault(r)
  PROVE  /\ Passes(r)
         /\ \A q \in Requests :
              /\ Untouched(q) /\ (q # r => req'[q].pc = req[q].pc /\ req'[q].answer = req[q].answer)
              /\ req'[q].calm => req[q].calm /\ (Has(req[q].key) => \E d \in defaults' : d.key = req[q].key)
         /\ UNCHANGED <<settings, raced>>
<1>0. req \in [Requests -> RequestState] /\ req[r] \in RequestState
  BY RequestType DEF TypeOK
<1> DEFINE R == {q \in Requests : \E d \in defaults \ defaults' : d.key = req[q].key}
<1>2. ASSUME NEW q \in Requests
      PROVE  LET y == Disturbed(R)[q]
             IN /\ y.key = req[q].key /\ y.form = req[q].form /\ y.was = req[q].was
                /\ y.stored = req[q].stored /\ y.pc = req[q].pc /\ y.answer = req[q].answer
                /\ y.calm => req[q].calm /\ q \notin R
  <2>1. Disturbed(R)[q] = [req[q] EXCEPT !.calm = req[q].calm /\ q \notin R]
    BY DEF Disturbed
  <2> HIDE DEF R
  <2>2. \A b \in BOOLEAN : LET y == [req[q] EXCEPT !.calm = b]
             IN /\ y.key = req[q].key /\ y.form = req[q].form /\ y.was = req[q].was
                /\ y.stored = req[q].stored /\ y.pc = req[q].pc /\ y.answer = req[q].answer
                /\ y.calm = b
    BY <1>0 DEF RequestState
  <2>3. (req[q].calm /\ q \notin R) \in BOOLEAN
    OBVIOUS
  <2>4. Disturbed(R)[q].calm = (req[q].calm /\ q \notin R)
    BY <2>1, <2>2, <2>3
  <2> QED BY <2>1, <2>2, <2>3, <2>4
<1>3. \A q \in Requests : q \notin R => (Has(req[q].key) => \E d \in defaults' : d.key = req[q].key)
  BY DEF Has
<1>4. CASE DeleteRow(r) /\ Affected(r)
  <2>1. req' = [Disturbed(R) EXCEPT ![r].pc = "rm"]
    BY <1>4 DEF DeleteRow, Bereft
  <2>2. Disturbed(R) \in [Requests -> RequestState]
    BY DisturbedType
  <2> HIDE DEF R
  <2>3. \A q \in Requests :
          /\ req'[q].key = Disturbed(R)[q].key /\ req'[q].form = Disturbed(R)[q].form
          /\ req'[q].was = Disturbed(R)[q].was /\ req'[q].stored = Disturbed(R)[q].stored
          /\ req'[q].calm = Disturbed(R)[q].calm
          /\ q # r => req'[q].pc = Disturbed(R)[q].pc /\ req'[q].answer = Disturbed(R)[q].answer
    BY <2>1, <2>2 DEF RequestState
  <2>4. req'[r].pc = "rm"
    BY <2>1, <2>2 DEF RequestState
  <2>5. \A q \in Requests :
          /\ Untouched(q) /\ (q # r => req'[q].pc = req[q].pc /\ req'[q].answer = req[q].answer)
          /\ req'[q].calm => req[q].calm /\ q \notin R
    BY <1>2, <2>3 DEF Untouched
  <2>6. Passes(r) /\ UNCHANGED <<settings, raced>>
    BY <1>4, <2>4 DEF DeleteRow, Passes, UpsertSteps, At
  <2> QED BY <1>3, <2>5, <2>6 DEF Has
<1>5. CASE DeleteRow(r) /\ ~Affected(r)
  <2>1. Answers(r, "error") /\ UNCHANGED defaults /\ UNCHANGED <<settings, raced>> /\ At(r, "delete")
    BY <1>5 DEF DeleteRow
  <2>2. \A q \in Requests :
          /\ Untouched(q) /\ (q # r => req'[q].pc = req[q].pc /\ req'[q].answer = req[q].answer)
          /\ req'[q].calm = req[q].calm
    BY <1>0, <2>1 DEF Answers, RequestState, Untouched
  <2>3. req'[r].pc = "done"
    BY <1>0, <2>1 DEF Answers, RequestState
  <2> QED BY <2>1, <2>2, <2>3 DEF Has, Passes, UpsertSteps, At
<1>6. CASE EraseDefault(r)
  <2>1. req' = [Disturbed(R) EXCEPT ![r].pc = "done", ![r].answer = "ok"]
    BY <1>6 DEF EraseDefault, Bereft
  <2>2. Disturbed(R) \in [Requests -> RequestState]
    BY DisturbedType
  <2> HIDE DEF R
  <2>3. \A q \in Requests :
          /\ req'[q].key = Disturbed(R)[q].key /\ req'[q].form = Disturbed(R)[q].form
          /\ req'[q].was = Disturbed(R)[q].was /\ req'[q].stored = Disturbed(R)[q].stored
          /\ req'[q].calm = Disturbed(R)[q].calm
          /\ q # r => req'[q].pc = Disturbed(R)[q].pc /\ req'[q].answer = Disturbed(R)[q].answer
    BY <2>1, <2>2 DEF RequestState
  <2>4. req'[r].pc = "done"
    BY <2>1, <2>2 DEF RequestState
  <2>5. \A q \in Requests :
          /\ Untouched(q) /\ (q # r => req'[q].pc = req[q].pc /\ req'[q].answer = req[q].answer)
          /\ req'[q].calm => req[q].calm /\ q \notin R
    BY <1>2, <2>3 DEF Untouched
  <2>6. Passes(r) /\ UNCHANGED <<settings, raced>>
    BY <1>6, <2>4 DEF EraseDefault, Passes, UpsertSteps, At
  <2> QED BY <1>3, <2>5, <2>6 DEF Has
<1>7. CASE DeleteLost(r)
  <2>1. req' = [Disturbed(R) EXCEPT ![r].pc = "done", ![r].answer = "error"]
    BY <1>7 DEF DeleteLost, Bereft
  <2>2. Disturbed(R) \in [Requests -> RequestState]
    BY DisturbedType
  <2> HIDE DEF R
  <2>3. \A q \in Requests :
          /\ req'[q].key = Disturbed(R)[q].key /\ req'[q].form = Disturbed(R)[q].form
          /\ req'[q].was = Disturbed(R)[q].was /\ req'[q].stored = Disturbed(R)[q].stored
          /\ req'[q].calm = Disturbed(R)[q].calm
          /\ q # r => req'[q].pc = Disturbed(R)[q].pc /\ req'[q].answer = Disturbed(R)[q].answer
    BY <2>1, <2>2 DEF RequestState
  <2>4. req'[r].pc = "done"
    BY <2>1, <2>2 DEF RequestState
  <2>5. \A q \in Requests :
          /\ Untouched(q) /\ (q # r => req'[q].pc = req[q].pc /\ req'[q].answer = req[q].answer)
          /\ req'[q].calm => req[q].calm /\ q \notin R
    BY <1>2, <2>3 DEF Untouched
  <2>6. Passes(r) /\ UNCHANGED <<settings, raced>>
    BY <1>7, <2>4 DEF DeleteLost, Passes, UpsertSteps, At
  <2> QED BY <1>3, <2>5, <2>6 DEF Has
<1> QED BY <1>4, <1>5, <1>6, <1>7

\* The end of the process: the requests that are not over fail.
LEMMA CrashEnds ==
  ASSUME TypeOK, Crash
  PROVE  /\ \A q \in Requests : req'[q] = req[q] \/ (Untouched(q) /\ Fails(q))
         /\ UNCHANGED <<defaults, settings, raced>>
<1>1. ASSUME NEW q \in Requests PROVE req'[q] = req[q] \/ (Untouched(q) /\ Fails(q))
  <2>1. req'[q] = IF req[q].pc \in {"idle", "done"} THEN req[q]
                  ELSE [req[q] EXCEPT !.pc = "done", !.answer = "error"]
    BY DEF Crash
  <2> QED BY <2>1, RequestType DEF RequestState, Untouched, Fails
<1>2. UNCHANGED <<defaults, settings, raced>>
  BY Zenon DEF Crash
<1> QED BY <1>1, <1>2

\* An upsert of a default that is under way.
Upserting(r) ==
  \/ \E dto \in DefaultDtos, x \in repos : SetDefault(r, dto, x)
  \/ Upsert(r) \/ InsertDefault(r) \/ UpdateAgain(r) \/ FindDefault(r)

\* It removes no default, only adds the one it stores.
LEMMA UpsertStep ==
  ASSUME TypeOK, NEW r \in Requests, Upserting(r)
  PROVE  /\ Others(r) /\ UNCHANGED <<settings, raced>>
         /\ req'[r].form = req[r].form /\ req'[r].was = req[r].was
         /\ req'[r].calm = req[r].calm /\ req'[r].pc \in UpsertSteps \cup {"done"}
         /\ req'[r].pc = "update" => \E d \in defaults' : d.key = req'[r].key
         /\ req'[r].pc = "find" =>
              req'[r].stored \/ (At(r, "update") /\ ~Has(req[r].key))
         /\ req'[r].pc = "done" =>
              req'[r].answer = "error" \/ (At(r, "find") /\ req'[r].stored = req[r].stored)
         /\ \A k : Has(k) => \E d \in defaults' : d.key = k
<1>0. req \in [Requests -> RequestState] /\ req[r] \in RequestState
  BY RequestType DEF TypeOK
<1>1. ASSUME NEW pc, Goes(r, pc)
      PROVE  Untouched(r) /\ req'[r].calm = req[r].calm /\ Others(r) /\ req'[r].pc = pc
  BY <1>0, <1>1 DEF Goes, RequestState, Untouched, Others
<1>2. ASSUME NEW a, Answers(r, a)
      PROVE  /\ Untouched(r) /\ req'[r].calm = req[r].calm /\ Others(r)
             /\ req'[r].pc = "done" /\ req'[r].answer = a
  BY <1>0, <1>2 DEF Answers, RequestState, Untouched, Others
<1>3. ASSUME NEW pc, Stores(r, pc)
      PROVE  /\ Others(r) /\ req'[r].form = req[r].form /\ req'[r].was = req[r].was
             /\ req'[r].calm = req[r].calm /\ req'[r].pc = pc /\ req'[r].stored
             /\ \A k : Has(k) => \E d \in defaults' : d.key = k
  <2>1. req' = [req EXCEPT ![r].pc = pc, ![r].stored = TRUE]
    BY <1>3 DEF Stores
  <2>2. /\ Others(r) /\ req'[r].form = req[r].form /\ req'[r].was = req[r].was
        /\ req'[r].calm = req[r].calm /\ req'[r].pc = pc /\ req'[r].stored
    BY <1>0, <2>1 DEF RequestState, Others
  <2>3. PICK by : defaults' = {d \in defaults : d.key # req[r].key} \cup
                              {[key |-> req[r].key, repo |-> req[r].repo, by |-> by]}
    BY <1>3, Zenon DEF Stores
  <2>4. ASSUME NEW k, NEW d \in defaults, d.key = k PROVE \E c \in defaults' : c.key = k
    <3>1. CASE d.key = req[r].key
      <4> DEFINE c == [key |-> req[r].key, repo |-> req[r].repo, by |-> by]
      <4>1. c \in defaults' /\ c.key = k
        BY <2>3, <2>4, <3>1
      <4> QED BY <4>1
    <3>2. CASE d.key # req[r].key
      BY <2>3, <2>4, <3>2
    <3> QED BY <3>1, <3>2
  <2> QED BY <2>2, <2>4 DEF Has
<1>4. UNCHANGED defaults => \A k : Has(k) => \E d \in defaults' : d.key = k
  BY DEF Has
<1>5. CASE \E dto \in DefaultDtos, x \in repos : SetDefault(r, dto, x)
  <2>1. PICK dto \in DefaultDtos, x \in repos : SetDefault(r, dto, x)
    BY <1>5
  <2>2. PICK id : req' = [req EXCEPT ![r].pc = "upsert", ![r].key = dto, ![r].repo = id]
    BY <2>1 DEF SetDefault
  <2>3. /\ Others(r) /\ req'[r].form = req[r].form /\ req'[r].was = req[r].was
        /\ req'[r].calm = req[r].calm /\ req'[r].pc = "upsert"
    BY <1>0, <2>2 DEF RequestState, Others
  <2> QED BY <1>4, <2>1, <2>3 DEF SetDefault, UpsertSteps
<1>6. CASE Upsert(r)
  BY <1>1, <1>2, <1>3, <1>4, <1>6 DEF Upsert, Untouched, UpsertSteps
<1>7. CASE InsertDefault(r)
  <2>1. CASE Has(req[r].key)
    BY <1>1, <1>4, <1>7, <2>1 DEF InsertDefault, SecondUpdate, Untouched, UpsertSteps, Has
  <2>2. CASE ~Has(req[r].key)
    BY <1>2, <1>3, <1>4, <1>7, <2>2 DEF InsertDefault, Untouched, UpsertSteps
  <2> QED BY <2>1, <2>2
<1>8. CASE UpdateAgain(r)
  BY <1>1, <1>2, <1>3, <1>4, <1>8 DEF UpdateAgain, Untouched, UpsertSteps
<1>9. CASE FindDefault(r)
  BY <1>2, <1>4, <1>9 DEF FindDefault, Untouched, UpsertSteps
<1> QED BY <1>5, <1>6, <1>7, <1>8, <1>9 DEF Upserting

\* updateSettings looks at no default.
LEMMA SettingsStepFacts ==
  ASSUME TypeOK, NEW r \in Requests, SettingsStep(r)
  PROVE  /\ UNCHANGED defaults /\ Others(r)
         /\ req'[r].key = req[r].key /\ req'[r].calm = req[r].calm
         /\ req'[r].stored = req[r].stored
         /\ req[r].pc \notin UpsertSteps \cup {"done"} /\ req'[r].pc \notin UpsertSteps
<1>0. req \in [Requests -> RequestState] /\ req[r] \in RequestState
  BY RequestType DEF TypeOK
<1>2. ASSUME NEW a, Answers(r, a)
      PROVE  /\ Untouched(r) /\ req'[r].calm = req[r].calm /\ Others(r) /\ req'[r].pc = "done"
  BY <1>0, <1>2 DEF Answers, RequestState, Untouched, Others
<1>3. CASE \E u \in Updates : UpdateSettings(r, u)
  <2>1. \/ \E form : req' = [req EXCEPT ![r].pc = "reload", ![r].form = form]
        \/ Answers(r, "error")
    BY <1>3, Zenon DEF UpdateSettings
  <2>2. /\ Others(r) /\ req'[r].key = req[r].key /\ req'[r].calm = req[r].calm
        /\ req'[r].stored = req[r].stored /\ req'[r].pc \in {"reload", "done"}
    <3>1. CASE Answers(r, "error")
      BY <1>2, <3>1 DEF Untouched
    <3>2. CASE \E form : req' = [req EXCEPT ![r].pc = "reload", ![r].form = form]
      BY <1>0, <3>2 DEF RequestState, Others
    <3> QED BY <2>1, <3>1, <3>2
  <2> QED BY <1>3, <2>2 DEF UpdateSettings, At, UpsertSteps
<1>4. CASE Reload(r)
  <2>1. req' = [req EXCEPT ![r].pc = "write", ![r].was = settings]
    BY <1>4 DEF Reload
  <2>2. /\ Others(r) /\ req'[r].key = req[r].key /\ req'[r].calm = req[r].calm
        /\ req'[r].stored = req[r].stored /\ req'[r].pc = "write"
    BY <1>0, <2>1 DEF RequestState, Others
  <2> QED BY <1>4, <2>2 DEF Reload, At, UpsertSteps
<1>5. CASE WriteSettings(r)
  BY <1>2, <1>5 DEF WriteSettings, Untouched, At, UpsertSteps
<1> QED BY <1>3, <1>4, <1>5 DEF SettingsStep

\* Every step is of one of these kinds.
LEMMA Kinds ==
  ASSUME NEW r \in Requests, RequestStep(r)
  PROVE  Passing(r) \/ DeleteRow(r) \/ DeleteLost(r) \/ EraseDefault(r) \/ Upserting(r) \/ SettingsStep(r)
  BY Cases DEF Passing, Upserting, DefaultStep

\* What holds of the upserts is inductive.
LEMMA DefaultInductive == TypeOK /\ DefaultInv /\ [Next]_vars => DefaultInv'
<1> SUFFICES ASSUME TypeOK, DefaultInv, [Next]_vars PROVE DefaultInv'
  OBVIOUS
<1>0. ASSUME NEW q \in Requests
      PROVE  /\ req[q].key # NoKey => req[q].pc \in UpsertSteps \cup {"done"}
             /\ req[q].calm /\ req[q].pc = "update" => Has(req[q].key)
             /\ req[q].calm /\ req[q].pc = "find" => req[q].stored
             /\ req[q].pc = "done" /\ req[q].answer = "ok" /\ req[q].key # NoKey /\ req[q].calm =>
                  req[q].stored
  BY DEF DefaultInv, KeyOfUpsert, StoredOrDisturbed, DefaultTakesEffect, At
<1> DEFINE Now(q) ==
      /\ req'[q].key # NoKey => req'[q].pc \in UpsertSteps \cup {"done"}
      /\ req'[q].calm /\ req'[q].pc = "update" => \E d \in defaults' : d.key = req'[q].key
      /\ req'[q].calm /\ req'[q].pc = "find" => req'[q].stored
      /\ req'[q].pc = "done" /\ req'[q].answer = "ok" /\ req'[q].key # NoKey /\ req'[q].calm =>
           req'[q].stored
<1>1. SUFFICES \A q \in Requests : Now(q)
  BY DEF DefaultInv, KeyOfUpsert, StoredOrDisturbed, DefaultTakesEffect, At, Has
<1>2. ASSUME NEW r \in Requests, RequestStep(r) PROVE \A q \in Requests : Now(q)
  <2>1. CASE Passing(r)
    BY <1>0, <2>1, PassingStep DEF Untouched, Others, Fails, Passes, UpsertSteps, Has
  <2>2. CASE DeleteRow(r) \/ DeleteLost(r) \/ EraseDefault(r)
    <3>1. Passes(r) /\ Untouched(r)
      BY <2>2, RemovingStep
    <3>2. Now(r)
      BY <1>0, <3>1 DEF Untouched, Passes, UpsertSteps
    <3>3. ASSUME NEW q \in Requests \ {r} PROVE Now(q)
      <4>1. /\ Untouched(q) /\ req'[q].pc = req[q].pc /\ req'[q].answer = req[q].answer
            /\ req'[q].calm => req[q].calm /\ (Has(req[q].key) => \E d \in defaults' : d.key = req[q].key)
        BY <2>2, <3>3, RemovingStep
      <4> QED BY <1>0, <4>1 DEF Untouched
    <3> QED BY <3>2, <3>3
  <2>3. CASE Upserting(r)
    <3>1. \A q \in Requests \ {r} : Now(q)
      BY <1>0, <2>3, UpsertStep DEF Others
    <3>2. Now(r)
      BY <1>0, <2>3, UpsertStep DEF At, UpsertSteps
    <3> QED BY <3>1, <3>2
  <2>4. CASE SettingsStep(r)
    BY <1>0, <2>4, SettingsStepFacts DEF Others, UpsertSteps, Has
  <2> QED BY <1>2, <2>1, <2>2, <2>3, <2>4, Kinds
<1>3. CASE Crash
  BY <1>0, <1>3, CrashEnds DEF Untouched, Fails, Has
<1>4. CASE UNCHANGED vars
  BY <1>0, <1>4 DEF vars, Has
<1> QED BY <1>2, <1>3, <1>4 DEF Next

\* An upsert of a default that is answered with success has stored its repository, unless
\* a deletion of the default interfered, however many requests insert, update and delete the
\* same row, and on either database.
THEOREM DefaultTakesEffectHolds == Spec => []DefaultTakesEffect
<1>1. Init => DefaultInv
  BY DEF Init, Idle, DefaultInv, KeyOfUpsert, StoredOrDisturbed, DefaultTakesEffect, At
<1> QED BY <1>1, DefaultInductive, WorkspaceTypes, PTL DEF Spec, DefaultInv

-----------------------------------------------------------------------------
(* Settings.                                                               *)

\* A step that is not about settings.
LEMMA SettingsKept ==
  ASSUME TypeOK, NEW r \in Requests,
         Passing(r) \/ DeleteRow(r) \/ DeleteLost(r) \/ EraseDefault(r) \/ Upserting(r)
  PROVE  /\ UNCHANGED <<settings, raced>>
         /\ \A q \in Requests : /\ req'[q].form = req[q].form /\ req'[q].was = req[q].was
                                /\ req'[q].pc = "write" => req[q].pc = "write"
<1>1. CASE Passing(r)
  BY <1>1, PassingStep DEF Untouched, Others, Fails, Passes
<1>2. CASE DeleteRow(r) \/ DeleteLost(r) \/ EraseDefault(r)
  <2>1. Passes(r) /\ UNCHANGED <<settings, raced>>
    BY <1>2, RemovingStep
  <2>2. \A q \in Requests : Untouched(q) /\ (q # r => req'[q].pc = req[q].pc)
    BY <1>2, RemovingStep
  <2> QED BY <2>1, <2>2 DEF Untouched, Passes
<1>3. CASE Upserting(r)
  BY <1>3, UpsertStep DEF Others, UpsertSteps
<1> QED BY <1>1, <1>2, <1>3

\* A step of updateSettings: what is to be saved, what was read again, and what is written.
LEMMA SettingsMoves ==
  ASSUME TypeOK, NEW r \in Requests
  PROVE  /\ \A u \in Updates : UpdateSettings(r, u) =>
              /\ UNCHANGED <<settings, raced>> /\ Others(r) /\ req'[r].pc # "write"
              /\ \/ req'[r].form = req[r].form
                 \/ \E y : req'[r].form = {y} /\ Valid(y)
         /\ Reload(r) =>
              /\ UNCHANGED settings /\ Others(r) /\ req'[r].form = req[r].form
              /\ req'[r].was = settings
              /\ ~raced' => ~raced /\ \A q \in Requests : ~At(q, "write")
         /\ WriteSettings(r) =>
              /\ Others(r) /\ req'[r].form = req[r].form /\ req'[r].pc # "write"
              /\ UNCHANGED raced
<1>0. req \in [Requests -> RequestState] /\ req[r] \in RequestState
  BY RequestType DEF TypeOK
<1>1. ASSUME NEW a, Answers(r, a)
      PROVE  Others(r) /\ req'[r].pc = "done" /\ req'[r].form = req[r].form
  BY <1>0, <1>1 DEF Answers, RequestState, Others
<1>2. ASSUME NEW u \in Updates, UpdateSettings(r, u)
      PROVE  /\ UNCHANGED <<settings, raced>> /\ Others(r) /\ req'[r].pc # "write"
             /\ \/ req'[r].form = req[r].form
                \/ \E y : req'[r].form = {y} /\ Valid(y)
  <2>1. \/ \E y : Valid(y) /\ req' = [req EXCEPT ![r].pc = "reload", ![r].form = {y}]
        \/ Answers(r, "error")
    BY <1>2, Zenon DEF UpdateSettings, Accepts
  <2>2. CASE \E y : Valid(y) /\ req' = [req EXCEPT ![r].pc = "reload", ![r].form = {y}]
    <3>1. PICK y : Valid(y) /\ req' = [req EXCEPT ![r].pc = "reload", ![r].form = {y}]
      BY <2>2
    <3>2. Others(r) /\ req'[r].pc = "reload" /\ req'[r].form = {y}
      BY <1>0, <3>1 DEF RequestState, Others
    <3> QED BY <1>2, <3>1, <3>2 DEF UpdateSettings
  <2> QED BY <1>1, <1>2, <2>1, <2>2 DEF UpdateSettings
<1>3. ASSUME Reload(r)
      PROVE  /\ UNCHANGED settings /\ Others(r) /\ req'[r].form = req[r].form
             /\ req'[r].was = settings
             /\ ~raced' => ~raced /\ \A q \in Requests : ~At(q, "write")
  <2>1. req' = [req EXCEPT ![r].pc = "write", ![r].was = settings]
    BY <1>3 DEF Reload
  <2>2. Others(r) /\ req'[r].form = req[r].form /\ req'[r].was = settings
    BY <1>0, <2>1 DEF RequestState, Others
  <2>3. UNCHANGED settings /\ raced' = (raced \/ \E q \in Requests : At(q, "write"))
    BY <1>3 DEF Reload
  <2>4. ~raced' => ~raced /\ \A q \in Requests : ~At(q, "write")
    BY <2>3
  <2> QED BY <2>2, <2>3, <2>4
<1>4. ASSUME WriteSettings(r)
      PROVE  /\ Others(r) /\ req'[r].form = req[r].form /\ req'[r].pc # "write"
             /\ UNCHANGED raced
  BY <1>1, <1>4 DEF WriteSettings
<1> QED BY <1>2, <1>3, <1>4

\* What is written is what the user's update said, when the row is as it was read again.
LEMMA WrittenIsForm ==
  ASSUME TypeOK, NEW r \in Requests, WriteSettings(r), AtMostOne(settings), AtMostOne(req[r].form)
  PROVE  /\ AtMostOne(settings')
         /\ req[r].was = settings => settings' = settings \/ settings' \subseteq req[r].form
<1> DEFINE form == req[r].form
           was == req[r].was
           differ == {f \in Fields : \A x \in was : \A y \in form : x[f] # y[f]}
           Saved(s, y) == [f \in Fields |-> IF f \in differ THEN y[f] ELSE s[f]]
<1>0. form \subseteq SettingsRows /\ settings \subseteq SettingsRows
  BY RequestType DEF RequestState, TypeOK
<1>1. \/ settings' = settings
      \/ was = {} /\ settings' = form
      \/ was # {} /\ settings' = {Saved(s, y) : s \in settings, y \in form}
  BY DEF WriteSettings
<1>2. AtMostOne({Saved(s, y) : s \in settings, y \in form})
  <2> HIDE DEF differ, Saved, form
  <2>1. \A s, t \in settings : s = t
    BY DEF AtMostOne
  <2>2. \A x, y \in form : x = y
    BY DEF AtMostOne, form
  <2>3. ASSUME NEW a \in {Saved(s, y) : s \in settings, y \in form},
               NEW b \in {Saved(s, y) : s \in settings, y \in form}
        PROVE  a = b
    <3>1. PICK s \in settings, y \in form : a = Saved(s, y)
      OBVIOUS
    <3>2. PICK t \in settings, z \in form : b = Saved(t, z)
      OBVIOUS
    <3>3. s = t /\ y = z
      BY <2>1, <2>2
    <3> QED BY <3>1, <3>2, <3>3
  <2> QED BY <2>3 DEF AtMostOne
<1>3. ASSUME was = settings, NEW s \in settings, NEW y \in form PROVE Saved(s, y) = y
  <2>1. \A x \in was : x = s
    BY <1>3 DEF AtMostOne
  <2>2. \A x \in form : x = y
    BY DEF AtMostOne
  <2>3. \A f \in Fields : f \notin differ => s[f] = y[f]
    BY <1>3, <2>1, <2>2
  <2>4. y \in SettingsRows
    BY <1>0
  <2> HIDE DEF differ, form, was
  <2> QED BY <2>3, <2>4 DEF SettingsRows
<1> DEFINE saved == {Saved(s, y) : s \in settings, y \in form}
<1>4. was = settings => saved \subseteq form
  BY <1>3
<1>5. /\ AtMostOne(saved)
      /\ settings' = settings \/ settings' = form \/ settings' = saved
  BY <1>1, <1>2
<1> HIDE DEF saved
<1> QED BY <1>4, <1>5

\* What holds of the settings is inductive.
LEMMA SettingsInductive == TypeOK /\ SettingsInv /\ [Next]_vars => SettingsInv'
<1> SUFFICES ASSUME TypeOK, SettingsInv, [Next]_vars PROVE SettingsInv'
  OBVIOUS
<1>1. AtMostOne(settings) /\ FormsAreValid /\ OneWrites /\ SyncHasProvider
  BY DEF SettingsInv
<1>2. ASSUME /\ UNCHANGED <<settings, raced>>
             /\ \A q \in Requests : /\ req'[q].form = req[q].form /\ req'[q].was = req[q].was
                                    /\ req'[q].pc = "write" => req[q].pc = "write"
      PROVE  SettingsInv'
  BY <1>1, <1>2 DEF SettingsInv, AtMostOne, FormsAreValid, OneWrites, SyncHasProvider, At
<1>3. ASSUME NEW r \in Requests, NEW u \in Updates, UpdateSettings(r, u) PROVE SettingsInv'
  <2>1. /\ UNCHANGED <<settings, raced>> /\ Others(r) /\ req'[r].pc # "write"
        /\ \/ req'[r].form = req[r].form
           \/ \E y : req'[r].form = {y} /\ Valid(y)
    BY <1>3, SettingsMoves
  <2>2. AtMostOne(req'[r].form) /\ \A y \in req'[r].form : Valid(y)
    BY <1>1, <2>1 DEF FormsAreValid, AtMostOne
  <2>3. FormsAreValid'
    BY <1>1, <2>1, <2>2 DEF FormsAreValid, AtMostOne, Others
  <2>4. OneWrites'
    BY <1>1, <2>1 DEF OneWrites, Others, At
  <2> QED BY <1>1, <2>1, <2>3, <2>4 DEF SettingsInv, AtMostOne, SyncHasProvider
<1>4. ASSUME NEW r \in Requests, Reload(r) PROVE SettingsInv'
  <2>1. /\ UNCHANGED settings /\ Others(r) /\ req'[r].form = req[r].form
        /\ req'[r].was = settings
        /\ ~raced' => ~raced /\ \A q \in Requests : ~At(q, "write")
    BY <1>4, SettingsMoves
  <2>2. FormsAreValid'
    BY <1>1, <2>1 DEF FormsAreValid, AtMostOne, Others
  <2>3. OneWrites'
    BY <1>1, <2>1 DEF OneWrites, Others, At
  <2> QED BY <1>1, <2>1, <2>2, <2>3 DEF SettingsInv, AtMostOne, SyncHasProvider
<1>5. ASSUME NEW r \in Requests, WriteSettings(r) PROVE SettingsInv'
  <2>1. /\ Others(r) /\ req'[r].form = req[r].form /\ req'[r].pc # "write" /\ UNCHANGED raced
    BY <1>5, SettingsMoves
  <2>2. At(r, "write") /\ AtMostOne(req[r].form)
    BY <1>1, <1>5 DEF WriteSettings, FormsAreValid
  <2>3. /\ AtMostOne(settings')
        /\ req[r].was = settings => settings' = settings \/ settings' \subseteq req[r].form
    BY <1>1, <1>5, <2>2, WrittenIsForm
  <2>4. FormsAreValid'
    BY <1>1, <2>1 DEF FormsAreValid, AtMostOne, Others
  <2>5. OneWrites'
    BY <1>1, <2>1, <2>2 DEF OneWrites, Others, At
  <2>6. SyncHasProvider'
    BY <1>1, <2>1, <2>2, <2>3 DEF OneWrites, SyncHasProvider, FormsAreValid
  <2>7. AtMostOne(settings)'
    BY <2>3 DEF AtMostOne
  <2> QED BY <2>4, <2>5, <2>6, <2>7 DEF SettingsInv
<1>6. ASSUME NEW r \in Requests, RequestStep(r) PROVE SettingsInv'
  BY <1>2, <1>3, <1>4, <1>5, <1>6, Kinds, SettingsKept DEF SettingsStep
<1>7. CASE Crash
  <2>1. UNCHANGED <<settings, raced>>
    BY <1>7, CrashEnds
  <2>2. \A q \in Requests : /\ req'[q].form = req[q].form /\ req'[q].was = req[q].was
                            /\ req'[q].pc = "write" => req[q].pc = "write"
    BY <1>7, CrashEnds DEF Untouched, Fails
  <2> QED BY <1>2, <2>1, <2>2
<1>8. CASE UNCHANGED vars
  BY <1>2, <1>8 DEF vars
<1> QED BY <1>6, <1>7, <1>8 DEF Next

\* Automatic synchronisation is never on without a provider, whatever the bodies of the
\* updates and however they overlap, unless two of them save at the same time.
THEOREM SyncHasProviderHolds == Spec => []SyncHasProvider
<1>1. Init => SettingsInv
  <2> SUFFICES ASSUME Init PROVE SettingsInv
    OBVIOUS
  <2>1. \A r \in Requests : req[r].pc = "idle" /\ req[r].form = {}
    BY DEF Init, Idle
  <2>2. \A row \in settings : row = [f \in Fields |-> f # "syncEnabled"]
    BY DEF Init
  <2>3. \A row \in settings : row["syncEnabled"] = FALSE
    BY <2>2 DEF Fields
  <2>4. FormsAreValid /\ OneWrites
    BY <2>1 DEF FormsAreValid, OneWrites, AtMostOne, At
  <2>5. SyncHasProvider /\ AtMostOne(settings)
    BY <2>2, <2>3 DEF SyncHasProvider, Valid, AtMostOne
  <2> QED BY <2>4, <2>5 DEF SettingsInv
<1> QED BY <1>1, SettingsInductive, WorkspaceTypes, PTL DEF Spec, SettingsInv
=============================================================================
