----------------------------- MODULE FeedProofs -----------------------------
(***************************************************************************)
(* Theorems about TaskSync and TaskFeed for any number of connections,     *)
(* scopes, tasks, runs, pages and changes.                                 *)
(***************************************************************************)
EXTENDS TaskFeed, TLAPS, FiniteSetTheorems

-----------------------------------------------------------------------------
(* Types.                                                                  *)

RunFields ==
  {"status", "by", "pc", "todo", "scopes", "page", "rest", "found", "changed", "work", "gone",
   "errors", "touched", "skipped", "calm", "cut"}

\* What a run collected of a connection, and what it is to evaluate.
FoundTypes(found) ==
  DOMAIN found \subseteq Tasks /\ \A t \in DOMAIN found : found[t].ver \in Versions /\ found[t].in # {}
WorkTypes(work) == DOMAIN work \subseteq Feed /\ \A f \in DOMAIN work : work[f] \in Versions

\* The types of a run, and what it has at hand at its steps.
RunTypes(run) ==
  /\ run = [k \in RunFields |-> run[k]]
  /\ run.status \in {"none", "completed", "failed"} \cup Active /\ run.pc \in Steps
  /\ run.todo \subseteq Conns /\ run.page \in Nat /\ run.page < MaxPages /\ run.rest \subseteq Tasks
  /\ FoundTypes(run.found) /\ run.changed \subseteq Feed \X Nat /\ WorkTypes(run.work)
  /\ run.gone \subseteq Feed
  /\ run.errors \in BOOLEAN /\ run.calm \in BOOLEAN /\ run.cut \in BOOLEAN
AtHand(run) ==
  /\ run.pc # "off" => run.status \in Active
  /\ run.status = "none" => run.changed = {} /\ run.gone = {}
  /\ run.pc = "begin" => run.changed = {} /\ run.gone = {}
  /\ run.pc \in {"fetch", "persist", "find", "failed"} => run.todo # {}
  /\ run.pc = "fetch" => run.scopes # {}
  /\ run.pc = "evaluate" => DOMAIN run.work # {}
ProperRun(run) == RunTypes(run) /\ AtHand(run)

SiteTypes ==
  /\ provider \in Providers /\ projects \subseteq Projects
  /\ remote \in [Tasks -> [ver : Versions, in : SUBSET Scopes]]
RowTypes ==
  /\ conns \subseteq Conns /\ wanted \subseteq Conns \ conns
  /\ clock \in Nat
  /\ DOMAIN rows \subseteq Feed
  /\ \A f \in DOMAIN rows : /\ f[1] \in conns /\ rows[f].ver \in Versions /\ rows[f].in # {}
                            /\ rows[f].id \in Nat /\ rows[f].at \in Nat
                            /\ rows[f].id <= rows[f].at /\ rows[f].at <= clock
DraftTypes == drafts \in [Feed -> 0..NoDraft]
RunsTypes == runs = [r \in Runs |-> runs[r]] /\ \A r \in Runs : ProperRun(runs[r])
RequestTypes ==
  asking \subseteq Askers /\ client \in Runs \cup {NoRun} /\ events \in 0..MaxEvents

\* The invariant of the types.
Typed == SiteTypes /\ RowTypes /\ DraftTypes /\ RunsTypes /\ RequestTypes

-----------------------------------------------------------------------------
(* Drafts.                                                                 *)

\* An undisturbed run is the only active one.
AloneIfCalm ==
  /\ \A q, r \in Runs : /\ runs[r].calm /\ runs[r].status \in Active /\ runs[q].status \in Active => q = r
  /\ \A r \in Runs : /\ runs[r].status \in Active /\ runs[r].pc = "off" => ~runs[r].calm
                     /\ runs[r].pc = "abort" => ~runs[r].calm

\* The draft of f that the rows and the rules call for.
Expected(f) == IF f \in DOMAIN rows /\ f[2] \in Drafting THEN rows[f].ver ELSE NoDraft

\* The run will come to the draft of f.
Pending(run, f) ==
  \/ /\ f \in DOMAIN rows
     /\ \/ run.pc = "find" /\ f[1] = Due(run) /\ f[2] \in DOMAIN run.found
        \/ /\ run.pc \in {"fetch", "persist", "find", "failed", "load"}
           /\ <<f, rows[f].id>> \in run.changed
        \/ run.pc = "evaluate" /\ f \in DOMAIN run.work
  \/ /\ f \in run.gone
     /\ run.pc \in {"fetch", "persist", "find", "failed", "load", "evaluate", "supersede"}

\* What an active run remembers of the rows is true.
Remembered(run) ==
  /\ run.gone \cap DOMAIN rows = {}
  /\ \A f \in run.gone : f[1] \in run.todo => run.pc = "find" /\ f[1] = Due(run)
  /\ run.pc = "evaluate" => \A f \in DOMAIN run.work : f \in DOMAIN rows /\ run.work[f] = rows[f].ver

AllCalm == \A r \in Runs : runs[r].calm
DraftInv ==
  /\ AloneIfCalm
  /\ AllCalm =>
       /\ \A r \in ActiveRuns : Remembered(runs[r])
       /\ \A f \in Feed : drafts[f] = Expected(f) \/ \E r \in ActiveRuns : Pending(runs[r], f)

-----------------------------------------------------------------------------
(* Snapshots.                                                              *)

\* No listing is cut: Jira has no more projects than searchProjects returns.
AllListed == "jira" \in Providers => \A S \in SUBSET Projects : Cardinality(S) <= ListLimit

Untouched(run) == Tasks \ run.touched
Gathered(run, t, s) == t \in DOMAIN run.found /\ s \in run.found[t].in
Awaited(run, t, s) ==
  run.pc = "fetch" /\ s \in run.scopes /\ (s = Scope(run) /\ run.page # 0 => t \in run.rest)

\* What a run has collected of connection c, for the tasks nobody touched: each of their
\* scopes is there, still to come or skipped, in the version there is, and nothing else is.
Snapshot(run, c) ==
  /\ \A t \in Untouched(run) : \A s \in remote[t].in \cap Covered(c) :
       Gathered(run, t, s) \/ Awaited(run, t, s) \/ <<c, s>> \in run.skipped
  /\ \A t \in Untouched(run) \cap DOMAIN run.found :
       run.found[t].ver = remote[t].ver /\ run.found[t].in \subseteq remote[t].in \cap Covered(c)
  /\ \A t \in Untouched(run) : remote[t].in \cap run.scopes \subseteq Covered(c)
Snap(r) == runs[r].pc \in {"fetch", "persist"} => Snapshot(runs[r], Due(runs[r]))
SnapInv == \A r \in Runs : Snap(r)

\* The rows of connection c are those of the tasks nobody touched.
Mirrored(run, c) ==
  \A t \in Untouched(run) :
    IF remote[t].in \cap Covered(c) # {}
      THEN /\ <<c, t>> \in DOMAIN rows
           /\ rows[<<c, t>>].ver = remote[t].ver
           /\ rows[<<c, t>>].in = remote[t].in \cap Covered(c)
      ELSE <<c, t>> \notin DOMAIN rows

\* The connections a calm run without errors has stored, and those it has still to store.
Ending == {"load", "evaluate", "supersede", "finish"}
ToCome(run, c) == c \in run.todo /\ ~(run.pc = "find" /\ c = Due(run))
Mirror(r) ==
  /\ runs[r].pc \in Ending => runs[r].todo = {}
  /\ runs[r].calm /\ runs[r].skipped = {} /\ ~runs[r].errors /\ runs[r].pc \in {"fetch", "persist", "find"} \cup Ending =>
       \A c \in conns : ToCome(runs[r], c) \/ Mirrored(runs[r], c)
MirrorInv == \A r \in Runs : Mirror(r)


-----------------------------------------------------------------------------
(* Runs.                                                                   *)

USE SyncAssumption

\* How a run goes on: with its next connection, or after the last one, or after its tasks.
Onward(run) ==
  /\ run.todo = {} =>
       /\ run.pc \in {"load", "supersede", "finish"}
       /\ run.pc # "load" => run.changed = {}
       /\ run.pc = "finish" => run.gone = {}
  /\ run.todo # {} =>
       /\ run.pc \in {"fetch", "persist", "failed"} /\ run.found = Empty /\ run.page = 0
       /\ IF ProjectMissing(ConfigOf[Due(run)]) THEN run.pc = "failed"
          ELSE /\ run.scopes = Listed(ConfigOf[Due(run)])
               /\ run.pc = IF run.scopes = {} THEN "persist" ELSE "fetch"
Further(run) ==
  /\ run.pc \in {"evaluate", "supersede", "finish"}
  /\ run.pc # "evaluate" => DOMAIN run.work = {}
  /\ run.pc = "finish" => run.gone = {}

\* A run that collects keeps its types.
LEMMA FetchingTypes ==
  ASSUME NEW run, RunTypes(run), NEW new, new = [k \in RunFields |-> new[k]],
         \A k \in RunFields \ {"pc", "scopes", "found", "page", "rest", "gone"} : new[k] = run[k],
         new.pc \in Steps, new.page \in Nat, new.page < MaxPages, new.rest \subseteq Tasks,
         FoundTypes(new.found), new.gone \subseteq Feed
  PROVE  RunTypes(new)
<1>1. /\ new.status = run.status /\ new.todo = run.todo /\ new.changed = run.changed
      /\ new.work = run.work /\ new.errors = run.errors
  BY DEF RunFields
<1>2. new.calm = run.calm /\ new.cut = run.cut
  BY DEF RunFields
<1> QED BY <1>1, <1>2 DEF RunTypes

\* A run that goes on after its connections, or after its tasks, is a proper one.
LEMMA AfterConnectionsProper ==
  ASSUME NEW run, RunTypes(run), run.status \in Active
  PROVE  /\ ProperRun(AfterConnections(run))
         /\ run.todo = {} => Onward(AfterConnections(run))
         /\ \A k \in RunFields \ {"pc"} : AfterConnections(run)[k] = run[k]
BY DEF RunTypes, AtHand, ProperRun, AfterConnections, RunFields, Steps, Active, Onward

LEMMA AfterTasksProper ==
  ASSUME NEW run, RunTypes(run), run.status \in Active
  PROVE  /\ ProperRun(AfterTasks(run))
         /\ Further(AfterTasks(run))
         /\ \A k \in RunFields \ {"pc"} : AfterTasks(run)[k] = run[k]
BY DEF RunTypes, AtHand, ProperRun, AfterTasks, RunFields, Steps, Active, Further

LEMMA NextConnectionProper ==
  ASSUME NEW run, RunTypes(run), run.status \in Active
  PROVE  /\ ProperRun(NextConnection(run))
         /\ Onward(NextConnection(run))
         /\ \A k \in RunFields \ {"pc", "scopes", "found", "page", "rest"} :
              NextConnection(run)[k] = run[k]
<1>1. CASE run.todo = {}
  BY <1>1, AfterConnectionsProper DEF NextConnection
<1>2. CASE run.todo # {}
  <2> DEFINE config == ConfigOf[Due(run)]
             listed == IF ProjectMissing(config) THEN {} ELSE Listed(config)
             next == [run EXCEPT !.scopes = listed, !.found = Empty, !.page = 0, !.rest = {},
                        !.pc = IF ProjectMissing(config) THEN "failed"
                               ELSE IF listed = {} THEN "persist" ELSE "fetch"]
  <2>1. NextConnection(run) = next
    BY <1>2 DEF NextConnection
  <2> HIDE DEF listed
  <2>2. /\ next = [k \in RunFields |-> next[k]]
        /\ next.scopes = listed /\ next.found = Empty /\ next.page = 0 /\ next.rest = {}
        /\ next.pc = IF ProjectMissing(config) THEN "failed"
                     ELSE IF listed = {} THEN "persist" ELSE "fetch"
        /\ \A k \in RunFields \ {"pc", "scopes", "found", "page", "rest"} : next[k] = run[k]
    BY DEF RunTypes, RunFields
  <2>3. FoundTypes(Empty)
    BY DEF FoundTypes, Empty
  <2> HIDE DEF next
  <2>4. RunTypes(next)
    <3>1. next.gone = run.gone
      BY <2>2 DEF RunFields
    <3>2. next.gone \subseteq Feed /\ FoundTypes(next.found)
      BY <2>2, <2>3, <3>1 DEF RunTypes
    <3>3. next.pc \in Steps /\ next.page \in Nat /\ next.page < MaxPages /\ next.rest \subseteq Tasks
      BY <2>2 DEF Steps
    <3> QED BY <2>2, <3>2, <3>3, FetchingTypes
  <2>5. AtHand(next)
    BY <1>2, <2>2 DEF AtHand, RunFields, Active
  <2>6. next.todo = run.todo /\ next.scopes = listed /\ next.found = Empty /\ next.page = 0
    BY <2>2 DEF RunFields
  <2>7. Due(next) = Due(run)
    BY <2>6 DEF Due
  <2>8. Onward(next)
    <3>1. CASE ProjectMissing(config)
      BY <1>2, <2>2, <2>6, <2>7, <3>1 DEF Onward
    <3>2. CASE ~ProjectMissing(config)
      <4>1. listed = Listed(config)
        BY <3>2 DEF listed
      <4> QED BY <1>2, <2>2, <2>6, <2>7, <3>2, <4>1 DEF Onward
    <3> QED BY <3>1, <3>2
  <2> QED BY <2>1, <2>2, <2>4, <2>5, <2>8 DEF ProperRun
<1> QED BY <1>1, <1>2

LEMMA LoopOnProper ==
  ASSUME NEW run, RunTypes(run), run.status \in Active
  PROVE  /\ ProperRun(LoopOn(run))
         /\ Onward(LoopOn(run))
         /\ LoopOn(run).todo = run.todo \ {Due(run)}
         /\ \A k \in RunFields \ {"pc", "todo", "scopes", "found", "page", "rest"} :
              LoopOn(run)[k] = run[k]
<1> DEFINE next == [run EXCEPT !.todo = @ \ {Due(run)}]
<1>1. /\ next = [k \in RunFields |-> next[k]] /\ next.todo = run.todo \ {Due(run)}
      /\ \A k \in RunFields \ {"todo"} : next[k] = run[k]
  BY DEF RunTypes, RunFields
<1> HIDE DEF next
<1>2. RunTypes(next) /\ next.status \in Active
  BY <1>1 DEF RunTypes, RunFields
<1>3. LoopOn(run) = NextConnection(next)
  BY DEF LoopOn, next
<1> DEFINE after == NextConnection(next)
<1>4. /\ ProperRun(after)
      /\ Onward(after)
      /\ \A k \in RunFields \ {"pc", "scopes", "found", "page", "rest"} : after[k] = next[k]
  BY <1>2, NextConnectionProper
<1> HIDE DEF after
<1>5. after.todo = next.todo
  BY <1>4 DEF RunFields
<1>6. \A k \in RunFields \ {"pc", "todo", "scopes", "found", "page", "rest"} : after[k] = run[k]
  BY <1>1, <1>4
<1> QED BY <1>1, <1>3, <1>4, <1>5, <1>6 DEF after

LEMMA NextScopeProper ==
  ASSUME NEW run, RunTypes(run), run.status \in Active, run.todo # {}, run.scopes # {}
  PROVE  /\ ProperRun(NextScope(run)) /\ NextScope(run).pc \in {"fetch", "persist"}
         /\ NextScope(run).scopes = run.scopes \ {Scope(run)} /\ NextScope(run).page = 0
         /\ NextScope(run).pc = "persist" <=> run.scopes = {Scope(run)}
         /\ \A k \in RunFields \ {"pc", "scopes", "page", "rest"} : NextScope(run)[k] = run[k]
<1> DEFINE next == NextScope(run)
<1>1. /\ next = [k \in RunFields |-> next[k]]
      /\ next.scopes = run.scopes \ {Scope(run)} /\ next.page = 0 /\ next.rest = {}
      /\ next.pc = IF run.scopes = {Scope(run)} THEN "persist" ELSE "fetch"
      /\ \A k \in RunFields \ {"pc", "scopes", "page", "rest"} : next[k] = run[k]
  BY DEF RunTypes, RunFields, NextScope
<1> HIDE DEF next
<1>2. RunTypes(next)
  <2>1. next.found = run.found /\ next.gone = run.gone
    BY <1>1 DEF RunFields
  <2>2. next.gone \subseteq Feed /\ FoundTypes(next.found)
    BY <2>1 DEF RunTypes
  <2>3. next.pc \in Steps /\ next.page \in Nat /\ next.page < MaxPages /\ next.rest \subseteq Tasks
    BY <1>1 DEF Steps
  <2> QED BY <1>1, <2>2, <2>3, FetchingTypes
<1>3. Scope(run) \in run.scopes
  BY DEF Scope
<1>4. AtHand(next)
  BY <1>1, <1>3 DEF AtHand, RunFields, Active
<1>5. /\ ProperRun(next) /\ next.pc \in {"fetch", "persist"}
      /\ next.pc = "persist" <=> run.scopes = {Scope(run)}
  BY <1>1, <1>2, <1>4 DEF ProperRun
<1> QED BY <1>1, <1>5 DEF next

\* The page of a scope is part of the listing.
LEMMA PagesIn ==
  ASSUME NEW S, NEW P \in Pages(S, PageLimit)
  PROVE  P \subseteq S
BY DEF Pages

\* mergeAggregatedTask keeps the newest version and all scopes.
IsMerged(m, found, S, s) ==
  /\ DOMAIN m = DOMAIN found \cup S
  /\ \A t \in DOMAIN found \ S : m[t].ver = found[t].ver /\ m[t].in = found[t].in
  /\ \A t \in S \ DOMAIN found : m[t].ver = remote[t].ver /\ m[t].in = {s}
  /\ \A t \in S \cap DOMAIN found : /\ found[t].ver = remote[t].ver => m[t].ver = remote[t].ver
                                    /\ m[t].in = found[t].in \cup {s}
LEMMA MergedIs ==
  ASSUME SiteTypes, NEW found, FoundTypes(found), NEW S \in SUBSET Tasks, NEW s
  PROVE  FoundTypes(Merged(found, S, s)) /\ IsMerged(Merged(found, S, s), found, S, s)
<1> DEFINE m == Merged(found, S, s)
           old(t) == IF t \in DOMAIN found THEN {found[t]} ELSE {}
           new(t) == IF t \in S THEN {[ver |-> remote[t].ver, in |-> {s}]} ELSE {}
           vers(t) == {x.ver : x \in old(t) \cup new(t)}
           ins(t) == UNION {x.in : x \in old(t) \cup new(t)}
<1>1. m = [t \in DOMAIN found \cup S |-> [ver |-> Max(vers(t)), in |-> ins(t)]]
  BY DEF Merged
<1>2. \A t \in S : remote[t].ver \in Versions
  BY DEF SiteTypes
<1>3. \A t \in DOMAIN found : found[t].ver \in Versions /\ found[t].in # {}
  BY DEF FoundTypes
<1>4. \A v \in Versions : Max({v}) = v
  BY DEF Max, Versions
<1>5. \A v, w \in Versions : Max({v, w}) \in {v, w}
  <2> TAKE v, w \in Versions
  <2>1. CASE v >= w
    <3>1. v \in {v, w} /\ \A y \in {v, w} : v >= y
      BY <2>1 DEF Versions
    <3> QED BY <3>1 DEF Max
  <2>2. CASE w >= v
    <3>1. w \in {v, w} /\ \A y \in {v, w} : w >= y
      BY <2>2 DEF Versions
    <3> QED BY <3>1 DEF Max
  <2> QED BY <2>1, <2>2 DEF Versions
<1>6. \A t \in DOMAIN found \ S : vers(t) = {found[t].ver} /\ ins(t) = found[t].in
  <2> TAKE t \in DOMAIN found \ S
  <2>1. old(t) \cup new(t) = {found[t]}
    OBVIOUS
  <2> HIDE DEF old, new
  <2> QED BY <2>1
<1>7. \A t \in S \ DOMAIN found : vers(t) = {remote[t].ver} /\ ins(t) = {s}
  <2> TAKE t \in S \ DOMAIN found
  <2>1. PICK x : x = [ver |-> remote[t].ver, in |-> {s}]
    OBVIOUS
  <2>2. old(t) \cup new(t) = {x}
    BY <2>1
  <2>3. x.ver = remote[t].ver /\ x.in = {s}
    BY <2>1
  <2> HIDE DEF old, new
  <2> QED BY <2>2, <2>3
<1>8. \A t \in S \cap DOMAIN found :
        vers(t) = {found[t].ver, remote[t].ver} /\ ins(t) = found[t].in \cup {s}
  <2> TAKE t \in S \cap DOMAIN found
  <2>1. PICK x : x = [ver |-> remote[t].ver, in |-> {s}]
    OBVIOUS
  <2>2. old(t) \cup new(t) = {found[t], x}
    BY <2>1
  <2>3. x.ver = remote[t].ver /\ x.in = {s}
    BY <2>1
  <2> HIDE DEF old, new
  <2>4. vers(t) = {found[t].ver, x.ver} /\ ins(t) = found[t].in \cup x.in
    BY <2>2
  <2> QED BY <2>3, <2>4
<1> HIDE DEF m, vers, ins
<1>9. DOMAIN m = DOMAIN found \cup S
      /\ \A t \in DOMAIN found \cup S : m[t].ver = Max(vers(t)) /\ m[t].in = ins(t)
  BY <1>1
<1>10. \A t \in DOMAIN found \ S : m[t].ver = found[t].ver /\ m[t].in = found[t].in
  BY <1>3, <1>4, <1>6, <1>9
<1>11. \A t \in S \ DOMAIN found : m[t].ver = remote[t].ver /\ m[t].in = {s}
  BY <1>2, <1>4, <1>7, <1>9
<1>12. \A t \in S \cap DOMAIN found :
         /\ m[t].ver \in {found[t].ver, remote[t].ver}
         /\ m[t].in = found[t].in \cup {s}
  BY <1>2, <1>3, <1>5, <1>8, <1>9
<1>13. FoundTypes(m)
  <2> SUFFICES ASSUME NEW t \in DOMAIN m PROVE t \in Tasks /\ m[t].ver \in Versions /\ m[t].in # {}
    BY DEF FoundTypes
  <2>1. t \in Tasks
    BY <1>9 DEF FoundTypes
  <2>2. CASE t \in DOMAIN found \ S
    BY <1>3, <1>10, <2>1, <2>2
  <2>3. CASE t \in S \ DOMAIN found
    BY <1>2, <1>11, <2>1, <2>3
  <2>4. CASE t \in S \cap DOMAIN found
    <3>1. m[t].ver \in Versions
      BY <1>2, <1>3, <1>12, <2>4
    <3> QED BY <1>12, <2>1, <2>4, <3>1
  <2> QED BY <1>9, <2>2, <2>3, <2>4
<1>14. \A t \in S \cap DOMAIN found : found[t].ver = remote[t].ver => m[t].ver = remote[t].ver
  BY <1>12
<1>15. IsMerged(m, found, S, s)
  BY <1>9, <1>10, <1>11, <1>12, <1>14 DEF IsMerged
<1> QED BY <1>13, <1>15 DEF m

-----------------------------------------------------------------------------
(* The steps of a run: what they make of it.                               *)

\* Only run r is another than before, and in the fields K only.
Only(r) == \A q \in Runs \ {r} : runs'[q] = runs[q]
Same(r, K) == \A k \in RunFields \ K : runs'[r][k] = runs[r][k]

LEMMA StepIs ==
  ASSUME RunsTypes, NEW r \in Runs, NEW at, NEW new, ProperRun(new), Step(r, at, new)
  PROVE  RunsTypes' /\ Only(r) /\ runs'[r] = new /\ runs[r].pc = at
<1>1. runs' = [runs EXCEPT ![r] = new] /\ runs[r].pc = at
  BY DEF Step
<1>2. runs' = [q \in Runs |-> IF q = r THEN new ELSE runs[q]]
  BY <1>1 DEF RunsTypes
<1>3. Only(r) /\ runs'[r] = new /\ runs' = [q \in Runs |-> runs'[q]]
  BY <1>2 DEF Only
<1>4. \A q \in Runs : ProperRun(runs'[q])
  BY <1>2 DEF RunsTypes
<1> QED BY <1>1, <1>3, <1>4 DEF RunsTypes

\* A run that works is active.
LEMMA Works ==
  ASSUME RunsTypes, NEW r \in Runs, runs[r].pc # "off"
  PROVE  RunTypes(runs[r]) /\ AtHand(runs[r]) /\ runs[r].status \in Active
BY DEF RunsTypes, ProperRun, AtHand

LEMMA BeginIs ==
  ASSUME Typed, NEW r \in Runs, Begin(r)
  PROVE  /\ RunsTypes' /\ Only(r) /\ runs[r].pc = "begin" /\ Onward(runs'[r])
         /\ runs'[r].todo = conns /\ runs'[r].changed = {} /\ runs'[r].gone = {}
         /\ runs'[r].status = "running"
         /\ Same(r, {"status", "pc", "todo", "scopes", "found", "page", "rest"})
<1> DEFINE run == runs[r]
           next == [run EXCEPT !.status = "running", !.todo = conns]
           after == NextConnection(next)
<1>1. runs[r].pc = "begin"
  BY DEF Begin, Step
<1>2. RunTypes(run) /\ AtHand(run)
  BY <1>1, Works DEF Typed
<1>3. /\ next = [k \in RunFields |-> next[k]] /\ next.status = "running" /\ next.todo = conns
      /\ \A k \in RunFields \ {"status", "todo"} : next[k] = run[k]
  BY <1>2 DEF RunTypes, RunFields
<1> HIDE DEF next
<1>4. RunTypes(next) /\ next.status \in Active
  BY <1>2, <1>3 DEF RunTypes, RunFields, Typed, RowTypes, Active
<1>5. /\ ProperRun(after) /\ Onward(after)
      /\ \A k \in RunFields \ {"pc", "scopes", "found", "page", "rest"} : after[k] = next[k]
  BY <1>4, NextConnectionProper
<1>6. Step(r, "begin", after)
  BY DEF Begin, next
<1> HIDE DEF after
<1>7. RunsTypes' /\ Only(r) /\ runs'[r] = after
  BY <1>5, <1>6, StepIs DEF Typed
<1>8. \A k \in RunFields \ {"status", "pc", "todo", "scopes", "found", "page", "rest"} : after[k] = run[k]
  BY <1>3, <1>5
<1>9. /\ after.todo = conns /\ after.status = "running"
      /\ after.changed = run.changed /\ after.gone = run.gone
  BY <1>3, <1>5 DEF RunFields
<1>10. run.changed = {} /\ run.gone = {}
  BY <1>1, <1>2 DEF AtHand
<1> QED BY <1>1, <1>5, <1>7, <1>8, <1>9, <1>10 DEF Same

\* The tasks a page is taken from, and the run with a page of them.
Listing(run) ==
  LET here == {t \in Tasks : Scope(run) \in remote[t].in}
  IN IF run.page = 0 THEN here ELSE run.rest \cap here
With(run, page) == [run EXCEPT !.found = Merged(@, page, Scope(run))]

LEMMA FetchPageIs ==
  ASSUME Typed, NEW r \in Runs, FetchPage(r)
  PROVE  /\ RunsTypes' /\ Only(r) /\ runs[r].pc = "fetch"
         /\ runs'[r].pc \in {"fetch", "persist", "failed"}
         /\ Same(r, {"pc", "scopes", "found", "page", "rest"})
         /\ Scope(runs[r]) \in Projects => Scope(runs[r]) \in projects
         /\ \E page \in SUBSET Listing(runs[r]) :
              /\ runs'[r].found = Merged(runs[r].found, page, Scope(runs[r]))
              /\ \/ page = Listing(runs[r]) /\ runs'[r].scopes = runs[r].scopes \ {Scope(runs[r])}
                    /\ runs'[r].page = 0
                    /\ (runs'[r].pc = "persist" => runs[r].scopes = {Scope(runs[r])})
                 \/ runs'[r].scopes = runs[r].scopes /\ runs'[r].pc = "fetch"
                    /\ runs'[r].page # 0 /\ runs'[r].rest = Listing(runs[r]) \ page
                 \/ runs'[r].pc = "failed"
<1> DEFINE run == runs[r]
           s == Scope(run)
           listing == Listing(run)
<1>1. run.pc = "fetch" /\ (s \in Projects => s \in projects)
  BY DEF FetchPage
<1>2. RunTypes(run) /\ AtHand(run) /\ run.status \in Active
  BY <1>1, Works DEF Typed
<1>3. run.todo # {} /\ run.scopes # {}
  BY <1>1, <1>2 DEF AtHand
<1>4. PICK page \in Pages(listing, PageLimit) :
        Step(r, "fetch",
             IF page = listing THEN NextScope(With(run, page))
             ELSE IF MayGoOn(run.page)
               THEN [With(run, page) EXCEPT !.page = @ + 1, !.rest = listing \ page]
               ELSE [With(run, page) EXCEPT !.pc = "failed"])
  BY DEF FetchPage, Listing, With
<1>5. page \subseteq listing /\ listing \subseteq Tasks
  BY <1>2, PagesIn DEF Listing, RunTypes
<1> HIDE DEF listing
<1> DEFINE got == With(run, page)
<1>6. /\ got = [k \in RunFields |-> got[k]] /\ got.found = Merged(run.found, page, s)
      /\ \A k \in RunFields \ {"found"} : got[k] = run[k]
  BY <1>2 DEF RunTypes, RunFields, With
<1>7. FoundTypes(got.found)
  <2>1. FoundTypes(run.found) /\ SiteTypes /\ page \in SUBSET Tasks
    BY <1>2, <1>5 DEF RunTypes, Typed
  <2>2. \A x : FoundTypes(Merged(run.found, page, x))
    BY <2>1, MergedIs
  <2> HIDE DEF run, s, got
  <2> QED BY <1>6, <2>2
<1> HIDE DEF got
<1>8. RunTypes(got)
  <2> HIDE DEF run, s
  <2>1. /\ got.status = run.status /\ got.pc = run.pc /\ got.todo = run.todo
        /\ got.page = run.page /\ got.rest = run.rest /\ got.changed = run.changed
        /\ got.work = run.work /\ got.gone = run.gone /\ got.errors = run.errors
        /\ got.calm = run.calm /\ got.cut = run.cut
    BY <1>6 DEF RunFields
  <2> QED BY <1>2, <1>6, <1>7, <2>1 DEF RunTypes
<1>9. /\ got.status \in Active /\ got.todo # {} /\ got.scopes = run.scopes /\ got.scopes # {}
      /\ Scope(got) = s /\ got.pc = "fetch"
  BY <1>1, <1>2, <1>3, <1>6 DEF RunFields, Scope
<1>10. CASE page = listing
  <2> DEFINE next == NextScope(got)
  <2>1. /\ ProperRun(next) /\ next.pc \in {"fetch", "persist"}
        /\ next.scopes = run.scopes \ {s} /\ next.page = 0
        /\ next.pc = "persist" <=> run.scopes = {s}
        /\ \A k \in RunFields \ {"pc", "scopes", "page", "rest"} : next[k] = got[k]
    BY <1>8, <1>9, NextScopeProper
  <2> HIDE DEF next
  <2>2. Step(r, "fetch", next)
    BY <1>4, <1>10 DEF got, next
  <2>3. RunsTypes' /\ Only(r) /\ runs'[r] = next
    BY <2>1, <2>2, StepIs DEF Typed
  <2>4. next.found = Merged(run.found, page, s)
    BY <1>6, <2>1 DEF RunFields
  <2>5. \A k \in RunFields \ {"pc", "scopes", "found", "page", "rest"} : next[k] = run[k]
    BY <1>6, <2>1
  <2> QED BY <1>1, <1>5, <1>10, <2>1, <2>3, <2>4, <2>5 DEF Same, listing
<1>11. CASE page # listing /\ MayGoOn(run.page)
  <2> DEFINE next == [got EXCEPT !.page = @ + 1, !.rest = listing \ page]
  <2>1. /\ next = [k \in RunFields |-> next[k]]
        /\ next.page = got.page + 1 /\ next.rest = listing \ page
        /\ \A k \in RunFields \ {"page", "rest"} : next[k] = got[k]
    BY <1>6 DEF RunFields
  <2>2. Step(r, "fetch", next)
    BY <1>4, <1>11 DEF got
  <2> HIDE DEF next
  <2>3. got.page \in Nat /\ got.page = run.page
    BY <1>6, <1>8 DEF RunTypes, RunFields
  <2>4. next.page \in Nat /\ next.page < MaxPages /\ next.page # 0
    BY <1>11, <2>1, <2>3 DEF MayGoOn
  <2>5. RunTypes(next)
    <3>1. next.pc = got.pc /\ next.found = got.found /\ next.gone = got.gone
      BY <2>1 DEF RunFields
    <3>2. next.pc \in Steps /\ next.gone \subseteq Feed /\ FoundTypes(next.found)
      BY <1>8, <3>1 DEF RunTypes
    <3>3. next.rest \subseteq Tasks
      BY <1>5, <2>1
    <3> QED BY <1>8, <2>1, <2>4, <3>2, <3>3, FetchingTypes
  <2>6. AtHand(next)
    BY <1>9, <2>1 DEF AtHand, RunFields, Active
  <2>7. RunsTypes' /\ Only(r) /\ runs'[r] = next
    BY <2>2, <2>5, <2>6, StepIs DEF Typed, ProperRun
  <2>8. next.found = Merged(run.found, page, s) /\ next.pc = "fetch" /\ next.scopes = run.scopes
    BY <1>6, <1>9, <2>1 DEF RunFields
  <2>9. \A k \in RunFields \ {"pc", "scopes", "found", "page", "rest"} : next[k] = run[k]
    BY <1>6, <2>1
  <2> QED BY <1>1, <1>5, <2>1, <2>4, <2>7, <2>8, <2>9 DEF Same, listing
<1>12. CASE page # listing /\ ~MayGoOn(run.page)
  <2> DEFINE next == [got EXCEPT !.pc = "failed"]
  <2>1. /\ next = [k \in RunFields |-> next[k]] /\ next.pc = "failed"
        /\ \A k \in RunFields \ {"pc"} : next[k] = got[k]
    BY <1>6 DEF RunFields
  <2>2. Step(r, "fetch", next)
    BY <1>4, <1>12 DEF got
  <2> HIDE DEF next
  <2>3. RunTypes(next)
    <3>1. /\ next.page = got.page /\ next.rest = got.rest
          /\ next.found = got.found /\ next.gone = got.gone
      BY <2>1 DEF RunFields
    <3>2. /\ next.page \in Nat /\ next.page < MaxPages /\ next.rest \subseteq Tasks
          /\ next.gone \subseteq Feed /\ FoundTypes(next.found)
      BY <1>8, <3>1 DEF RunTypes
    <3>3. next.pc \in Steps
      BY <2>1 DEF Steps
    <3> QED BY <1>8, <2>1, <3>2, <3>3, FetchingTypes
  <2>4. AtHand(next)
    BY <1>9, <2>1 DEF AtHand, RunFields, Active
  <2>5. RunsTypes' /\ Only(r) /\ runs'[r] = next
    BY <2>2, <2>3, <2>4, StepIs DEF Typed, ProperRun
  <2>6. next.found = Merged(run.found, page, s)
    BY <1>6, <2>1 DEF RunFields
  <2>7. \A k \in RunFields \ {"pc", "scopes", "found", "page", "rest"} : next[k] = run[k]
    BY <1>6, <2>1
  <2> QED BY <1>1, <1>5, <2>1, <2>5, <2>6, <2>7 DEF Same, listing
<1> QED BY <1>10, <1>11, <1>12

LEMMA SkipScopeIs ==
  ASSUME Typed, NEW r \in Runs, SkipScope(r)
  PROVE  /\ RunsTypes' /\ Only(r) /\ runs[r].pc = "fetch"
         /\ runs'[r].pc \in {"fetch", "persist"}
         /\ runs'[r].scopes = runs[r].scopes \ {Scope(runs[r])} /\ runs'[r].page = 0
         /\ runs'[r].pc = "persist" => runs[r].scopes = {Scope(runs[r])}
         /\ runs'[r].skipped = runs[r].skipped \cup {<<Due(runs[r]), Scope(runs[r])>>}
         /\ Same(r, {"pc", "scopes", "page", "rest", "skipped"})
<1> DEFINE run == runs[r]
           on == NextScope(run)
           lost == {<<Due(run), Scope(run)>>}
           next == [on EXCEPT !.skipped = @ \cup lost]
<1>1. run.pc = "fetch" /\ Step(r, "fetch", next)
  BY DEF SkipScope, Step
<1>2. RunTypes(run) /\ AtHand(run) /\ run.status \in Active
  BY <1>1, Works DEF Typed
<1>3. run.todo # {} /\ run.scopes # {}
  BY <1>1, <1>2 DEF AtHand
<1>4. /\ ProperRun(on) /\ on.pc \in {"fetch", "persist"}
      /\ on.scopes = run.scopes \ {Scope(run)} /\ on.page = 0
      /\ on.pc = "persist" <=> run.scopes = {Scope(run)}
      /\ \A k \in RunFields \ {"pc", "scopes", "page", "rest"} : on[k] = run[k]
  BY <1>2, <1>3, NextScopeProper
<1> HIDE DEF on, lost
<1>5. /\ next = [k \in RunFields |-> next[k]] /\ next.skipped = on.skipped \cup lost
      /\ \A k \in RunFields \ {"skipped"} : next[k] = on[k]
  BY <1>4 DEF ProperRun, RunTypes, RunFields
<1> HIDE DEF next
<1>6. ProperRun(next)
  <2>1. RunTypes(on) /\ AtHand(on)
    BY <1>4 DEF ProperRun
  <2>2. RunTypes(next)
    <3>1. /\ next.status = on.status /\ next.pc = on.pc /\ next.todo = on.todo /\ next.page = on.page
          /\ next.rest = on.rest /\ next.found = on.found /\ next.changed = on.changed
      BY <1>5 DEF RunFields
    <3>2. /\ next.work = on.work /\ next.gone = on.gone /\ next.errors = on.errors
          /\ next.cut = on.cut /\ next.calm = on.calm
      BY <1>5 DEF RunFields
    <3>3. next = [k \in RunFields |-> next[k]]
      BY <1>5
    <3> QED BY <2>1, <3>1, <3>2, <3>3 DEF RunTypes
  <2>3. AtHand(next)
    BY <1>5, <2>1 DEF AtHand, RunFields
  <2> QED BY <2>2, <2>3 DEF ProperRun
<1>7. RunsTypes' /\ Only(r) /\ runs'[r] = next
  BY <1>1, <1>6, StepIs DEF Typed
<1>8. next.pc = on.pc /\ next.scopes = on.scopes /\ next.page = on.page /\ on.skipped = run.skipped
  BY <1>4, <1>5 DEF RunFields
<1>9. \A k \in RunFields \ {"pc", "scopes", "page", "rest", "skipped"} : next[k] = run[k]
  BY <1>4, <1>5
<1> QED BY <1>1, <1>4, <1>5, <1>7, <1>8, <1>9 DEF Same, lost

\* persistConnectionSnapshot leaves of the connection's rows what was collected.
Stored(c, found) ==
  /\ DOMAIN rows' = {f \in DOMAIN rows : f[1] # c} \cup {<<c, t>> : t \in DOMAIN found}
  /\ \A f \in DOMAIN rows : f[1] # c => rows'[f] = rows[f]
  /\ \A t \in DOMAIN found : /\ rows'[<<c, t>>].ver = found[t].ver
                             /\ rows'[<<c, t>>].in = found[t].in
                             /\ rows'[<<c, t>>].at = clock + 1
                             /\ rows'[<<c, t>>].id \in Nat /\ rows'[<<c, t>>].id <= clock + 1

LEMMA PersistIs ==
  ASSUME Typed, NEW r \in Runs, Persist(r), NEW c, c = Due(runs[r]), NEW found, found = runs[r].found
  PROVE  /\ RunsTypes' /\ Only(r) /\ runs[r].pc = "persist" /\ runs'[r].pc = "find"
         /\ c \in conns /\ clock' = clock + 1 /\ DOMAIN found # {}
         /\ runs'[r].gone = runs[r].gone \cup {f \in DOMAIN rows : f[1] = c /\ f[2] \notin DOMAIN found}
         /\ Same(r, {"pc", "gone"})
         /\ Stored(c, found)
<1> DEFINE run == runs[r]
           now == clock + 1
           written == {<<c, t>> : t \in DOMAIN found}
           after == [f \in DOMAIN rows \cup written |->
                       IF f \in written THEN Upserted(c, f[2], found, now) ELSE rows[f]]
           stale == {f \in DOMAIN after : f[1] = c /\ Stale(after[f], now)}
           next == [run EXCEPT !.gone = @ \cup stale, !.pc = "find"]
<1>1. /\ run.pc = "persist" /\ written # {} /\ c \in conns
      /\ Step(r, "persist", next)
      /\ rows' = Restrict(after, DOMAIN after \ stale)
      /\ clock' = now
  BY DEF Persist
<1>2. RunTypes(run) /\ AtHand(run) /\ run.status \in Active
  BY <1>1, Works DEF Typed
<1>3. DOMAIN found \subseteq Tasks /\ c \in Conns /\ DOMAIN rows \subseteq Feed
  BY <1>1, <1>2 DEF RunTypes, FoundTypes, Typed, RowTypes
<1>4. clock \in Nat /\ \A f \in DOMAIN rows : /\ rows[f].at \in Nat /\ rows[f].at <= clock
                                              /\ rows[f].id \in Nat /\ rows[f].id <= rows[f].at
  BY DEF Typed, RowTypes
<1>5. DOMAIN after = DOMAIN rows \cup written
  OBVIOUS
<1>6. \A t \in DOMAIN found : after[<<c, t>>] = Upserted(c, t, found, now)
  OBVIOUS
<1>7. \A f \in DOMAIN rows \ written : after[f] = rows[f]
  OBVIOUS
<1> HIDE DEF after
<1> DEFINE OldId(t) == IF <<c, t>> \in DOMAIN rows THEN rows[<<c, t>>].id ELSE now
<1>61. \A t \in DOMAIN found :
         after[<<c, t>>] = [id |-> OldId(t), ver |-> found[t].ver, in |-> found[t].in, at |-> now]
  BY <1>6 DEF Upserted
<1> HIDE DEF OldId
<1>62. \A t \in DOMAIN found : /\ after[<<c, t>>].ver = found[t].ver
                               /\ after[<<c, t>>].in = found[t].in
                               /\ after[<<c, t>>].at = now
                               /\ after[<<c, t>>].id = OldId(t)
  <2> TAKE t \in DOMAIN found
  <2>1. PICK x : x = [id |-> OldId(t), ver |-> found[t].ver, in |-> found[t].in, at |-> now]
    OBVIOUS
  <2>2. x.id = OldId(t) /\ x.ver = found[t].ver /\ x.in = found[t].in /\ x.at = now
    BY <2>1
  <2>3. after[<<c, t>>] = x
    BY <1>61, <2>1
  <2> QED BY <2>2, <2>3
<1>8. \A t \in DOMAIN found : /\ after[<<c, t>>].ver = found[t].ver
                              /\ after[<<c, t>>].in = found[t].in
                              /\ after[<<c, t>>].at = now
  BY <1>62
<1>9. \A t \in DOMAIN found : after[<<c, t>>].id \in Nat /\ after[<<c, t>>].id <= now
  <2> TAKE t \in DOMAIN found
  <2>1. after[<<c, t>>].id = IF <<c, t>> \in DOMAIN rows THEN rows[<<c, t>>].id ELSE now
    BY <1>62 DEF OldId
  <2>2. CASE <<c, t>> \in DOMAIN rows
    BY <1>4, <2>1, <2>2
  <2>3. CASE <<c, t>> \notin DOMAIN rows
    BY <1>4, <2>1, <2>3
  <2> QED BY <2>2, <2>3
<1>10. \A f \in written : ~Stale(after[f], now)
  BY <1>4, <1>8 DEF Stale
<1>11. \A f \in DOMAIN rows \ written : Stale(after[f], now)
  BY <1>4, <1>7 DEF Stale
<1>12. \A f \in DOMAIN rows : f \in written <=> f[1] = c /\ f[2] \in DOMAIN found
  BY <1>3 DEF Feed
<1>13. stale = {f \in DOMAIN rows : f[1] = c /\ f[2] \notin DOMAIN found}
  BY <1>5, <1>10, <1>11, <1>12
<1>14. DOMAIN after \ stale = {f \in DOMAIN rows : f[1] # c} \cup written
  BY <1>5, <1>12, <1>13
<1> HIDE DEF stale
<1>15. /\ DOMAIN rows' = DOMAIN after \ stale
       /\ \A f \in DOMAIN after \ stale : rows'[f] = after[f]
  BY <1>1 DEF Restrict
<1>16. \A f \in DOMAIN rows : f[1] # c => rows'[f] = rows[f]
  BY <1>7, <1>12, <1>14, <1>15
<1>17. \A t \in DOMAIN found : rows'[<<c, t>>] = after[<<c, t>>]
  BY <1>14, <1>15
<1>18. /\ next = [k \in RunFields |-> next[k]] /\ next.gone = run.gone \cup stale /\ next.pc = "find"
       /\ \A k \in RunFields \ {"gone", "pc"} : next[k] = run[k]
  BY <1>2 DEF RunTypes, RunFields
<1> HIDE DEF next
<1>19. ProperRun(next)
  <2>1. stale \subseteq Feed
    BY <1>3, <1>13
  <2>2. run.todo # {}
    BY <1>1, <1>2 DEF AtHand
  <2>3. RunTypes(next)
    <3> HIDE DEF run
    <3>1. /\ next.page = run.page /\ next.rest = run.rest /\ next.found = run.found
          /\ next.gone = run.gone \cup stale
      BY <1>18 DEF RunFields
    <3>2. /\ next.page \in Nat /\ next.page < MaxPages /\ next.rest \subseteq Tasks
          /\ next.gone \subseteq Feed /\ FoundTypes(next.found)
      BY <1>2, <2>1, <3>1 DEF RunTypes
    <3>3. next.pc \in Steps
      BY <1>18 DEF Steps
    <3> QED BY <1>2, <1>18, <3>2, <3>3, FetchingTypes
  <2>4. AtHand(next)
    BY <1>2, <1>18, <2>2 DEF AtHand, RunFields, Active
  <2> QED BY <2>3, <2>4 DEF ProperRun
<1>20. RunsTypes' /\ Only(r) /\ runs'[r] = next
  BY <1>1, <1>19, StepIs DEF Typed
<1>21. Same(r, {"pc", "gone"})
  BY <1>18, <1>20 DEF Same
<1>22. DOMAIN found # {}
  BY <1>1
<1> HIDE DEF written
<1>23. DOMAIN rows' = {f \in DOMAIN rows : f[1] # c} \cup {<<c, t>> : t \in DOMAIN found}
  BY <1>14, <1>15 DEF written
<1>24. Stored(c, found)
  BY <1>8, <1>9, <1>16, <1>17, <1>23 DEF Stored
<1> QED BY <1>1, <1>13, <1>18, <1>20, <1>21, <1>22, <1>24

\* What LoopOn makes of a run that a step has changed before, in a field it leaves alone.
LEMMA DeleteAllIs ==
  ASSUME Typed, NEW r \in Runs, DeleteAll(r)
  PROVE  /\ RunsTypes' /\ Only(r) /\ runs[r].pc = "persist" /\ DOMAIN runs[r].found = {}
         /\ Onward(runs'[r]) /\ runs'[r].todo = runs[r].todo \ {Due(runs[r])}
         /\ runs'[r].gone = runs[r].gone \cup {f \in DOMAIN rows : f[1] = Due(runs[r])}
         /\ Same(r, {"pc", "todo", "scopes", "found", "page", "rest", "gone"})
         /\ DOMAIN rows' = {f \in DOMAIN rows : f[1] # Due(runs[r])}
         /\ \A f \in DOMAIN rows' : rows'[f] = rows[f]
         /\ clock' = clock + 1
<1> DEFINE run == runs[r]
           all == {f \in DOMAIN rows : f[1] = Due(run)}
           more == [run EXCEPT !.gone = @ \cup all]
           next == LoopOn(more)
<1>1. /\ run.pc = "persist" /\ DOMAIN run.found = {}
      /\ Step(r, "persist", next)
      /\ rows' = Restrict(rows, DOMAIN rows \ all)
      /\ clock' = clock + 1
  BY DEF DeleteAll
<1>2. RunTypes(run) /\ AtHand(run) /\ run.status \in Active
  BY <1>1, Works DEF Typed
<1>3. /\ more = [k \in RunFields |-> more[k]] /\ more.gone = run.gone \cup all
      /\ \A k \in RunFields \ {"gone"} : more[k] = run[k]
  BY <1>2 DEF RunTypes, RunFields
<1>4. all \subseteq Feed
  BY DEF Typed, RowTypes
<1>5. DOMAIN rows' = {f \in DOMAIN rows : f[1] # Due(run)} /\ \A f \in DOMAIN rows' : rows'[f] = rows[f]
  BY <1>1 DEF Restrict
<1> HIDE DEF more, all
<1>6. RunTypes(more) /\ more.status \in Active /\ Due(more) = Due(run) /\ more.todo = run.todo
  BY <1>2, <1>3, <1>4 DEF RunTypes, RunFields, Due
<1>7. /\ ProperRun(next) /\ Onward(next) /\ next.todo = more.todo \ {Due(more)}
      /\ \A k \in RunFields \ {"pc", "todo", "scopes", "found", "page", "rest"} : next[k] = more[k]
  BY <1>6, LoopOnProper
<1> HIDE DEF next
<1>8. RunsTypes' /\ Only(r) /\ runs'[r] = next
  BY <1>1, <1>7, StepIs DEF Typed
<1>9. next.gone = run.gone \cup all
  BY <1>3, <1>7 DEF RunFields
<1>10. \A k \in RunFields \ {"pc", "todo", "scopes", "found", "page", "rest", "gone"} : next[k] = run[k]
  BY <1>3, <1>7
<1> QED BY <1>1, <1>5, <1>6, <1>7, <1>8, <1>9, <1>10 DEF Same, all

LEMMA FindPersistedIs ==
  ASSUME Typed, NEW r \in Runs, FindPersisted(r)
  PROVE  /\ RunsTypes' /\ Only(r) /\ runs[r].pc = "find"
         /\ Onward(runs'[r]) /\ runs'[r].todo = runs[r].todo \ {Due(runs[r])}
         /\ runs'[r].changed = runs[r].changed \cup
              {<<f, rows[f].id>> : f \in {g \in DOMAIN rows : g[1] = Due(runs[r])
                                                               /\ g[2] \in DOMAIN runs[r].found}}
         /\ Same(r, {"pc", "todo", "scopes", "found", "page", "rest", "changed"})
<1> DEFINE run == runs[r]
           found == {f \in DOMAIN rows : f[1] = Due(run) /\ f[2] \in DOMAIN run.found}
           ids == {<<f, rows[f].id>> : f \in found}
           more == [run EXCEPT !.changed = @ \cup ids]
           next == LoopOn(more)
<1>1. run.pc = "find" /\ Step(r, "find", next)
  BY DEF FindPersisted, Step
<1>2. RunTypes(run) /\ AtHand(run) /\ run.status \in Active
  BY <1>1, Works DEF Typed
<1>3. /\ more = [k \in RunFields |-> more[k]] /\ more.changed = run.changed \cup ids
      /\ \A k \in RunFields \ {"changed"} : more[k] = run[k]
  BY <1>2 DEF RunTypes, RunFields
<1>4. ids \subseteq Feed \X Nat
  <2>1. \A f \in found : f \in Feed /\ rows[f].id \in Nat
    BY DEF Typed, RowTypes
  <2> QED BY <2>1
<1> HIDE DEF more, ids
<1>5. RunTypes(more) /\ more.status \in Active /\ Due(more) = Due(run) /\ more.todo = run.todo
  BY <1>2, <1>3, <1>4 DEF RunTypes, RunFields, Due
<1>6. /\ ProperRun(next) /\ Onward(next) /\ next.todo = more.todo \ {Due(more)}
      /\ \A k \in RunFields \ {"pc", "todo", "scopes", "found", "page", "rest"} : next[k] = more[k]
  BY <1>5, LoopOnProper
<1> HIDE DEF next
<1>7. RunsTypes' /\ Only(r) /\ runs'[r] = next
  BY <1>1, <1>6, StepIs DEF Typed
<1>8. next.changed = run.changed \cup ids
  BY <1>3, <1>6 DEF RunFields
<1>9. \A k \in RunFields \ {"pc", "todo", "scopes", "found", "page", "rest", "changed"} : next[k] = run[k]
  BY <1>3, <1>6
<1> QED BY <1>1, <1>5, <1>6, <1>7, <1>8, <1>9 DEF Same, ids

LEMMA ConnectionFailedIs ==
  ASSUME Typed, NEW r \in Runs, ConnectionFailed(r)
  PROVE  /\ RunsTypes' /\ Only(r) /\ runs[r].pc = "failed"
         /\ Onward(runs'[r]) /\ runs'[r].todo = runs[r].todo \ {Due(runs[r])}
         /\ runs'[r].errors = TRUE
         /\ Same(r, {"pc", "todo", "scopes", "found", "page", "rest", "errors"})
<1> DEFINE run == runs[r]
           more == [run EXCEPT !.errors = TRUE]
           next == LoopOn(more)
<1>1. run.pc = "failed" /\ Step(r, "failed", next)
  BY DEF ConnectionFailed, Step
<1>2. RunTypes(run) /\ AtHand(run) /\ run.status \in Active
  BY <1>1, Works DEF Typed
<1>3. /\ more = [k \in RunFields |-> more[k]] /\ more.errors = TRUE
      /\ \A k \in RunFields \ {"errors"} : more[k] = run[k]
  BY <1>2 DEF RunTypes, RunFields
<1> HIDE DEF more
<1>4. RunTypes(more) /\ more.status \in Active /\ Due(more) = Due(run) /\ more.todo = run.todo
  BY <1>2, <1>3 DEF RunTypes, RunFields, Due
<1>5. /\ ProperRun(next) /\ Onward(next) /\ next.todo = more.todo \ {Due(more)}
      /\ \A k \in RunFields \ {"pc", "todo", "scopes", "found", "page", "rest"} : next[k] = more[k]
  BY <1>4, LoopOnProper
<1> HIDE DEF next
<1>6. RunsTypes' /\ Only(r) /\ runs'[r] = next
  BY <1>1, <1>5, StepIs DEF Typed
<1>7. next.errors = TRUE
  BY <1>3, <1>5 DEF RunFields
<1>8. \A k \in RunFields \ {"pc", "todo", "scopes", "found", "page", "rest", "errors"} : next[k] = run[k]
  BY <1>3, <1>5
<1> QED BY <1>1, <1>4, <1>5, <1>6, <1>7, <1>8 DEF Same

\* A run whose history, step or fate is another keeps its types.
LEMMA AlteredTypes ==
  ASSUME NEW run, RunTypes(run), NEW new, new = [k \in RunFields |-> new[k]],
         \A k \in RunFields \ {"pc", "calm", "cut", "touched"} : new[k] = run[k],
         new.pc \in Steps, new.calm \in BOOLEAN, new.cut \in BOOLEAN
  PROVE  RunTypes(new)
<1>1. /\ new.status = run.status /\ new.todo = run.todo /\ new.page = run.page
      /\ new.rest = run.rest /\ new.found = run.found /\ new.changed = run.changed
  BY DEF RunFields
<1>2. new.work = run.work /\ new.gone = run.gone /\ new.errors = run.errors
  BY DEF RunFields
<1> QED BY <1>1, <1>2 DEF RunTypes

LEMMA AlteredProper ==
  ASSUME NEW run, ProperRun(run), NEW new, new = [k \in RunFields |-> new[k]],
         \A k \in RunFields \ {"pc", "calm", "cut", "touched"} : new[k] = run[k],
         new.pc \in {run.pc, "off"}, new.calm \in BOOLEAN, new.cut \in BOOLEAN
  PROVE  ProperRun(new)
<1>1. /\ new.status = run.status /\ new.todo = run.todo /\ new.scopes = run.scopes
      /\ new.changed = run.changed /\ new.work = run.work /\ new.gone = run.gone
  BY DEF RunFields
<1>2. new.pc \in Steps
  BY DEF ProperRun, RunTypes, Steps
<1>3. RunTypes(new)
  BY <1>2, AlteredTypes DEF ProperRun
<1>4. AtHand(new)
  BY <1>1 DEF ProperRun, AtHand
<1> QED BY <1>3, <1>4 DEF ProperRun

LEMMA PersistRefusedIs ==
  ASSUME Typed, NEW r \in Runs, PersistRefused(r)
  PROVE  /\ RunsTypes' /\ Only(r) /\ runs[r].pc = "persist" /\ runs'[r].pc = "failed"
         /\ Due(runs[r]) \notin conns /\ Same(r, {"pc"})
<1> DEFINE run == runs[r]
           next == [run EXCEPT !.pc = "failed"]
<1>1. run.pc = "persist" /\ Step(r, "persist", next) /\ Due(run) \notin conns
  BY DEF PersistRefused
<1>2. RunTypes(run) /\ AtHand(run) /\ run.status \in Active
  BY <1>1, Works DEF Typed
<1>3. /\ next = [k \in RunFields |-> next[k]] /\ next.pc = "failed"
      /\ \A k \in RunFields \ {"pc"} : next[k] = run[k]
  BY <1>2 DEF RunTypes, RunFields
<1> HIDE DEF next
<1>4. /\ next.calm = run.calm /\ next.cut = run.cut /\ next.todo = run.todo
      /\ next.status = run.status
  BY <1>3 DEF RunFields
<1>5. RunTypes(next)
  <2>1. next.calm \in BOOLEAN /\ next.cut \in BOOLEAN /\ next.pc \in Steps
    BY <1>2, <1>3, <1>4 DEF RunTypes, Steps
  <2>2. \A k \in RunFields \ {"pc", "calm", "cut", "touched"} : next[k] = run[k]
    BY <1>3
  <2> HIDE DEF run
  <2> QED BY <1>2, <1>3, <2>1, <2>2, AlteredTypes
<1>6. AtHand(next)
  BY <1>1, <1>2, <1>3, <1>4 DEF AtHand, Active
<1>7. RunsTypes' /\ Only(r) /\ runs'[r] = next
  BY <1>1, <1>5, <1>6, StepIs DEF Typed, ProperRun
<1> QED BY <1>1, <1>3, <1>7 DEF Same

LEMMA LoadIs ==
  ASSUME Typed, NEW r \in Runs, Load(r), NEW kept,
         kept = {f \in DOMAIN rows : <<f, rows[f].id>> \in runs[r].changed}
  PROVE  /\ RunsTypes' /\ Only(r) /\ runs[r].pc = "load" /\ Further(runs'[r])
         /\ runs'[r].work = [f \in kept |-> rows[f].ver]
         /\ Same(r, {"pc", "work"})
<1> DEFINE run == runs[r]
           with == [run EXCEPT !.work = [f \in kept |-> rows[f].ver]]
           next == AfterTasks(with)
<1>1. run.pc = "load" /\ Step(r, "load", next)
  BY DEF Load, Step
<1>2. RunTypes(run) /\ AtHand(run) /\ run.status \in Active
  BY <1>1, Works DEF Typed
<1>3. /\ with = [k \in RunFields |-> with[k]] /\ with.work = [f \in kept |-> rows[f].ver]
      /\ \A k \in RunFields \ {"work"} : with[k] = run[k]
  BY <1>2 DEF RunTypes, RunFields
<1> HIDE DEF with
<1>4. WorkTypes(with.work)
  <2>1. \A f \in kept : f \in Feed /\ rows[f].ver \in Versions
    BY DEF Typed, RowTypes
  <2> QED BY <1>3, <2>1 DEF WorkTypes
<1>5. RunTypes(with) /\ with.status \in Active
  <2>1. /\ with.status = run.status /\ with.pc = run.pc /\ with.todo = run.todo
        /\ with.page = run.page /\ with.rest = run.rest /\ with.found = run.found
    BY <1>3 DEF RunFields
  <2>2. /\ with.changed = run.changed /\ with.gone = run.gone /\ with.errors = run.errors
        /\ with.calm = run.calm /\ with.cut = run.cut
    BY <1>3 DEF RunFields
  <2>3. with = [k \in RunFields |-> with[k]]
    BY <1>3
  <2> HIDE DEF run
  <2> QED BY <1>2, <1>4, <2>1, <2>2, <2>3 DEF RunTypes
<1>6. /\ ProperRun(next) /\ Further(next)
      /\ \A k \in RunFields \ {"pc"} : next[k] = with[k]
  BY <1>5, AfterTasksProper
<1>7. Step(r, "load", next)
  BY <1>1
<1> HIDE DEF next
<1>8. RunsTypes' /\ Only(r) /\ runs'[r] = next
  BY <1>6, <1>7, StepIs DEF Typed
<1>9. next.work = with.work
  BY <1>6 DEF RunFields
<1>10. \A k \in RunFields \ {"pc", "work"} : next[k] = run[k]
  BY <1>3, <1>6
<1> QED BY <1>1, <1>3, <1>6, <1>8, <1>9, <1>10 DEF Same

\* The task whose turn it is is one of those to be evaluated.
LEMMA DoneIs ==
  ASSUME NEW run, RunTypes(run), run.status \in Active, NEW f
  PROVE  /\ ProperRun(Done(run, f)) /\ Further(Done(run, f))
         /\ DOMAIN Done(run, f).work = DOMAIN run.work \ {f}
         /\ \A g \in DOMAIN run.work \ {f} : Done(run, f).work[g] = run.work[g]
         /\ \A k \in RunFields \ {"pc", "work"} : Done(run, f)[k] = run[k]
<1> DEFINE with == [run EXCEPT !.work = Restrict(@, DOMAIN @ \ {f})]
           next == AfterTasks(with)
<1>1. /\ with = [k \in RunFields |-> with[k]] /\ with.work = Restrict(run.work, DOMAIN run.work \ {f})
      /\ \A k \in RunFields \ {"work"} : with[k] = run[k]
  BY DEF RunTypes, RunFields
<1>2. next = Done(run, f)
  BY DEF Done
<1> HIDE DEF with
<1>3. /\ DOMAIN with.work = DOMAIN run.work \ {f}
      /\ \A g \in DOMAIN run.work \ {f} : with.work[g] = run.work[g]
  BY <1>1 DEF Restrict
<1>4. WorkTypes(with.work)
  BY <1>3 DEF WorkTypes, RunTypes
<1>5. RunTypes(with) /\ with.status \in Active
  BY <1>1, <1>4 DEF RunTypes, RunFields
<1>6. /\ ProperRun(next) /\ Further(next)
      /\ \A k \in RunFields \ {"pc"} : next[k] = with[k]
  BY <1>5, AfterTasksProper
<1> HIDE DEF next
<1>7. next.work = with.work
  BY <1>6 DEF RunFields
<1>8. \A k \in RunFields \ {"pc", "work"} : next[k] = run[k]
  BY <1>1, <1>6
<1> QED BY <1>2, <1>3, <1>6, <1>7, <1>8

LEMMA EvaluateIs ==
  ASSUME Typed, NEW r \in Runs, Evaluate(r), NEW f, f = Turn(r)
  PROVE  /\ RunsTypes' /\ Only(r) /\ runs[r].pc = "evaluate" /\ Further(runs'[r])
         /\ f \in DOMAIN runs[r].work /\ f \in Feed
         /\ DOMAIN runs'[r].work = DOMAIN runs[r].work \ {f}
         /\ \A g \in DOMAIN runs[r].work \ {f} : runs'[r].work[g] = runs[r].work[g]
         /\ drafts' = [drafts EXCEPT ![f] = IF f[2] \in Drafting THEN runs[r].work[f] ELSE NoDraft]
         /\ Same(r, {"pc", "work"})
<1> DEFINE run == runs[r]
           next == Done(run, f)
<1>1. /\ run.pc = "evaluate" /\ Step(r, "evaluate", next)
      /\ drafts' = [drafts EXCEPT ![f] = IF f[2] \in Drafting THEN run.work[f] ELSE NoDraft]
  BY DEF Evaluate, Step
<1>2. RunTypes(run) /\ AtHand(run) /\ run.status \in Active
  BY <1>1, Works DEF Typed
<1>3. DOMAIN run.work # {}
  BY <1>1, <1>2 DEF AtHand
<1>4. f \in DOMAIN run.work /\ f \in Feed
  BY <1>2, <1>3 DEF Turn, RunTypes, WorkTypes
<1>5. /\ ProperRun(next) /\ Further(next)
      /\ DOMAIN next.work = DOMAIN run.work \ {f}
      /\ \A g \in DOMAIN run.work \ {f} : next.work[g] = run.work[g]
      /\ \A k \in RunFields \ {"pc", "work"} : next[k] = run[k]
  BY <1>2, DoneIs
<1>6. Step(r, "evaluate", next)
  BY <1>1
<1> HIDE DEF next
<1>7. RunsTypes' /\ Only(r) /\ runs'[r] = next
  BY <1>5, <1>6, StepIs DEF Typed
<1> QED BY <1>1, <1>4, <1>5, <1>7 DEF Same

LEMMA EvaluateFailsIs ==
  ASSUME Typed, NEW r \in Runs, EvaluateFails(r)
  PROVE  /\ RunsTypes' /\ Only(r) /\ runs'[r].calm = FALSE
         /\ runs[r].pc = "evaluate" /\ runs'[r].pc \in {"evaluate", "supersede", "finish"}
         /\ Same(r, {"pc", "work", "calm"})
<1> DEFINE run == runs[r]
           on == Done(run, Turn(r))
           next == [on EXCEPT !.calm = FALSE]
<1>1. run.pc = "evaluate" /\ Step(r, "evaluate", next)
  BY DEF EvaluateFails, Step
<1>2. RunTypes(run) /\ AtHand(run) /\ run.status \in Active
  BY <1>1, Works DEF Typed
<1>3. /\ ProperRun(on) /\ Further(on)
      /\ \A k \in RunFields \ {"pc", "work"} : on[k] = run[k]
  BY <1>2, DoneIs
<1> HIDE DEF on
<1>4. /\ next = [k \in RunFields |-> next[k]] /\ next.calm = FALSE
      /\ \A k \in RunFields \ {"calm"} : next[k] = on[k]
  BY <1>3 DEF ProperRun, RunTypes, RunFields
<1>5. Step(r, "evaluate", next)
  BY <1>1
<1> HIDE DEF next
<1>6. next.pc = on.pc /\ next.cut = on.cut /\ on.cut \in BOOLEAN
  BY <1>3, <1>4 DEF RunFields, ProperRun, RunTypes
<1>7. ProperRun(next)
  <2>1. \A k \in RunFields \ {"pc", "calm", "cut", "touched"} : next[k] = on[k]
    BY <1>4
  <2> QED BY <1>3, <1>4, <1>6, <2>1, AlteredProper
<1>8. RunsTypes' /\ Only(r) /\ runs'[r] = next
  BY <1>5, <1>7, StepIs DEF Typed
<1>9. \A k \in RunFields \ {"pc", "work", "calm"} : next[k] = run[k]
  BY <1>3, <1>4
<1> QED BY <1>1, <1>3, <1>4, <1>6, <1>8, <1>9 DEF Same, Further

LEMMA SupersedeIs ==
  ASSUME Typed, NEW r \in Runs, Supersede(r)
  PROVE  /\ RunsTypes' /\ Only(r) /\ runs[r].pc = "supersede" /\ runs'[r].pc = "finish"
         /\ Same(r, {"pc"})
<1> DEFINE run == runs[r]
           next == [run EXCEPT !.pc = "finish"]
<1>1. run.pc = "supersede" /\ Step(r, "supersede", next)
  BY DEF Supersede, Step
<1>2. RunTypes(run) /\ AtHand(run) /\ run.status \in Active
  BY <1>1, Works DEF Typed
<1>3. /\ next = [k \in RunFields |-> next[k]] /\ next.pc = "finish"
      /\ \A k \in RunFields \ {"pc"} : next[k] = run[k]
  BY <1>2 DEF RunTypes, RunFields
<1> HIDE DEF next
<1>4. next.calm = run.calm /\ next.cut = run.cut /\ next.status = run.status
  BY <1>3 DEF RunFields
<1>5. RunTypes(next)
  <2>1. next.calm \in BOOLEAN /\ next.cut \in BOOLEAN /\ next.pc \in Steps
    BY <1>2, <1>3, <1>4 DEF RunTypes, Steps
  <2>2. \A k \in RunFields \ {"pc", "calm", "cut", "touched"} : next[k] = run[k]
    BY <1>3
  <2> HIDE DEF run
  <2> QED BY <1>2, <1>3, <2>1, <2>2, AlteredTypes
<1>6. AtHand(next)
  BY <1>2, <1>3, <1>4 DEF AtHand, Active
<1>7. RunsTypes' /\ Only(r) /\ runs'[r] = next
  BY <1>1, <1>5, <1>6, StepIs DEF Typed, ProperRun
<1> QED BY <1>1, <1>3, <1>7 DEF Same

LEMMA EndIs ==
  ASSUME Typed, NEW r \in Runs, NEW at, NEW status \in {"completed", "failed"}, End(r, at, status)
  PROVE  /\ RunsTypes' /\ Only(r) /\ runs[r].pc = at /\ runs'[r].pc = "off"
         /\ runs'[r].status = status /\ runs'[r].calm = runs[r].calm
<1> DEFINE run == runs[r]
           next == [Unused EXCEPT !.status = status, !.by = run.by, !.calm = run.calm]
<1>1. run.pc = at /\ Step(r, at, next)
  BY DEF End, Step
<1>2. run.calm \in BOOLEAN
  BY DEF Typed, RunsTypes, ProperRun, RunTypes
<1>3. /\ next = [k \in RunFields |-> next[k]]
      /\ next.status = status /\ next.pc = "off" /\ next.calm = run.calm /\ next.todo = {}
      /\ next.page = 0 /\ next.rest = {} /\ next.found = Empty /\ next.changed = {}
      /\ next.work = Empty /\ next.gone = {} /\ next.errors = FALSE /\ next.cut = FALSE
  BY DEF Unused, RunFields
<1>4. FoundTypes(Empty) /\ WorkTypes(Empty)
  BY DEF FoundTypes, WorkTypes, Empty
<1> HIDE DEF next
<1>5. RunTypes(next)
  <2>1. next.status \in {"none", "completed", "failed"} /\ next.pc \in Steps
    BY <1>3 DEF Steps
  <2>2. next.page \in Nat /\ next.page < MaxPages
    BY <1>3
  <2>3. next.todo \subseteq Conns /\ next.rest \subseteq Tasks /\ next.changed \subseteq Feed \X Nat
        /\ next.gone \subseteq Feed
    BY <1>3
  <2>4. next.errors \in BOOLEAN /\ next.calm \in BOOLEAN /\ next.cut \in BOOLEAN
    BY <1>2, <1>3
  <2>5. FoundTypes(next.found) /\ WorkTypes(next.work)
    BY <1>3, <1>4
  <2>6. next = [k \in RunFields |-> next[k]]
    BY <1>3
  <2> QED BY <2>1, <2>2, <2>3, <2>4, <2>5, <2>6 DEF RunTypes
<1>6. AtHand(next)
  BY <1>3 DEF AtHand
<1>7. RunsTypes' /\ Only(r) /\ runs'[r] = next
  BY <1>1, <1>5, <1>6, StepIs DEF Typed, ProperRun
<1> QED BY <1>1, <1>3, <1>7

\* A connection that fails, a run that fails, and one that loses its process.
LEMMA ConnectionErrsIs ==
  ASSUME Typed, NEW r \in Runs, ConnectionErrs(r)
  PROVE  /\ RunsTypes' /\ Only(r) /\ runs'[r].calm = FALSE
         /\ runs[r].pc \in {"fetch", "persist", "find"} /\ runs'[r].pc = "failed"
         /\ Same(r, {"pc", "calm"})
<1> DEFINE run == runs[r]
           next == [run EXCEPT !.pc = "failed", !.calm = FALSE]
<1>1. run.pc \in {"fetch", "persist", "find"} /\ runs' = [runs EXCEPT ![r] = next]
  <2>1. run.pc \in {"fetch", "persist", "find"}
    BY DEF ConnectionErrs
  <2>2. runs' = [runs EXCEPT ![r].pc = "failed", ![r].calm = FALSE]
    BY DEF ConnectionErrs
  <2>3. [runs EXCEPT ![r].pc = "failed", ![r].calm = FALSE] = [runs EXCEPT ![r] = next]
    BY DEF Typed, RunsTypes
  <2> QED BY <2>1, <2>2, <2>3
<1>2. RunTypes(run) /\ AtHand(run) /\ run.status \in Active
  BY <1>1, Works DEF Typed
<1>3. /\ next = [k \in RunFields |-> next[k]] /\ next.pc = "failed" /\ next.calm = FALSE
      /\ \A k \in RunFields \ {"pc", "calm"} : next[k] = run[k]
  BY <1>2 DEF RunTypes, RunFields
<1>4. Step(r, run.pc, next)
  BY <1>1 DEF Step
<1> HIDE DEF next
<1>5. next.cut = run.cut /\ next.status = run.status /\ next.todo = run.todo
  BY <1>3 DEF RunFields
<1>6. RunTypes(next)
  <2>1. next.calm \in BOOLEAN /\ next.cut \in BOOLEAN /\ next.pc \in Steps
    BY <1>2, <1>3, <1>5 DEF RunTypes, Steps
  <2>2. \A k \in RunFields \ {"pc", "calm", "cut", "touched"} : next[k] = run[k]
    BY <1>3
  <2>3. next = [k \in RunFields |-> next[k]] /\ RunTypes(run)
    BY <1>2, <1>3
  <2> HIDE DEF run
  <2> QED BY <2>1, <2>2, <2>3, AlteredTypes
<1>7. AtHand(next)
  BY <1>1, <1>2, <1>3, <1>5 DEF AtHand, Active
<1>8. RunsTypes' /\ Only(r) /\ runs'[r] = next
  BY <1>4, <1>6, <1>7, StepIs DEF Typed, ProperRun
<1> QED BY <1>1, <1>3, <1>8 DEF Same

LEMMA RunErrsIs ==
  ASSUME Typed, NEW r \in Runs, RunErrs(r)
  PROVE  /\ RunsTypes' /\ Only(r) /\ runs'[r].calm = FALSE
         /\ runs[r].pc \in {"failed", "load", "supersede", "finish", "begin", "abort"}
         /\ runs'[r].pc \in {"abort", "off"}
         /\ Same(r, {"pc", "calm", "cut"})
<1> DEFINE run == runs[r]
<1>1. RunsTypes
  BY DEF Typed
<1>2. CASE run.pc \in {"failed", "load", "supersede", "finish"}
  <2> DEFINE next == [run EXCEPT !.pc = "abort", !.calm = FALSE]
  <2>1. runs' = [runs EXCEPT ![r].pc = "abort", ![r].calm = FALSE]
    BY <1>2 DEF RunErrs
  <2>2. [runs EXCEPT ![r].pc = "abort", ![r].calm = FALSE] = [runs EXCEPT ![r] = next]
    BY DEF Typed, RunsTypes
  <2>3. RunTypes(run) /\ AtHand(run) /\ run.status \in Active
    BY <1>2, Works DEF Typed
  <2>4. /\ next = [k \in RunFields |-> next[k]] /\ next.pc = "abort" /\ next.calm = FALSE
        /\ \A k \in RunFields \ {"pc", "calm"} : next[k] = run[k]
    BY <2>3 DEF RunTypes, RunFields
  <2>5. Step(r, run.pc, next)
    BY <2>1, <2>2 DEF Step
  <2> HIDE DEF next
  <2>6. next.cut = run.cut /\ next.status = run.status
    BY <2>4 DEF RunFields
  <2>7. RunTypes(next)
    <3>1. next.calm \in BOOLEAN /\ next.cut \in BOOLEAN /\ next.pc \in Steps
      BY <2>3, <2>4, <2>6 DEF RunTypes, Steps
    <3>2. \A k \in RunFields \ {"pc", "calm", "cut", "touched"} : next[k] = run[k]
      BY <2>4
    <3>3. next = [k \in RunFields |-> next[k]] /\ RunTypes(run)
      BY <2>3, <2>4
    <3> HIDE DEF run
    <3> QED BY <3>1, <3>2, <3>3, AlteredTypes
  <2>8. AtHand(next)
    BY <2>3, <2>4, <2>6 DEF AtHand, Active
  <2>9. RunsTypes' /\ Only(r) /\ runs'[r] = next
    BY <2>5, <2>7, <2>8, StepIs DEF Typed, ProperRun
  <2> QED BY <1>2, <2>4, <2>9 DEF Same
<1>3. CASE run.pc \in {"begin", "abort"}
  <2> DEFINE next == [run EXCEPT !.pc = "off", !.calm = FALSE, !.cut = TRUE]
  <2>1. runs' = [runs EXCEPT ![r].pc = "off", ![r].calm = FALSE, ![r].cut = TRUE]
    BY <1>3 DEF RunErrs
  <2>2. [runs EXCEPT ![r].pc = "off", ![r].calm = FALSE, ![r].cut = TRUE]
           = [runs EXCEPT ![r] = next]
    BY DEF Typed, RunsTypes
  <2>3. RunTypes(run) /\ AtHand(run)
    BY <1>3, Works DEF Typed
  <2>4. /\ next = [k \in RunFields |-> next[k]] /\ next.pc = "off" /\ next.calm = FALSE
        /\ next.cut = TRUE /\ \A k \in RunFields \ {"pc", "calm", "cut"} : next[k] = run[k]
    BY <2>3 DEF RunTypes, RunFields
  <2>5. Step(r, run.pc, next)
    BY <2>1, <2>2 DEF Step
  <2> HIDE DEF next
  <2>6. ProperRun(next)
    <3>1. next.calm \in BOOLEAN /\ next.cut \in BOOLEAN /\ next.pc \in {run.pc, "off"}
      BY <2>4
    <3>2. \A k \in RunFields \ {"pc", "calm", "cut", "touched"} : next[k] = run[k]
      BY <2>4
    <3>3. next = [k \in RunFields |-> next[k]] /\ ProperRun(run)
      BY <2>3, <2>4 DEF ProperRun
    <3> HIDE DEF run
    <3> QED BY <3>1, <3>2, <3>3, AlteredProper
  <2>7. RunsTypes' /\ Only(r) /\ runs'[r] = next
    BY <2>5, <2>6, StepIs DEF Typed
  <2> QED BY <1>3, <2>4, <2>7 DEF Same
<1> QED BY <1>2, <1>3 DEF RunErrs

LEMMA CrashIs ==
  ASSUME Typed, NEW a, Crash(a)
  PROVE  /\ RunsTypes'
         /\ \A r \in Runs : \/ runs'[r] = runs[r]
                            \/ runs'[r].calm = FALSE /\ runs'[r].pc = "off" /\ Same(r, {"pc", "calm", "cut"})
<1> DEFINE lost(r) == [runs[r] EXCEPT !.pc = "off", !.calm = FALSE, !.cut = TRUE]
<1>1. runs' = [r \in Runs |-> IF runs[r].by = a /\ runs[r].pc # "off" THEN lost(r) ELSE runs[r]]
  BY DEF Crash
<1> SUFFICES ASSUME NEW r \in Runs
             PROVE  /\ ProperRun(runs'[r])
                    /\ \/ runs'[r] = runs[r]
                       \/ runs'[r].calm = FALSE /\ runs'[r].pc = "off" /\ Same(r, {"pc", "calm", "cut"})
  BY <1>1 DEF RunsTypes
<1>2. ProperRun(runs[r])
  BY DEF Typed, RunsTypes
<1>3. runs'[r] = lost(r) \/ runs'[r] = runs[r]
  BY <1>1
<1>4. /\ lost(r) = [k \in RunFields |-> lost(r)[k]] /\ lost(r).pc = "off" /\ lost(r).calm = FALSE
      /\ lost(r).cut = TRUE /\ \A k \in RunFields \ {"pc", "calm", "cut"} : lost(r)[k] = runs[r][k]
  BY <1>2 DEF ProperRun, RunTypes, RunFields
<1> HIDE DEF lost
<1>5. ProperRun(lost(r))
  <2>1. \A k \in RunFields \ {"pc", "calm", "cut", "touched"} : lost(r)[k] = runs[r][k]
    BY <1>4
  <2> QED BY <1>2, <1>4, <2>1, AlteredProper
<1> QED BY <1>2, <1>3, <1>4, <1>5 DEF Same

\* The history of disturbances.
LEMMA DisturbedIs ==
  ASSUME RunsTypes, NEW R
  PROVE  /\ Disturbed(R) = [r \in Runs |-> Disturbed(R)[r]]
         /\ \A r \in Runs : /\ ProperRun(Disturbed(R)[r])
                            /\ Disturbed(R)[r].calm <=> runs[r].calm /\ r \notin R
                            /\ \A k \in RunFields \ {"calm"} : Disturbed(R)[r][k] = runs[r][k]
<1> DEFINE next(r) == [runs[r] EXCEPT !.calm = @ /\ r \notin R]
<1>1. Disturbed(R) = [r \in Runs |-> next(r)]
  BY DEF Disturbed
<1>2. ASSUME NEW r \in Runs
      PROVE  /\ ProperRun(next(r)) /\ (next(r).calm <=> runs[r].calm /\ r \notin R)
             /\ \A k \in RunFields \ {"calm"} : next(r)[k] = runs[r][k]
  <2>2. ProperRun(runs[r])
    BY DEF RunsTypes
  <2>3. PICK b \in BOOLEAN : b <=> runs[r].calm /\ r \notin R
    OBVIOUS
  <2>4. next(r) = [runs[r] EXCEPT !.calm = b]
    BY <2>2, <2>3, Zenon DEF ProperRun, RunTypes
  <2> HIDE DEF next
  <2>5. /\ next(r) = [k \in RunFields |-> next(r)[k]] /\ next(r).calm = b
        /\ \A k \in RunFields \ {"calm"} : next(r)[k] = runs[r][k]
    BY <2>2, <2>4 DEF ProperRun, RunTypes, RunFields
  <2>6. next(r).pc = runs[r].pc /\ next(r).cut = runs[r].cut /\ runs[r].cut \in BOOLEAN
    BY <2>2, <2>5 DEF ProperRun, RunTypes, RunFields
  <2>7. ProperRun(next(r))
    <3>1. \A k \in RunFields \ {"pc", "calm", "cut", "touched"} : next(r)[k] = runs[r][k]
      BY <2>5
    <3> QED BY <2>2, <2>5, <2>6, <3>1, AlteredProper
  <2> QED BY <2>3, <2>5, <2>7
<1> HIDE DEF next
<1>3. \A r \in Runs : Disturbed(R)[r] = next(r)
  BY <1>1
<1>4. Disturbed(R) = [r \in Runs |-> Disturbed(R)[r]]
  BY <1>1, Zenon
<1>5. \A r \in Runs : Disturbed(R)[r].calm <=> runs[r].calm /\ r \notin R
  BY <1>2, <1>3, Zenon
<1>6. \A r \in Runs : /\ ProperRun(Disturbed(R)[r])
                      /\ \A k \in RunFields \ {"calm"} : Disturbed(R)[r][k] = runs[r][k]
  BY <1>2, <1>3, Zenon
<1> QED BY <1>4, <1>5, <1>6

LEMMA StartedIs ==
  ASSUME Typed, NEW a, Started(a)
  PROVE  \E r \in Runs :
           /\ RunsTypes' /\ runs[r].status = "none"
           /\ runs'[r].status = "queued" /\ runs'[r].pc = "begin"
           /\ Same(r, {"calm", "status", "by", "pc"})
           /\ \A q \in Runs \ {r} : Same(q, {"calm"})
           /\ \A q \in Runs : runs'[q].calm <=>
                runs[q].calm /\ (ActiveRuns # {} => q \notin ActiveRuns \cup {r})
           /\ client' \in {client, r}
<1>1. PICK r \in Runs :
        /\ runs[r].status = "none"
        /\ runs' = [Disturbed(IF ActiveRuns = {} THEN {} ELSE ActiveRuns \cup {r})
                    EXCEPT ![r].status = "queued", ![r].by = a, ![r].pc = "begin"]
        /\ client' = IF a = "browser" THEN r ELSE client
  BY DEF Started
<1>0. PICK R : R = IF ActiveRuns = {} THEN {} ELSE ActiveRuns \cup {r}
  OBVIOUS
<1> DEFINE d == Disturbed(R)
           next == [d[r] EXCEPT !.status = "queued", !.by = a, !.pc = "begin"]
<1>2. /\ d = [q \in Runs |-> d[q]]
      /\ \A q \in Runs : /\ ProperRun(d[q])
                         /\ d[q].calm <=> runs[q].calm /\ q \notin R
                         /\ \A k \in RunFields \ {"calm"} : d[q][k] = runs[q][k]
  BY DisturbedIs DEF Typed
<1>3. runs' = [d EXCEPT ![r].status = "queued", ![r].by = a, ![r].pc = "begin"]
  BY <1>1, <1>0
<1> HIDE DEF d
<1>4. runs' = [q \in Runs |-> IF q = r THEN next ELSE d[q]]
  BY <1>2, <1>3
<1>5. /\ next = [k \in RunFields |-> next[k]] /\ next.status = "queued" /\ next.pc = "begin"
      /\ \A k \in RunFields \ {"status", "by", "pc"} : next[k] = d[r][k]
  <2>1. PICK x : x = d[r]
    OBVIOUS
  <2>2. x = [k \in RunFields |-> x[k]]
    BY <1>2, <2>1, Zenon DEF ProperRun, RunTypes
  <2>3. next = [x EXCEPT !.status = "queued", !.by = a, !.pc = "begin"]
    BY <2>1
  <2> HIDE DEF next
  <2>4. /\ next = [k \in RunFields |-> next[k]] /\ next.status = "queued" /\ next.pc = "begin"
        /\ \A k \in RunFields \ {"status", "by", "pc"} : next[k] = x[k]
    BY <2>2, <2>3 DEF RunFields
  <2> QED BY <2>1, <2>4
<1> HIDE DEF next
<1>6. /\ next.changed = d[r].changed /\ next.gone = d[r].gone
      /\ next.todo = d[r].todo /\ next.page = d[r].page /\ next.rest = d[r].rest
      /\ next.found = d[r].found /\ next.work = d[r].work
  BY <1>5 DEF RunFields
<1>60. d[r].status = "none"
  <2>1. d[r].status = runs[r].status
    BY <1>2 DEF RunFields
  <2> QED BY <1>1, <2>1
<1>61. next.errors = d[r].errors /\ next.calm = d[r].calm /\ next.cut = d[r].cut
  BY <1>5 DEF RunFields
<1>7. ProperRun(next)
  <2>1. ProperRun(d[r])
    BY <1>2
  <2>2. RunTypes(next)
    <3>1. next.status \in Active /\ next.pc \in Steps
      BY <1>5 DEF Active, Steps
    <3>2. next = [k \in RunFields |-> next[k]]
      BY <1>5
    <3> QED BY <1>6, <1>61, <2>1, <3>1, <3>2 DEF ProperRun, RunTypes
  <2>3. AtHand(next)
    BY <1>5, <1>6, <1>60, <2>1 DEF ProperRun, AtHand, Active
  <2> QED BY <2>2, <2>3 DEF ProperRun
<1>8. \A q \in Runs : runs'[q] = IF q = r THEN next ELSE d[q]
  BY <1>4
<1>9. RunsTypes'
  <2>1. \A q \in Runs : ProperRun(runs'[q])
    BY <1>2, <1>7, <1>8
  <2>2. runs' = [q \in Runs |-> runs'[q]]
    BY <1>4
  <2> QED BY <2>1, <2>2 DEF RunsTypes
<1>10. Same(r, {"calm", "status", "by", "pc"})
  <2>1. \A k \in RunFields \ {"calm", "status", "by", "pc"} : next[k] = runs[r][k]
    BY <1>2, <1>5
  <2> QED BY <1>8, <2>1 DEF Same
<1>11. \A q \in Runs \ {r} : Same(q, {"calm"})
  BY <1>2, <1>8 DEF Same
<1>12. \A q \in Runs : runs'[q].calm <=> runs[q].calm /\ q \notin R
  BY <1>2, <1>61, <1>8
<1>13. \A q \in Runs : q \notin R <=> (ActiveRuns # {} => q \notin ActiveRuns \cup {r})
  BY <1>0
<1>14. runs'[r].status = "queued" /\ runs'[r].pc = "begin"
  BY <1>5, <1>8
<1> QED BY <1>1, <1>9, <1>10, <1>11, <1>12, <1>13, <1>14

\* The history of what was touched at the provider.
LEMMA TouchedIs ==
  ASSUME RunsTypes, NEW T,
         runs' = [r \in Runs |-> IF r \in ActiveRuns
                                 THEN [runs[r] EXCEPT !.touched = @ \cup T] ELSE runs[r]]
  PROVE  /\ RunsTypes'
         /\ \A r \in Runs : /\ Same(r, {"touched"}) /\ runs[r].touched \subseteq runs'[r].touched
                            /\ r \in ActiveRuns => runs'[r].touched = runs[r].touched \cup T
<1> SUFFICES ASSUME NEW r \in Runs
             PROVE  /\ ProperRun(runs'[r])
                    /\ Same(r, {"touched"}) /\ runs[r].touched \subseteq runs'[r].touched
                    /\ r \in ActiveRuns => runs'[r].touched = runs[r].touched \cup T
  BY DEF RunsTypes
<1> DEFINE next == [runs[r] EXCEPT !.touched = @ \cup T]
<1>1. ProperRun(runs[r])
  BY DEF RunsTypes
<1>2. /\ next = [k \in RunFields |-> next[k]] /\ next.touched = runs[r].touched \cup T
      /\ \A k \in RunFields \ {"touched"} : next[k] = runs[r][k]
  BY <1>1 DEF ProperRun, RunTypes, RunFields
<1>3. runs'[r] = IF r \in ActiveRuns THEN next ELSE runs[r]
  OBVIOUS
<1> HIDE DEF next
<1>4. /\ next.pc = runs[r].pc /\ next.calm = runs[r].calm /\ runs[r].calm \in BOOLEAN
      /\ next.cut = runs[r].cut /\ runs[r].cut \in BOOLEAN
  BY <1>1, <1>2 DEF ProperRun, RunTypes, RunFields
<1>5. ProperRun(next)
  <2>1. \A k \in RunFields \ {"pc", "calm", "cut", "touched"} : next[k] = runs[r][k]
    BY <1>2
  <2> QED BY <1>1, <1>2, <1>4, <2>1, AlteredProper
<1> QED BY <1>1, <1>2, <1>3, <1>5 DEF Same

-----------------------------------------------------------------------------
(* Type correctness.                                                       *)

LEMMA InitTyped == Init => Typed
<1> SUFFICES ASSUME Init PROVE Typed
  OBVIOUS
<1>1. SiteTypes
  BY DEF Init, SiteTypes, Versions
<1>2. RowTypes
  BY DEF Init, RowTypes, Empty
<1>3. DraftTypes
  BY DEF Init, DraftTypes, NoDraft
<1>4. RunsTypes
  <2>1. FoundTypes(Empty) /\ WorkTypes(Empty)
    BY DEF FoundTypes, WorkTypes, Empty
  <2>2. Unused = [k \in RunFields |-> Unused[k]]
    BY DEF Unused, RunFields
  <2>3. /\ Unused.status = "none" /\ Unused.pc = "off" /\ Unused.todo = {} /\ Unused.page = 0
        /\ Unused.rest = {} /\ Unused.found = Empty /\ Unused.changed = {} /\ Unused.work = Empty
        /\ Unused.gone = {} /\ Unused.errors = FALSE /\ Unused.calm = TRUE /\ Unused.cut = FALSE
    BY DEF Unused
  <2>4. RunTypes(Unused)
    <3>1. Unused.status \in {"none", "completed", "failed"} /\ Unused.pc \in Steps
      BY <2>3 DEF Steps
    <3>2. Unused.page \in Nat /\ Unused.page < MaxPages
      BY <2>3
    <3>3. /\ Unused.todo \subseteq Conns /\ Unused.rest \subseteq Tasks
          /\ Unused.changed \subseteq Feed \X Nat /\ Unused.gone \subseteq Feed
      BY <2>3
    <3>4. Unused.errors \in BOOLEAN /\ Unused.calm \in BOOLEAN /\ Unused.cut \in BOOLEAN
      BY <2>3
    <3>5. FoundTypes(Unused.found) /\ WorkTypes(Unused.work)
      BY <2>1, <2>3
    <3> QED BY <2>2, <3>1, <3>2, <3>3, <3>4, <3>5 DEF RunTypes
  <2>5. ProperRun(Unused)
    BY <2>3, <2>4 DEF ProperRun, AtHand
  <2> QED BY <2>5 DEF Init, RunsTypes
<1>5. RequestTypes
  BY DEF Init, RequestTypes
<1> QED BY <1>1, <1>2, <1>3, <1>4, <1>5 DEF Typed

\* Nothing but the runs changes, and the count of events.
LEMMA OnlyRunsTyped ==
  ASSUME Typed, UNCHANGED <<site, tables, clock, requests>>, RunsTypes', events' \in 0..MaxEvents
  PROVE  Typed'
BY DEF Typed, SiteTypes, RowTypes, DraftTypes, RequestTypes, site, tables, requests

LEMMA EventIs == ASSUME Typed, Event PROVE events' \in 0..MaxEvents /\ events' \in Versions
BY DEF Typed, RequestTypes, Event, Versions

LEMMA FaultIs == ASSUME Typed, NEW kind, Fault(kind) PROVE events' \in 0..MaxEvents
BY EventIs DEF Fault

\* What happens outside the code keeps the types.
LEMMA OutsideTyped ==
  ASSUME Typed, NEW t \in Tasks, NEW in \in Moves, RemoteChange(t, in)
  PROVE  Typed'
<1>1. RunsTypes'
  <2>1. runs' = [r \in Runs |-> IF r \in ActiveRuns
                                THEN [runs[r] EXCEPT !.touched = @ \cup {t}] ELSE runs[r]]
    BY DEF RemoteChange
  <2> QED BY <2>1, TouchedIs DEF Typed
<1>2. SiteTypes'
  <2>1. events' \in Versions /\ in \subseteq Scopes
    BY EventIs DEF RemoteChange
  <2>2. /\ remote' = [remote EXCEPT ![t] = [ver |-> events', in |-> in]]
        /\ provider' = provider /\ projects' = projects
    BY DEF RemoteChange
  <2> QED BY <2>1, <2>2 DEF Typed, SiteTypes
<1>3. events' \in 0..MaxEvents
  BY EventIs DEF RemoteChange
<1>4. UNCHANGED <<tables, clock, requests>>
  BY DEF RemoteChange
<1> QED BY <1>1, <1>2, <1>3, <1>4 DEF Typed, RowTypes, DraftTypes, RequestTypes, tables, requests

LEMMA ProjectTyped ==
  ASSUME Typed, NEW p \in Projects, ProjectChange(p)
  PROVE  Typed'
<1>1. RunsTypes'
  <2>1. PICK T : T = {t \in Tasks : remote[t].in \cap {p, HomeOf[p]} # {}}
    OBVIOUS
  <2>2. runs' = [r \in Runs |-> IF r \in ActiveRuns
                                THEN [runs[r] EXCEPT !.touched = @ \cup T] ELSE runs[r]]
    BY <2>1 DEF ProjectChange
  <2> QED BY <2>2, TouchedIs DEF Typed
<1>2. SiteTypes'
  BY DEF ProjectChange, Typed, SiteTypes
<1>3. events' \in 0..MaxEvents
  BY EventIs DEF ProjectChange
<1>4. UNCHANGED <<tables, clock, requests>>
  BY DEF ProjectChange
<1> QED BY <1>1, <1>2, <1>3, <1>4 DEF Typed, RowTypes, DraftTypes, RequestTypes, tables, requests

LEMMA ConnectionsTyped ==
  ASSUME Typed, NEW c \in Conns, CreateConnection(c) \/ DeleteConnection(c)
  PROVE  Typed'
<1>1. RunsTypes'
  <2>1. \A R : runs' = Disturbed(R) => RunsTypes'
    <3> SUFFICES ASSUME NEW R, runs' = Disturbed(R) PROVE RunsTypes'
      OBVIOUS
    <3>1. /\ Disturbed(R) = [r \in Runs |-> Disturbed(R)[r]]
          /\ \A r \in Runs : ProperRun(Disturbed(R)[r])
      BY DisturbedIs DEF Typed
    <3>2. PICK d : d = Disturbed(R)
      OBVIOUS
    <3>3. runs' = d
      BY <3>2
    <3>4. d = [r \in Runs |-> d[r]] /\ \A r \in Runs : ProperRun(d[r])
      BY <3>1, <3>2
    <3> QED BY <3>3, <3>4 DEF RunsTypes
  <2> QED BY <2>1 DEF CreateConnection, DeleteConnection
<1>2. events' \in 0..MaxEvents
  BY EventIs DEF CreateConnection, DeleteConnection
<1>3. SiteTypes' /\ DraftTypes' /\ RequestTypes'
  BY <1>2 DEF CreateConnection, DeleteConnection, Typed, SiteTypes, DraftTypes, RequestTypes,
              site, requests
<1>4. RowTypes'
  <2>1. CASE CreateConnection(c)
    <3>1. /\ conns' = conns \cup {c} /\ wanted' = wanted \ {c} /\ rows' = rows /\ clock' = clock
      BY <2>1 DEF CreateConnection
    <3> QED BY <3>1 DEF Typed, RowTypes
  <2>2. CASE DeleteConnection(c)
    <3>1. /\ conns' = conns \ {c} /\ wanted' = wanted /\ clock' = clock
          /\ rows' = Restrict(rows, {f \in DOMAIN rows : f[1] # c})
      BY <2>2 DEF DeleteConnection
    <3>2. /\ DOMAIN rows' = {f \in DOMAIN rows : f[1] # c}
          /\ \A f \in DOMAIN rows' : rows'[f] = rows[f]
      BY <3>1 DEF Restrict
    <3> QED BY <3>1, <3>2 DEF Typed, RowTypes
  <2> QED BY <2>1, <2>2
<1> QED BY <1>1, <1>3, <1>4 DEF Typed

LEMMA RequestsTyped ==
  ASSUME Typed, \/ Join \/ IntervalPasses \/ Poll \/ \E a \in Askers : Ask(a) \/ Started(a) \/ Crash(a)
  PROVE  Typed'
<1>1. CASE Join
  BY <1>1 DEF Join, Typed, SiteTypes, RowTypes, DraftTypes, RunsTypes, RequestTypes, site, tables,
             ActiveRuns
<1>2. CASE IntervalPasses
  BY <1>2 DEF IntervalPasses, Typed, SiteTypes, RowTypes, DraftTypes, RunsTypes, RequestTypes,
             site, tables
<1>3. CASE Poll
  <2>1. events' \in 0..MaxEvents
    BY <1>3, FaultIs DEF Poll, Typed, RequestTypes
  <2> QED BY <1>3, <2>1 DEF Poll, Typed, SiteTypes, RowTypes, DraftTypes, RunsTypes, RequestTypes,
               site, tables
<1>4. ASSUME NEW a \in Askers, Ask(a) PROVE Typed'
  BY <1>4 DEF Ask, Typed, SiteTypes, RowTypes, DraftTypes, RunsTypes, RequestTypes, site, tables
<1>5. ASSUME NEW a \in Askers, Started(a) PROVE Typed'
  <2>1. RunsTypes' /\ \E r \in Runs : client' \in {client, r}
    BY <1>5, StartedIs
  <2>2. asking' = asking \ {a} /\ UNCHANGED <<site, tables, clock, events>>
    BY <1>5 DEF Started
  <2> QED BY <2>1, <2>2 DEF Typed, SiteTypes, RowTypes, DraftTypes, RequestTypes, site, tables
<1>6. ASSUME NEW a \in Askers, Crash(a) PROVE Typed'
  <2>1. RunsTypes' /\ events' \in 0..MaxEvents
    <3>1. RunsTypes'
      BY <1>6, CrashIs
    <3>2. Fault("crash")
      BY <1>6 DEF Crash
    <3> QED BY <3>1, <3>2, FaultIs
  <2>2. asking' = asking \ {a} /\ UNCHANGED <<site, tables, clock, client>>
    BY <1>6 DEF Crash
  <2> QED BY <2>1, <2>2 DEF Typed, SiteTypes, RowTypes, DraftTypes, RequestTypes, site, tables
<1> QED BY <1>1, <1>2, <1>3, <1>4, <1>5, <1>6

LEMMA RunStepTyped ==
  ASSUME Typed, NEW r \in Runs, RunStep(r)
  PROVE  Typed'
<1>0. events \in 0..MaxEvents
  BY DEF Typed, RequestTypes
<1>1. CASE Begin(r)
  BY <1>0, <1>1, BeginIs, OnlyRunsTyped DEF Begin, Local
<1>2. CASE FetchPage(r)
  BY <1>0, <1>2, FetchPageIs, OnlyRunsTyped DEF FetchPage, Local
<1>3. CASE Persist(r)
  <2>1. PICK c, found : c = Due(runs[r]) /\ found = runs[r].found
    OBVIOUS
  <2>0. Stored(c, found)
    BY <1>3, <2>1, PersistIs
  <2>2. RunsTypes' /\ clock' = clock + 1 /\ c \in conns
    BY <1>3, <2>1, PersistIs
  <2>3. DOMAIN rows' = {f \in DOMAIN rows : f[1] # c} \cup {<<c, t>> : t \in DOMAIN found}
    BY <2>0 DEF Stored
  <2>4. \A f \in DOMAIN rows : f[1] # c => rows'[f] = rows[f]
    BY <2>0 DEF Stored
  <2>5. \A t \in DOMAIN found : /\ rows'[<<c, t>>].ver = found[t].ver
                                /\ rows'[<<c, t>>].in = found[t].in
                                /\ rows'[<<c, t>>].at = clock + 1
                                /\ rows'[<<c, t>>].id \in Nat /\ rows'[<<c, t>>].id <= clock + 1
    BY <2>0 DEF Stored
  <2>6. FoundTypes(found)
    BY <2>1 DEF Typed, RunsTypes, ProperRun, RunTypes
  <2>7. UNCHANGED <<site, conns, wanted, drafts, requests, events>>
    BY <1>3 DEF Persist
  <2>8. RowTypes'
    <3>1. conns' = conns /\ wanted' = wanted
      BY <2>7
    <3>2. DOMAIN rows' \subseteq Feed
      BY <2>2, <2>3, <2>6 DEF Typed, RowTypes, FoundTypes, Feed
    <3>3. ASSUME NEW f \in DOMAIN rows'
          PROVE  /\ f[1] \in conns /\ rows'[f].ver \in Versions /\ rows'[f].in # {}
                 /\ rows'[f].id \in Nat /\ rows'[f].at \in Nat
                 /\ rows'[f].id <= rows'[f].at /\ rows'[f].at <= clock + 1
      <4>1. CASE f \in DOMAIN rows /\ f[1] # c
        <5>1. rows'[f] = rows[f]
          BY <2>4, <4>1
        <5> QED BY <4>1, <5>1 DEF Typed, RowTypes
      <4>2. ASSUME NEW t \in DOMAIN found, f = <<c, t>>
            PROVE  /\ f[1] \in conns /\ rows'[f].ver \in Versions /\ rows'[f].in # {}
                   /\ rows'[f].id \in Nat /\ rows'[f].at \in Nat
                   /\ rows'[f].id <= rows'[f].at /\ rows'[f].at <= clock + 1
        <5>1. found[t].ver \in Versions /\ found[t].in # {} /\ clock \in Nat
          BY <2>6 DEF FoundTypes, Typed, RowTypes
        <5>2. f[1] = c
          BY <4>2
        <5> QED BY <2>2, <2>5, <4>2, <5>1, <5>2
      <4> QED BY <2>3, <4>1, <4>2
    <3>4. clock' \in Nat
      BY <2>2 DEF Typed, RowTypes
    <3> QED BY <2>2, <3>1, <3>2, <3>3, <3>4 DEF Typed, RowTypes
  <2> QED BY <2>2, <2>7, <2>8 DEF Typed, SiteTypes, DraftTypes, RequestTypes, site, requests
<1>4. CASE DeleteAll(r)
  <2>1. RunsTypes' /\ clock' = clock + 1
    BY <1>4, DeleteAllIs
  <2>2. /\ DOMAIN rows' = {f \in DOMAIN rows : f[1] # Due(runs[r])}
        /\ \A f \in DOMAIN rows' : rows'[f] = rows[f]
    BY <1>4, DeleteAllIs
  <2>3. UNCHANGED <<site, conns, wanted, drafts, requests, events>>
    BY <1>4 DEF DeleteAll
  <2>4. RowTypes'
    <3>1. clock' \in Nat /\ \A n \in Nat : n <= clock => n <= clock'
      BY <2>1 DEF Typed, RowTypes
    <3> QED BY <2>2, <2>3, <3>1 DEF Typed, RowTypes
  <2> QED BY <2>1, <2>3, <2>4 DEF Typed, SiteTypes, DraftTypes, RequestTypes, site, requests
<1>5. CASE PersistRefused(r)
  BY <1>0, <1>5, PersistRefusedIs, OnlyRunsTyped DEF PersistRefused, Local
<1>6. CASE FindPersisted(r)
  BY <1>0, <1>6, FindPersistedIs, OnlyRunsTyped DEF FindPersisted, Local
<1>7. CASE MissingScope(r)
  BY <1>0, <1>7, SkipScopeIs, OnlyRunsTyped DEF MissingScope, SkipScope
<1>8. CASE ConnectionFailed(r)
  BY <1>0, <1>8, ConnectionFailedIs, OnlyRunsTyped DEF ConnectionFailed, Local
<1>9. CASE Load(r)
  <2>1. PICK kept : kept = {f \in DOMAIN rows : <<f, rows[f].id>> \in runs[r].changed}
    OBVIOUS
  <2>2. RunsTypes'
    BY <1>9, <2>1, LoadIs
  <2> QED BY <1>0, <1>9, <2>2, OnlyRunsTyped DEF Load, Local
<1>10. CASE Evaluate(r)
  <2>1. PICK f : f = Turn(r)
    OBVIOUS
  <2>2. /\ RunsTypes' /\ f \in DOMAIN runs[r].work
        /\ drafts' = [drafts EXCEPT ![f] = IF f[2] \in Drafting THEN runs[r].work[f] ELSE NoDraft]
    BY <1>10, <2>1, EvaluateIs
  <2>3. runs[r].work[f] \in 0..NoDraft /\ NoDraft \in 0..NoDraft
    BY <2>2 DEF Typed, RunsTypes, ProperRun, RunTypes, WorkTypes, Versions, NoDraft
  <2>4. DraftTypes'
    BY <2>2, <2>3 DEF Typed, DraftTypes, NoDraft
  <2>5. UNCHANGED <<site, conns, wanted, rows, clock, requests, events>>
    BY <1>10 DEF Evaluate
  <2> QED BY <2>2, <2>4, <2>5 DEF Typed, SiteTypes, RowTypes, RequestTypes, site, requests
<1>11. CASE Supersede(r)
  <2>1. RunsTypes'
    BY <1>11, SupersedeIs
  <2>2. drafts' = [f \in Feed |-> IF f \in runs[r].gone THEN NoDraft ELSE drafts[f]]
    BY <1>11 DEF Supersede
  <2>3. DraftTypes'
    BY <2>2 DEF Typed, DraftTypes, NoDraft
  <2>4. UNCHANGED <<site, conns, wanted, rows, clock, requests, events>>
    BY <1>11 DEF Supersede
  <2> QED BY <2>1, <2>3, <2>4 DEF Typed, SiteTypes, RowTypes, RequestTypes, site, requests
<1>12. ASSUME NEW at, NEW status \in {"completed", "failed"}, End(r, at, status) PROVE Typed'
  <2>1. RunsTypes'
    BY <1>12, EndIs
  <2>2. UNCHANGED <<site, tables, clock, asking, client, events>>
    BY <1>12 DEF End
  <2> QED BY <2>1, <2>2 DEF Typed, SiteTypes, RowTypes, DraftTypes, RequestTypes, site, tables
<1>13. CASE Finish(r)
  BY <1>12, <1>13 DEF Finish
<1>14. CASE Abort(r)
  BY <1>12, <1>14 DEF Abort
<1> QED BY <1>1, <1>2, <1>3, <1>4, <1>5, <1>6, <1>7, <1>8, <1>9, <1>10, <1>11, <1>13, <1>14
        DEF RunStep

LEMMA FaultTyped ==
  ASSUME Typed, NEW r \in Runs, ScopeLost(r) \/ ConnectionErrs(r) \/ EvaluateFails(r) \/ RunErrs(r)
  PROVE  Typed'
<1>1. CASE ScopeLost(r)
  BY <1>1, FaultIs, SkipScopeIs, OnlyRunsTyped DEF ScopeLost, SkipScope
<1>2. CASE ConnectionErrs(r)
  BY <1>2, FaultIs, ConnectionErrsIs, OnlyRunsTyped DEF ConnectionErrs
<1>3. CASE EvaluateFails(r)
  BY <1>3, FaultIs, EvaluateFailsIs, OnlyRunsTyped DEF EvaluateFails
<1>4. CASE RunErrs(r)
  BY <1>4, FaultIs, RunErrsIs, OnlyRunsTyped DEF RunErrs
<1> QED BY <1>1, <1>2, <1>3, <1>4

LEMMA TypedStep == Typed /\ [Next]_vars => Typed'
<1> SUFFICES ASSUME Typed, [Next]_vars PROVE Typed'
  OBVIOUS
<1>1. CASE UNCHANGED vars
  BY <1>1 DEF vars, Typed, SiteTypes, RowTypes, DraftTypes, RunsTypes, RequestTypes
<1>2. CASE Next
  BY <1>2, OutsideTyped, ProjectTyped, ConnectionsTyped, RequestsTyped, RunStepTyped, FaultTyped
     DEF Next
<1> QED BY <1>1, <1>2

LEMMA TypedIs == Typed => TypeOK
BY DEF Typed, SiteTypes, RowTypes, DraftTypes, RunsTypes, RequestTypes, ProperRun, RunTypes, AtHand, TypeOK

\* What the tables hold and what the runs of executeRun have at hand is well typed: rows belong
\* to connections that exist and have a scope, and a run at work has an active status.
THEOREM SyncTypesHold == Spec => []TypeOK
<1>1. Spec => []Typed
  BY InitTyped, TypedStep, PTL DEF Spec
<1> QED BY <1>1, TypedIs, PTL

-----------------------------------------------------------------------------
(* Drafts follow the rows.                                                 *)

\* The draft of f is what it should be, or run r will come to it.
Settled(r, f) == drafts[f] = Expected(f) \/ Pending(runs[r], f)
DraftsSettled(r, F) == Remembered(runs[r]) /\ \A f \in F : Settled(r, f)

\* A run whose fields that drafts depend on are those of another one.
DraftFields == {"pc", "todo", "found", "changed", "work", "gone"}

LEMMA InitDrafts == Init => DraftInv
<1> SUFFICES ASSUME Init PROVE DraftInv
  OBVIOUS
<1>1. \A r \in Runs : runs[r].status = "none" /\ runs[r].pc = "off"
  BY DEF Init, Unused
<1>2. ActiveRuns = {} /\ AloneIfCalm
  BY <1>1 DEF ActiveRuns, AloneIfCalm, Active
<1>3. \A f \in Feed : drafts[f] = Expected(f)
  BY DEF Init, Expected, Empty
<1> QED BY <1>2, <1>3 DEF DraftInv

\* The one active run of an undisturbed state.
LEMMA OneActive ==
  ASSUME Typed, DraftInv, AllCalm, NEW r \in Runs, runs[r].pc # "off"
  PROVE  ActiveRuns = {r} /\ DraftsSettled(r, Feed)
<1>1. runs[r].status \in Active
  BY Works DEF Typed
<1>2. ActiveRuns = {r}
  BY <1>1 DEF DraftInv, AloneIfCalm, AllCalm, ActiveRuns
<1> QED BY <1>2 DEF DraftInv, DraftsSettled, Settled

\* Runs that no step makes active, calm or worse.
LEMMA AloneKept ==
  ASSUME AloneIfCalm,
         \A q \in Runs : /\ runs'[q].calm => runs[q].calm
                         /\ runs'[q].status \in Active => runs[q].status \in Active
                         /\ runs'[q].calm /\ runs'[q].status \in Active /\ runs'[q].pc = "off" =>
                              runs[q].pc = "off"
                         /\ runs'[q].calm /\ runs'[q].pc = "abort" => runs[q].pc = "abort"
  PROVE  AloneIfCalm'
BY DEF AloneIfCalm

\* A step of run r that leaves its drafts settled.
LEMMA RunKeepsDrafts ==
  ASSUME Typed, DraftInv, NEW r \in Runs, runs[r].pc # "off", Only(r),
         runs'[r].status \in Active, runs'[r].calm => runs[r].calm,
         runs'[r].calm => runs'[r].pc \notin {"off", "abort"},
         AllCalm => DraftsSettled(r, Feed)'
  PROVE  DraftInv'
<1>1. runs[r].status \in Active
  BY Works DEF Typed
<1>2. AloneIfCalm'
  BY <1>1, AloneKept DEF DraftInv, Only
<1>3. AllCalm' => AllCalm
  BY DEF AllCalm, Only
<1>4. ASSUME AllCalm' PROVE /\ \A q \in ActiveRuns' : Remembered(runs[q])'
                            /\ \A f \in Feed : (drafts[f] = Expected(f) \/ \E q \in ActiveRuns : Pending(runs[q], f))'
  <2>1. AllCalm /\ ActiveRuns = {r} /\ DraftsSettled(r, Feed)'
    BY <1>3, <1>4, OneActive
  <2>2. \A q \in ActiveRuns' : q = r
    BY <1>1, <2>1 DEF ActiveRuns, Only
  <2>3. r \in ActiveRuns'
    BY DEF ActiveRuns
  <2> QED BY <2>1, <2>2, <2>3 DEF DraftsSettled, Settled
<1> QED BY <1>2, <1>4 DEF DraftInv

\* A step that leaves the rows, the drafts and what the runs have for them alone.
LEMMA DraftsKept ==
  ASSUME Typed, DraftInv, UNCHANGED <<rows, drafts>>,
         \A q \in Runs : Same(q, {"calm", "touched", "cut"}) /\ (runs'[q].calm => runs[q].calm)
  PROVE  DraftInv'
<1>1. \A q \in Runs : /\ runs'[q].status = runs[q].status /\ runs'[q].pc = runs[q].pc
                      /\ runs'[q].todo = runs[q].todo /\ runs'[q].found = runs[q].found
                      /\ runs'[q].changed = runs[q].changed /\ runs'[q].work = runs[q].work
                      /\ runs'[q].gone = runs[q].gone
  BY DEF Same, RunFields
<1>2. AloneIfCalm'
  BY <1>1, AloneKept DEF DraftInv
<1>3. \A q \in Runs : Due(runs'[q]) = Due(runs[q])
  BY <1>1 DEF Due
<1>4. (AllCalm' => AllCalm) /\ ActiveRuns' = ActiveRuns
  BY <1>1 DEF AllCalm, ActiveRuns
<1>5. ASSUME NEW q \in Runs PROVE Remembered(runs[q])' <=> Remembered(runs[q])
  BY <1>1, <1>3 DEF Remembered
<1>6. ASSUME NEW q \in Runs, NEW f PROVE Pending(runs[q], f)' <=> Pending(runs[q], f)
  BY <1>1, <1>3 DEF Pending
<1>7. \A f : Expected(f)' = Expected(f)
  BY DEF Expected
<1>8. ActiveRuns \subseteq Runs
  BY DEF ActiveRuns
<1> QED BY <1>2, <1>4, <1>5, <1>6, <1>7, <1>8 DEF DraftInv

\* The steps of run r that leave the rows and the drafts alone, and its last changes of them.
LEMMA CollectingKeepsDrafts ==
  ASSUME Typed, NEW r \in Runs, NEW F \in SUBSET Feed, DraftsSettled(r, F), UNCHANGED <<rows, drafts>>,
         runs[r].pc \in {"fetch", "persist", "failed"},
         Same(r, {"pc", "scopes", "found", "page", "rest", "skipped"}),
         runs'[r].pc \in {"fetch", "persist", "failed"}
  PROVE  DraftsSettled(r, F)'
<1>1. /\ runs'[r].todo = runs[r].todo /\ runs'[r].changed = runs[r].changed
      /\ runs'[r].gone = runs[r].gone
  BY DEF Same, RunFields
<1>2. Remembered(runs[r])'
  BY <1>1 DEF DraftsSettled, Remembered
<1>3. ASSUME NEW f \in F PROVE Settled(r, f)'
  BY <1>1 DEF DraftsSettled, Settled, Pending, Expected
<1> QED BY <1>2, <1>3 DEF DraftsSettled

LEMMA BeginKeepsDrafts ==
  ASSUME Typed, NEW r \in Runs, NEW F \in SUBSET Feed, DraftsSettled(r, F), Begin(r)
  PROVE  DraftsSettled(r, F)'
<1>1. /\ runs[r].pc = "begin" /\ Onward(runs'[r]) /\ runs'[r].changed = {} /\ runs'[r].gone = {}
  BY BeginIs
<1>2. runs[r].changed = {} /\ runs[r].gone = {} /\ UNCHANGED <<rows, drafts>>
  BY <1>1, Works DEF Begin, Local, tables, Typed, AtHand
<1>3. runs'[r].pc # "evaluate"
  BY <1>1 DEF Onward
<1>4. Remembered(runs[r])'
  BY <1>1, <1>3 DEF Remembered
<1>5. ASSUME NEW f \in F PROVE Settled(r, f)'
  BY <1>1, <1>2 DEF DraftsSettled, Settled, Pending, Expected
<1> QED BY <1>4, <1>5 DEF DraftsSettled

LEMMA FindPersistedKeepsDrafts ==
  ASSUME Typed, NEW r \in Runs, NEW F \in SUBSET Feed, DraftsSettled(r, F), FindPersisted(r)
  PROVE  DraftsSettled(r, F)'
<1>1. PICK c, found : c = Due(runs[r]) /\ found = runs[r].found
  OBVIOUS
<1>2. /\ runs[r].pc = "find" /\ Onward(runs'[r]) /\ runs'[r].todo = runs[r].todo \ {c}
      /\ runs'[r].changed = runs[r].changed \cup
           {<<f, rows[f].id>> : f \in {g \in DOMAIN rows : g[1] = c /\ g[2] \in DOMAIN found}}
  BY <1>1, FindPersistedIs
<1>3. runs'[r].gone = runs[r].gone
  <2>1. Same(r, {"pc", "todo", "scopes", "found", "page", "rest", "changed"})
    BY FindPersistedIs
  <2> QED BY <2>1 DEF Same, RunFields
<1>4. UNCHANGED <<rows, drafts>>
  BY DEF FindPersisted, Local, tables
<1>5. runs'[r].pc # "evaluate" /\ runs'[r].pc # "find"
  BY <1>2 DEF Onward
<1>6. Remembered(runs[r])'
  BY <1>1, <1>2, <1>3, <1>4, <1>5 DEF DraftsSettled, Remembered
<1>7. ASSUME NEW f \in F PROVE Settled(r, f)'
  <2>1. CASE drafts[f] = Expected(f)
    BY <1>4, <2>1 DEF Settled, Expected
  <2>2. CASE f \in runs[r].gone
    <3>1. runs'[r].pc \in {"fetch", "persist", "failed", "load", "supersede"}
      BY <1>2, <1>3, <2>2 DEF Onward
    <3> QED BY <1>3, <2>2, <3>1 DEF Settled, Pending
  <2>3. CASE f \in DOMAIN rows /\ <<f, rows[f].id>> \in runs'[r].changed
    <3>1. runs'[r].pc \in {"fetch", "persist", "failed", "load"}
      BY <1>2, <2>3 DEF Onward
    <3> QED BY <1>4, <2>3, <3>1 DEF Settled, Pending
  <2>4. CASE f \in DOMAIN rows /\ f[1] = c /\ f[2] \in DOMAIN found
    <3>1. <<f, rows[f].id>> \in runs'[r].changed
      BY <1>2, <2>4
    <3> QED BY <2>3, <2>4, <3>1
  <2>5. CASE f \in DOMAIN rows /\ <<f, rows[f].id>> \in runs[r].changed
    BY <1>2, <2>3, <2>5
  <2> QED BY <1>1, <1>2, <2>1, <2>2, <2>4, <2>5 DEF DraftsSettled, Settled, Pending
<1> QED BY <1>6, <1>7 DEF DraftsSettled

LEMMA ConnectionFailedKeepsDrafts ==
  ASSUME Typed, NEW r \in Runs, NEW F \in SUBSET Feed, DraftsSettled(r, F), ConnectionFailed(r)
  PROVE  DraftsSettled(r, F)'
<1>1. /\ runs[r].pc = "failed" /\ Onward(runs'[r]) /\ runs'[r].todo \subseteq runs[r].todo
  BY ConnectionFailedIs
<1>2. runs'[r].gone = runs[r].gone /\ runs'[r].changed = runs[r].changed
  <2>1. Same(r, {"pc", "todo", "scopes", "found", "page", "rest", "errors"})
    BY ConnectionFailedIs
  <2> QED BY <2>1 DEF Same, RunFields
<1>3. UNCHANGED <<rows, drafts>>
  BY DEF ConnectionFailed, Local, tables
<1>4. runs'[r].pc # "evaluate"
  BY <1>1 DEF Onward
<1>5. Remembered(runs[r])'
  BY <1>1, <1>2, <1>3, <1>4 DEF DraftsSettled, Remembered
<1>6. ASSUME NEW f \in F PROVE Settled(r, f)'
  <2>1. CASE drafts[f] = Expected(f)
    BY <1>3, <2>1 DEF Settled, Expected
  <2>2. CASE f \in runs[r].gone
    <3>1. runs'[r].pc \in {"fetch", "persist", "failed", "load", "supersede"}
      BY <1>1, <1>2, <2>2 DEF Onward
    <3> QED BY <1>2, <2>2, <3>1 DEF Settled, Pending
  <2>3. CASE f \in DOMAIN rows /\ <<f, rows[f].id>> \in runs[r].changed
    <3>1. runs'[r].pc \in {"fetch", "persist", "failed", "load"}
      BY <1>1, <1>2, <2>3 DEF Onward
    <3> QED BY <1>2, <1>3, <2>3, <3>1 DEF Settled, Pending
  <2> QED BY <1>1, <2>1, <2>2, <2>3 DEF DraftsSettled, Settled, Pending
<1> QED BY <1>5, <1>6 DEF DraftsSettled

LEMMA PersistKeepsDrafts ==
  ASSUME Typed, NEW r \in Runs, NEW F \in SUBSET Feed, DraftsSettled(r, F), Persist(r)
  PROVE  DraftsSettled(r, F)'
<1>1. PICK c, found : c = Due(runs[r]) /\ found = runs[r].found
  OBVIOUS
<1>2. /\ runs[r].pc = "persist" /\ runs'[r].pc = "find" /\ Same(r, {"pc", "gone"})
      /\ runs'[r].gone = runs[r].gone \cup {f \in DOMAIN rows : f[1] = c /\ f[2] \notin DOMAIN found}
      /\ Stored(c, found)
  <2>1. runs[r].pc = "persist" /\ runs'[r].pc = "find" /\ Same(r, {"pc", "gone"})
    BY <1>1, PersistIs
  <2>2. runs'[r].gone = runs[r].gone \cup {f \in DOMAIN rows : f[1] = c /\ f[2] \notin DOMAIN found}
    BY <1>1, PersistIs
  <2>3. Stored(c, found)
    BY <1>1, PersistIs
  <2> QED BY <2>1, <2>2, <2>3
<1>3. /\ runs'[r].todo = runs[r].todo /\ runs'[r].found = found
      /\ runs'[r].changed = runs[r].changed
  BY <1>1, <1>2 DEF Same, RunFields
<1>4. Due(runs'[r]) = c
  BY <1>1, <1>3 DEF Due
<1>5. /\ DOMAIN rows' = {f \in DOMAIN rows : f[1] # c} \cup {<<c, t>> : t \in DOMAIN found}
      /\ \A f \in DOMAIN rows : f[1] # c => rows'[f] = rows[f]
  BY <1>2 DEF Stored
<1>6. c \in runs[r].todo
  <2>1. runs[r].pc = "persist"
    BY <1>2
  <2>2. AtHand(runs[r])
    BY <2>1, Works DEF Typed
  <2>3. runs[r].todo # {}
    BY <2>1, <2>2 DEF AtHand
  <2> QED BY <1>1, <2>3 DEF Due
<1>7. \A f \in runs[r].gone : f[1] \notin runs[r].todo /\ f \notin DOMAIN rows
  BY <1>2 DEF DraftsSettled, Remembered
<1>8. UNCHANGED drafts
  BY DEF Persist
<1>9. Remembered(runs[r])'
  <2>1. \A f \in DOMAIN rows' : f \notin runs'[r].gone
    <3> TAKE f \in DOMAIN rows'
    <3>1. CASE f \in DOMAIN rows /\ f[1] # c
      BY <1>2, <1>7, <3>1
    <3>2. ASSUME NEW t \in DOMAIN found, f = <<c, t>> PROVE f \notin runs'[r].gone
      BY <1>2, <1>6, <1>7, <3>2
    <3> QED BY <1>5, <3>1, <3>2
  <2>2. \A f \in runs'[r].gone : f[1] \in runs'[r].todo => f[1] = c
    BY <1>2, <1>3, <1>7
  <2> QED BY <1>2, <1>4, <2>1, <2>2 DEF Remembered
<1>10. ASSUME NEW f \in F PROVE Settled(r, f)'
  <2>1. f = <<f[1], f[2]>>
    BY DEF Feed
  <2>2. CASE f[1] = c
    <3>1. CASE f[2] \in DOMAIN found
      BY <1>2, <1>3, <1>4, <1>5, <2>1, <2>2, <3>1 DEF Settled, Pending
    <3>2. CASE f[2] \notin DOMAIN found
      <4>1. f \notin DOMAIN rows'
        BY <1>5, <2>1, <2>2, <3>2
      <4>2. CASE f \in DOMAIN rows
        BY <1>2, <2>2, <3>2, <4>2 DEF Settled, Pending
      <4>3. CASE f \notin DOMAIN rows
        BY <1>2, <1>8, <4>1, <4>3 DEF DraftsSettled, Settled, Pending, Expected
      <4> QED BY <4>2, <4>3
    <3> QED BY <3>1, <3>2
  <2>3. CASE f[1] # c
    <3>1. /\ f \in DOMAIN rows' <=> f \in DOMAIN rows
          /\ f \in DOMAIN rows => rows'[f] = rows[f]
      BY <1>5, <2>1, <2>3
    <3>2. CASE drafts[f] = Expected(f)
      BY <1>8, <3>1, <3>2 DEF Settled, Expected
    <3>3. CASE f \in runs[r].gone
      BY <1>2, <3>3 DEF Settled, Pending
    <3>4. CASE f \in DOMAIN rows /\ <<f, rows[f].id>> \in runs[r].changed
      BY <1>2, <1>3, <3>1, <3>4 DEF Settled, Pending
    <3> QED BY <1>2, <3>2, <3>3, <3>4 DEF DraftsSettled, Settled, Pending
  <2> QED BY <2>2, <2>3
<1> QED BY <1>9, <1>10 DEF DraftsSettled

LEMMA DeleteAllKeepsDrafts ==
  ASSUME Typed, NEW r \in Runs, NEW F \in SUBSET Feed, DraftsSettled(r, F), DeleteAll(r)
  PROVE  DraftsSettled(r, F)'
<1>1. PICK c : c = Due(runs[r])
  OBVIOUS
<1>2. /\ runs[r].pc = "persist" /\ Onward(runs'[r]) /\ runs'[r].todo = runs[r].todo \ {c}
      /\ runs'[r].gone = runs[r].gone \cup {f \in DOMAIN rows : f[1] = c}
      /\ DOMAIN rows' = {f \in DOMAIN rows : f[1] # c}
      /\ \A f \in DOMAIN rows' : rows'[f] = rows[f]
  BY <1>1, DeleteAllIs
<1>3. runs'[r].changed = runs[r].changed
  <2>1. Same(r, {"pc", "todo", "scopes", "found", "page", "rest", "gone"})
    BY DeleteAllIs
  <2> QED BY <2>1 DEF Same, RunFields
<1>4. UNCHANGED drafts
  BY DEF DeleteAll
<1>5. runs'[r].pc \in {"fetch", "persist", "failed", "load", "supersede", "finish"}
  BY <1>2 DEF Onward
<1>6. \A f \in runs[r].gone : f[1] \notin runs[r].todo /\ f \notin DOMAIN rows
  BY <1>2 DEF DraftsSettled, Remembered
<1>7. Remembered(runs[r])'
  BY <1>2, <1>5, <1>6 DEF Remembered
<1>8. ASSUME NEW f \in F PROVE Settled(r, f)'
  <2>1. CASE f \in runs'[r].gone
    <3>1. runs'[r].pc \in {"fetch", "persist", "failed", "load", "supersede"}
      BY <1>2, <2>1 DEF Onward
    <3> QED BY <2>1, <3>1 DEF Settled, Pending
  <2>2. CASE f \notin runs'[r].gone
    <3>1. /\ f \in DOMAIN rows' <=> f \in DOMAIN rows
          /\ f \in DOMAIN rows => rows'[f] = rows[f]
      BY <1>2, <2>2
    <3>2. CASE drafts[f] = Expected(f)
      BY <1>4, <3>1, <3>2 DEF Settled, Expected
    <3>3. CASE f \in DOMAIN rows /\ <<f, rows[f].id>> \in runs[r].changed
      <4>1. runs'[r].pc \in {"fetch", "persist", "failed", "load"}
        BY <1>2, <1>3, <3>3 DEF Onward
      <4> QED BY <1>3, <3>1, <3>3, <4>1 DEF Settled, Pending
    <3> QED BY <1>2, <2>2, <3>2, <3>3 DEF DraftsSettled, Settled, Pending
  <2> QED BY <2>1, <2>2
<1> QED BY <1>7, <1>8 DEF DraftsSettled

LEMMA LoadKeepsDrafts ==
  ASSUME Typed, NEW r \in Runs, NEW F \in SUBSET Feed, DraftsSettled(r, F), Load(r)
  PROVE  DraftsSettled(r, F)'
<1>1. PICK kept : kept = {f \in DOMAIN rows : <<f, rows[f].id>> \in runs[r].changed}
  OBVIOUS
<1>2. /\ runs[r].pc = "load" /\ Further(runs'[r]) /\ runs'[r].work = [f \in kept |-> rows[f].ver]
  BY <1>1, LoadIs
<1>3. runs'[r].gone = runs[r].gone /\ runs'[r].todo = runs[r].todo
  BY <1>1, LoadIs DEF Same, RunFields
<1>4. UNCHANGED <<rows, drafts>>
  BY DEF Load, Local, tables
<1>5. DOMAIN runs'[r].work = kept /\ \A f \in kept : runs'[r].work[f] = rows[f].ver
  BY <1>2
<1>6. Remembered(runs[r])'
  <2>1. \A f \in runs[r].gone : f[1] \notin runs[r].todo /\ f \notin DOMAIN rows
    BY <1>2 DEF DraftsSettled, Remembered
  <2>2. \A f \in kept : f \in DOMAIN rows
    BY <1>1
  <2> QED BY <1>3, <1>4, <1>5, <2>1, <2>2 DEF Remembered
<1>7. ASSUME NEW f \in F PROVE Settled(r, f)'
  <2>1. CASE drafts[f] = Expected(f)
    BY <1>4, <2>1 DEF Settled, Expected
  <2>2. CASE f \in runs[r].gone
    <3>1. runs'[r].pc \in {"evaluate", "supersede"}
      BY <1>2, <1>3, <2>2 DEF Further
    <3> QED BY <1>3, <2>2, <3>1 DEF Settled, Pending
  <2>3. CASE f \in kept
    <3>1. runs'[r].pc = "evaluate"
      BY <1>2, <1>5, <2>3 DEF Further
    <3> QED BY <1>1, <1>4, <1>5, <2>3, <3>1 DEF Settled, Pending
  <2> QED BY <1>1, <1>2, <2>1, <2>2, <2>3 DEF DraftsSettled, Settled, Pending
<1> QED BY <1>6, <1>7 DEF DraftsSettled

LEMMA EvaluateKeepsDrafts ==
  ASSUME Typed, NEW r \in Runs, NEW F \in SUBSET Feed, DraftsSettled(r, F), Evaluate(r)
  PROVE  DraftsSettled(r, F)'
<1>1. PICK e : e = Turn(r)
  OBVIOUS
<1>2. /\ runs[r].pc = "evaluate" /\ Further(runs'[r]) /\ e \in DOMAIN runs[r].work /\ e \in Feed
      /\ DOMAIN runs'[r].work = DOMAIN runs[r].work \ {e}
      /\ \A g \in DOMAIN runs[r].work \ {e} : runs'[r].work[g] = runs[r].work[g]
      /\ drafts' = [drafts EXCEPT ![e] = IF e[2] \in Drafting THEN runs[r].work[e] ELSE NoDraft]
  BY <1>1, EvaluateIs
<1>3. runs'[r].gone = runs[r].gone /\ runs'[r].todo = runs[r].todo
  BY <1>1, EvaluateIs DEF Same, RunFields
<1>4. UNCHANGED rows
  BY DEF Evaluate
<1>5. \A f \in DOMAIN runs[r].work : f \in DOMAIN rows /\ runs[r].work[f] = rows[f].ver
  BY <1>2 DEF DraftsSettled, Remembered
<1>6. Remembered(runs[r])'
  <2>1. \A f \in runs[r].gone : f[1] \notin runs[r].todo /\ f \notin DOMAIN rows
    BY <1>2 DEF DraftsSettled, Remembered
  <2> QED BY <1>2, <1>3, <1>4, <1>5, <2>1 DEF Remembered
<1>7. ASSUME NEW f \in F PROVE Settled(r, f)'
  <2>1. CASE f = e
    <3>1. drafts'[e] = IF e[2] \in Drafting THEN runs[r].work[e] ELSE NoDraft
      BY <1>2 DEF Typed, DraftTypes
    <3>2. drafts'[e] = Expected(e)
      BY <1>2, <1>5, <3>1 DEF Expected
    <3> QED BY <1>4, <2>1, <3>2 DEF Settled, Expected
  <2>2. CASE f # e
    <3>1. drafts'[f] = drafts[f]
      BY <1>2, <2>2
    <3>2. CASE drafts[f] = Expected(f)
      BY <1>4, <3>1, <3>2 DEF Settled, Expected
    <3>3. CASE f \in runs[r].gone
      <4>1. runs'[r].pc \in {"evaluate", "supersede"}
        BY <1>2, <1>3, <3>3 DEF Further
      <4> QED BY <1>3, <3>3, <4>1 DEF Settled, Pending
    <3>4. CASE f \in DOMAIN rows /\ f \in DOMAIN runs[r].work
      <4>1. runs'[r].pc = "evaluate" /\ f \in DOMAIN runs'[r].work
        BY <1>2, <2>2, <3>4 DEF Further
      <4> QED BY <1>4, <3>4, <4>1 DEF Settled, Pending
    <3> QED BY <1>2, <3>2, <3>3, <3>4 DEF DraftsSettled, Settled, Pending
  <2> QED BY <2>1, <2>2
<1> QED BY <1>6, <1>7 DEF DraftsSettled

LEMMA SupersedeKeepsDrafts ==
  ASSUME Typed, NEW r \in Runs, NEW F \in SUBSET Feed, DraftsSettled(r, F), Supersede(r)
  PROVE  DraftsSettled(r, F)'
<1>1. runs[r].pc = "supersede" /\ runs'[r].pc = "finish"
  BY SupersedeIs
<1>2. runs'[r].gone = runs[r].gone /\ runs'[r].todo = runs[r].todo
  BY SupersedeIs DEF Same, RunFields
<1>3. /\ drafts' = [f \in Feed |-> IF f \in runs[r].gone THEN NoDraft ELSE drafts[f]]
      /\ rows' = rows
  BY DEF Supersede
<1>4. \A f \in runs[r].gone : f[1] \notin runs[r].todo /\ f \notin DOMAIN rows
  BY <1>1 DEF DraftsSettled, Remembered
<1>5. Remembered(runs[r])'
  BY <1>1, <1>2, <1>3, <1>4 DEF Remembered
<1>6. ASSUME NEW f \in F PROVE Settled(r, f)'
  <2>1. CASE f \in runs[r].gone
    <3>1. drafts'[f] = NoDraft
      BY <1>3, <2>1
    <3>2. f \notin DOMAIN rows'
      BY <1>3, <1>4, <2>1
    <3> QED BY <3>1, <3>2 DEF Settled, Expected
  <2>2. CASE f \notin runs[r].gone
    <3>1. drafts[f] = Expected(f)
      BY <1>1, <2>2 DEF DraftsSettled, Settled, Pending
    <3>2. drafts'[f] = drafts[f]
      BY <1>3, <2>2
    <3> QED BY <1>3, <3>1, <3>2 DEF Settled, Expected
  <2> QED BY <2>1, <2>2
<1> QED BY <1>5, <1>6 DEF DraftsSettled

\* A step of run r, or of its process, that disturbs it.
LEMMA DisturbanceKeepsDrafts ==
  ASSUME Typed, DraftInv, NEW r \in Runs, ~runs'[r].calm,
         \A q \in Runs : /\ Same(q, {"pc", "calm", "cut", "touched", "work", "scopes", "page", "rest"})
                         /\ runs'[q].calm => runs[q].calm /\ runs'[q].pc = runs[q].pc
  PROVE  DraftInv'
<1>1. ASSUME NEW q \in Runs PROVE runs'[q].status = runs[q].status
  <2>1. Same(q, {"pc", "calm", "cut", "touched", "work", "scopes", "page", "rest"})
    OBVIOUS
  <2> QED BY <2>1 DEF Same, RunFields
<1>2. AloneIfCalm'
  BY <1>1, AloneKept DEF DraftInv
<1>3. ~AllCalm'
  BY DEF AllCalm
<1> QED BY <1>2, <1>3 DEF DraftInv

LEMMA RunDisturbed ==
  ASSUME Typed, DraftInv, NEW r \in Runs, Only(r), runs'[r].calm = FALSE,
         Same(r, {"pc", "calm", "cut", "touched", "work", "scopes", "page", "rest"})
  PROVE  DraftInv'
<1>1. \A q \in Runs \ {r} : runs'[q] = runs[q]
  BY DEF Only
<1>2. \A q \in Runs : Same(q, {"pc", "calm", "cut", "touched", "work", "scopes", "page", "rest"})
  BY <1>1 DEF Same
<1> QED BY <1>1, <1>2, DisturbanceKeepsDrafts

LEMMA OutsideKeepsDrafts ==
  ASSUME Typed, DraftInv,
         \/ \E t \in Tasks, in \in Moves : RemoteChange(t, in)
         \/ \E p \in Projects : ProjectChange(p)
         \/ \E c \in Conns : CreateConnection(c) \/ DeleteConnection(c)
  PROVE  DraftInv'
<1>1. ASSUME NEW T, UNCHANGED <<rows, drafts>>,
             runs' = [r \in Runs |-> IF r \in ActiveRuns
                                     THEN [runs[r] EXCEPT !.touched = @ \cup T] ELSE runs[r]]
      PROVE  DraftInv'
  <2>1. \A q \in Runs : Same(q, {"touched"})
    BY <1>1, TouchedIs DEF Typed
  <2>2. \A q \in Runs : Same(q, {"calm", "touched", "cut"})
    BY <2>1 DEF Same
  <2>3. \A q \in Runs : runs'[q].calm = runs[q].calm
    BY <2>1 DEF Same, RunFields
  <2> QED BY <1>1, <2>2, <2>3, DraftsKept
<1>2. ASSUME NEW t \in Tasks, NEW in, RemoteChange(t, in) PROVE DraftInv'
  BY <1>1, <1>2 DEF RemoteChange, tables
<1>3. ASSUME NEW p, ProjectChange(p) PROVE DraftInv'
  <2>1. PICK T : T = {t \in Tasks : remote[t].in \cap {p, HomeOf[p]} # {}}
    OBVIOUS
  <2> QED BY <1>1, <1>3, <2>1 DEF ProjectChange, tables
<1>4. ASSUME NEW R, runs' = Disturbed(R)
      PROVE  \A q \in Runs : /\ Same(q, {"calm"}) /\ runs'[q].pc = runs[q].pc
                             /\ runs'[q].calm <=> runs[q].calm /\ q \notin R
  <2>1. \A q \in Runs : /\ Disturbed(R)[q].calm <=> runs[q].calm /\ q \notin R
                        /\ \A k \in RunFields \ {"calm"} : Disturbed(R)[q][k] = runs[q][k]
    BY DisturbedIs DEF Typed
  <2>2. PICK d : d = Disturbed(R)
    OBVIOUS
  <2>3. runs' = d
    BY <1>4, <2>2
  <2>4. \A q \in Runs : /\ d[q].calm <=> runs[q].calm /\ q \notin R
                        /\ \A k \in RunFields \ {"calm"} : d[q][k] = runs[q][k]
    BY <2>1, <2>2
  <2>5. \A q \in Runs : d[q].pc = runs[q].pc
    BY <2>4 DEF RunFields
  <2> QED BY <2>3, <2>4, <2>5 DEF Same
<1>5. ASSUME NEW c, CreateConnection(c) PROVE DraftInv'
  <2>1. PICK R : R = ActiveRuns
    OBVIOUS
  <2>2. runs' = Disturbed(R) /\ UNCHANGED <<rows, drafts>>
    BY <1>5, <2>1 DEF CreateConnection
  <2>3. \A q \in Runs : Same(q, {"calm"}) /\ (runs'[q].calm => runs[q].calm)
    BY <1>4, <2>2
  <2>4. \A q \in Runs : Same(q, {"calm", "touched", "cut"})
    BY <2>3 DEF Same
  <2> QED BY <2>2, <2>3, <2>4, DraftsKept
<1>6. ASSUME NEW c, DeleteConnection(c) PROVE DraftInv'
  <2>1. runs' = Disturbed(Runs)
    BY <1>6 DEF DeleteConnection
  <2>2. \A q \in Runs : /\ Same(q, {"calm"}) /\ runs'[q].pc = runs[q].pc
                        /\ runs'[q].calm <=> runs[q].calm /\ q \notin Runs
    BY <1>4, <2>1
  <2>3. \A q \in Runs : ~runs'[q].calm
    BY <2>2
  <2>4. \A q \in Runs : Same(q, {"pc", "calm", "cut", "touched", "work", "scopes", "page", "rest"})
    BY <2>2 DEF Same
  <2>5. PICK r \in Runs : TRUE
    OBVIOUS
  <2> QED BY <2>3, <2>4, <2>5, DisturbanceKeepsDrafts
<1> QED BY <1>2, <1>3, <1>5, <1>6

LEMMA RequestsKeepDrafts ==
  ASSUME Typed, DraftInv,
         \/ Join \/ IntervalPasses \/ Poll \/ \E a \in Askers : Ask(a) \/ Started(a) \/ Crash(a)
  PROVE  DraftInv'
<1>1. ASSUME UNCHANGED <<rows, drafts, runs>> PROVE DraftInv'
  <2>1. \A q \in Runs : Same(q, {"calm", "touched", "cut"}) /\ (runs'[q].calm => runs[q].calm)
    BY <1>1 DEF Same
  <2> QED BY <1>1, <2>1, DraftsKept
<1>2. CASE Join \/ IntervalPasses \/ Poll \/ \E a \in Askers : Ask(a)
  BY <1>1, <1>2 DEF Join, IntervalPasses, Poll, Ask, tables
<1>3. ASSUME NEW a, Started(a) PROVE DraftInv'
  <2>1. PICK r \in Runs :
          /\ runs[r].status = "none" /\ runs'[r].status = "queued" /\ runs'[r].pc = "begin"
          /\ Same(r, {"calm", "status", "by", "pc"})
          /\ \A q \in Runs \ {r} : Same(q, {"calm"})
          /\ \A q \in Runs : runs'[q].calm <=>
               runs[q].calm /\ (ActiveRuns # {} => q \notin ActiveRuns \cup {r})
    BY <1>3, StartedIs
  <2>2. UNCHANGED <<rows, drafts>>
    BY <1>3 DEF Started, tables
  <2>3. \A q \in Runs \ {r} : runs'[q].status = runs[q].status /\ runs'[q].pc = runs[q].pc
    BY <2>1 DEF Same, RunFields
  <2>4. CASE ActiveRuns = {}
    <3>1. \A q \in Runs \ {r} : runs'[q].status \notin Active
      BY <2>3, <2>4 DEF ActiveRuns
    <3>2. \A q \in Runs : runs'[q].status \in Active => q = r
      BY <3>1
    <3>3. \A q \in Runs : runs'[q].pc = "abort" => ~runs'[q].calm
      BY <2>1, <2>3 DEF DraftInv, AloneIfCalm
    <3>4. AloneIfCalm'
      BY <2>1, <3>2, <3>3 DEF AloneIfCalm
    <3>5. AllCalm' => AllCalm
      BY <2>1 DEF AllCalm
    <3>6. ASSUME AllCalm' PROVE /\ \A q \in ActiveRuns' : Remembered(runs[q])'
                                /\ \A f \in Feed : (drafts[f] = Expected(f))'
      <4>1. \A f \in Feed : drafts[f] = Expected(f)
        BY <2>4, <3>5, <3>6 DEF DraftInv
      <4>2. \A f \in Feed : (drafts[f] = Expected(f))'
        BY <2>2, <4>1 DEF Expected
      <4>3. runs'[r].gone = {}
        <5>1. runs'[r].gone = runs[r].gone
          BY <2>1 DEF Same, RunFields
        <5> QED BY <2>1, <5>1 DEF Typed, RunsTypes, ProperRun, AtHand
      <4>4. Remembered(runs[r])'
        BY <2>1, <4>3 DEF Remembered
      <4>5. \A q \in ActiveRuns' : q = r
        BY <3>2 DEF ActiveRuns
      <4> QED BY <4>2, <4>4, <4>5
    <3> QED BY <3>4, <3>6 DEF DraftInv
  <2>5. CASE ActiveRuns # {}
    <3>1. ~runs'[r].calm /\ \A q \in ActiveRuns : ~runs'[q].calm
      BY <2>1, <2>5 DEF ActiveRuns
    <3>2. \A q \in Runs : runs'[q].status \in Active => ~runs'[q].calm
      BY <2>3, <3>1 DEF ActiveRuns
    <3>3. \A q \in Runs : runs'[q].pc = "abort" => ~runs'[q].calm
      BY <2>1, <2>3 DEF DraftInv, AloneIfCalm
    <3>4. AloneIfCalm'
      BY <3>2, <3>3 DEF AloneIfCalm
    <3>5. ~AllCalm'
      BY <3>1 DEF AllCalm
    <3> QED BY <3>4, <3>5 DEF DraftInv
  <2> QED BY <2>4, <2>5
<1>4. ASSUME NEW a, Crash(a) PROVE DraftInv'
  <2>1. \A r \in Runs : \/ runs'[r] = runs[r]
                        \/ runs'[r].calm = FALSE /\ runs'[r].pc = "off" /\ Same(r, {"pc", "calm", "cut"})
    BY <1>4, CrashIs
  <2>2. CASE \E r \in Runs : runs'[r] # runs[r]
    <3>1. PICK r \in Runs : runs'[r] # runs[r]
      BY <2>2
    <3>2. runs'[r].calm = FALSE
      BY <2>1, <3>1
    <3>3. \A q \in Runs : runs'[q].calm => runs[q].calm /\ runs'[q].pc = runs[q].pc
      BY <2>1
    <3>4. \A q \in Runs : Same(q, {"pc", "calm", "cut", "touched", "work", "scopes", "page", "rest"})
      BY <2>1 DEF Same
    <3> QED BY <3>2, <3>3, <3>4, DisturbanceKeepsDrafts
  <2>3. CASE \A r \in Runs : runs'[r] = runs[r]
    <3>1. \A q \in Runs : Same(q, {"calm", "touched", "cut"}) /\ (runs'[q].calm => runs[q].calm)
      BY <2>3 DEF Same
    <3>2. UNCHANGED <<rows, drafts>>
      BY <1>4 DEF Crash, tables
    <3> QED BY <3>1, <3>2, DraftsKept
  <2> QED BY <2>2, <2>3
<1> QED BY <1>2, <1>3, <1>4

LEMMA SkippingKeepsDrafts ==
  ASSUME Typed, DraftInv, NEW r \in Runs, SkipScope(r)
  PROVE  DraftInv'
<1>1. /\ Only(r) /\ runs[r].pc = "fetch" /\ runs'[r].pc \in {"fetch", "persist"}
      /\ Same(r, {"pc", "scopes", "page", "rest", "skipped"})
  BY SkipScopeIs
<1>2. /\ runs'[r].calm = runs[r].calm /\ runs'[r].status = runs[r].status
      /\ Same(r, {"pc", "scopes", "found", "page", "rest", "skipped"})
  BY <1>1 DEF Same, RunFields
<1>3. UNCHANGED <<rows, drafts>>
  BY DEF SkipScope, tables
<1>4. runs'[r].status \in Active
  BY <1>1, <1>2, Works DEF Typed
<1>5. AllCalm => DraftsSettled(r, Feed)'
  BY <1>1, <1>2, <1>3, OneActive, CollectingKeepsDrafts
<1> QED BY <1>1, <1>2, <1>4, <1>5, RunKeepsDrafts

LEMMA RunStepKeepsDrafts ==
  ASSUME Typed, DraftInv, NEW r \in Runs, RunStep(r)
  PROVE  DraftInv'
<1>1. ASSUME runs[r].pc # "off", AllCalm PROVE DraftsSettled(r, Feed)
  BY <1>1, OneActive
<1>2. runs[r].pc # "off" => runs[r].status \in Active
  BY Works DEF Typed
<1>3. ASSUME Only(r), runs[r].pc # "off", runs'[r].calm = runs[r].calm,
             runs'[r].status = runs[r].status \/ runs'[r].status = "running",
             runs'[r].pc \notin {"off", "abort"}, AllCalm => DraftsSettled(r, Feed)'
      PROVE  DraftInv'
  <2>1. runs'[r].status \in Active
    BY <1>2, <1>3 DEF Active
  <2> QED BY <1>3, <2>1, RunKeepsDrafts
<1>4. CASE Begin(r)
  <2>1. /\ Only(r) /\ runs[r].pc = "begin" /\ runs'[r].status = "running" /\ Onward(runs'[r])
        /\ Same(r, {"status", "pc", "todo", "scopes", "found", "page", "rest"})
    BY <1>4, BeginIs
  <2>2. runs'[r].calm = runs[r].calm /\ runs'[r].pc \notin {"off", "abort"}
    BY <2>1 DEF Same, RunFields, Onward
  <2>3. AllCalm => DraftsSettled(r, Feed)'
    BY <1>1, <1>4, <2>1, BeginKeepsDrafts
  <2> QED BY <1>3, <2>1, <2>2, <2>3
<1>5. CASE FetchPage(r)
  <2>1. /\ Only(r) /\ runs[r].pc = "fetch" /\ runs'[r].pc \in {"fetch", "persist", "failed"}
        /\ Same(r, {"pc", "scopes", "found", "page", "rest"})
    BY <1>5, FetchPageIs
  <2>2. runs'[r].calm = runs[r].calm /\ runs'[r].status = runs[r].status
    BY <2>1 DEF Same, RunFields
  <2>3. UNCHANGED <<rows, drafts>>
    BY <1>5 DEF FetchPage, Local, tables
  <2>4. Same(r, {"pc", "scopes", "found", "page", "rest", "skipped"})
    BY <2>1 DEF Same
  <2>5. AllCalm => DraftsSettled(r, Feed)'
    BY <1>1, <2>1, <2>3, <2>4, CollectingKeepsDrafts
  <2> QED BY <1>3, <2>1, <2>2, <2>5
<1>6. CASE PersistRefused(r)
  <2>1. Only(r) /\ runs[r].pc = "persist" /\ runs'[r].pc = "failed" /\ Same(r, {"pc"})
    BY <1>6, PersistRefusedIs
  <2>2. runs'[r].calm = runs[r].calm /\ runs'[r].status = runs[r].status
    BY <2>1 DEF Same, RunFields
  <2>3. UNCHANGED <<rows, drafts>>
    BY <1>6 DEF PersistRefused, Local, tables
  <2>4. Same(r, {"pc", "scopes", "found", "page", "rest", "skipped"})
    BY <2>1 DEF Same
  <2>5. AllCalm => DraftsSettled(r, Feed)'
    BY <1>1, <2>1, <2>3, <2>4, CollectingKeepsDrafts
  <2> QED BY <1>3, <2>1, <2>2, <2>5
<1>7. CASE Persist(r)
  <2>1. PICK c, found : c = Due(runs[r]) /\ found = runs[r].found
    OBVIOUS
  <2>2. Only(r) /\ runs[r].pc = "persist" /\ runs'[r].pc = "find" /\ Same(r, {"pc", "gone"})
    BY <1>7, <2>1, PersistIs
  <2>3. runs'[r].calm = runs[r].calm /\ runs'[r].status = runs[r].status
    BY <2>2 DEF Same, RunFields
  <2>4. AllCalm => DraftsSettled(r, Feed)'
    BY <1>1, <1>7, <2>2, PersistKeepsDrafts
  <2> QED BY <1>3, <2>2, <2>3, <2>4
<1>8. CASE DeleteAll(r)
  <2>1. Only(r) /\ runs[r].pc = "persist" /\ Onward(runs'[r])
    BY <1>8, DeleteAllIs
  <2>2. Same(r, {"pc", "todo", "scopes", "found", "page", "rest", "gone"})
    BY <1>8, DeleteAllIs
  <2>3. runs'[r].calm = runs[r].calm /\ runs'[r].status = runs[r].status
    BY <2>2 DEF Same, RunFields
  <2>4. runs'[r].pc \notin {"off", "abort"}
    BY <2>1 DEF Onward
  <2>5. AllCalm => DraftsSettled(r, Feed)'
    BY <1>1, <1>8, <2>1, DeleteAllKeepsDrafts
  <2> QED BY <1>3, <2>1, <2>3, <2>4, <2>5
<1>9. CASE FindPersisted(r)
  <2>1. Only(r) /\ runs[r].pc = "find" /\ Onward(runs'[r])
    BY <1>9, FindPersistedIs
  <2>2. Same(r, {"pc", "todo", "scopes", "found", "page", "rest", "changed"})
    BY <1>9, FindPersistedIs
  <2>3. runs'[r].calm = runs[r].calm /\ runs'[r].status = runs[r].status
    BY <2>2 DEF Same, RunFields
  <2>4. runs'[r].pc \notin {"off", "abort"}
    BY <2>1 DEF Onward
  <2>5. AllCalm => DraftsSettled(r, Feed)'
    BY <1>1, <1>9, <2>1, FindPersistedKeepsDrafts
  <2> QED BY <1>3, <2>1, <2>3, <2>4, <2>5
<1>10. CASE MissingScope(r)
  BY <1>10, SkippingKeepsDrafts DEF MissingScope
<1>11. CASE ConnectionFailed(r)
  <2>1. /\ Only(r) /\ runs[r].pc = "failed" /\ Onward(runs'[r])
        /\ Same(r, {"pc", "todo", "scopes", "found", "page", "rest", "errors"})
    BY <1>11, ConnectionFailedIs
  <2>2. runs'[r].calm = runs[r].calm /\ runs'[r].status = runs[r].status
    BY <2>1 DEF Same, RunFields
  <2>3. runs'[r].pc \notin {"off", "abort"}
    BY <2>1 DEF Onward
  <2>4. AllCalm => DraftsSettled(r, Feed)'
    BY <1>1, <1>11, <2>1, ConnectionFailedKeepsDrafts
  <2> QED BY <1>3, <2>1, <2>2, <2>3, <2>4
<1>12. CASE Load(r)
  <2>1. PICK kept : kept = {f \in DOMAIN rows : <<f, rows[f].id>> \in runs[r].changed}
    OBVIOUS
  <2>2. Only(r) /\ runs[r].pc = "load" /\ Further(runs'[r]) /\ Same(r, {"pc", "work"})
    BY <1>12, <2>1, LoadIs
  <2>3. /\ runs'[r].calm = runs[r].calm /\ runs'[r].status = runs[r].status
        /\ runs'[r].pc \notin {"off", "abort"}
    BY <2>2 DEF Same, RunFields, Further
  <2>4. AllCalm => DraftsSettled(r, Feed)'
    BY <1>1, <1>12, <2>2, LoadKeepsDrafts
  <2> QED BY <1>3, <2>2, <2>3, <2>4
<1>13. CASE Evaluate(r)
  <2>1. PICK f : f = Turn(r)
    OBVIOUS
  <2>2. Only(r) /\ runs[r].pc = "evaluate" /\ Further(runs'[r]) /\ Same(r, {"pc", "work"})
    BY <1>13, <2>1, EvaluateIs
  <2>3. /\ runs'[r].calm = runs[r].calm /\ runs'[r].status = runs[r].status
        /\ runs'[r].pc \notin {"off", "abort"}
    BY <2>2 DEF Same, RunFields, Further
  <2>4. AllCalm => DraftsSettled(r, Feed)'
    BY <1>1, <1>13, <2>2, EvaluateKeepsDrafts
  <2> QED BY <1>3, <2>2, <2>3, <2>4
<1>14. CASE Supersede(r)
  <2>1. Only(r) /\ runs[r].pc = "supersede" /\ runs'[r].pc = "finish" /\ Same(r, {"pc"})
    BY <1>14, SupersedeIs
  <2>2. runs'[r].calm = runs[r].calm /\ runs'[r].status = runs[r].status
    BY <2>1 DEF Same, RunFields
  <2>3. AllCalm => DraftsSettled(r, Feed)'
    BY <1>1, <1>14, <2>1, SupersedeKeepsDrafts
  <2> QED BY <1>3, <2>1, <2>2, <2>3
<1>15. ASSUME NEW at \in {"finish", "abort"}, NEW status \in {"completed", "failed"}, End(r, at, status)
       PROVE  DraftInv'
  <2>1. /\ Only(r) /\ runs[r].pc = at /\ runs'[r].pc = "off"
        /\ runs'[r].status \in {"completed", "failed"} /\ runs'[r].calm = runs[r].calm
    <3>1. End(r, at, status) /\ status \in {"completed", "failed"}
      BY <1>15
    <3>2. /\ RunsTypes' /\ Only(r) /\ runs[r].pc = at /\ runs'[r].pc = "off"
          /\ runs'[r].status = status /\ runs'[r].calm = runs[r].calm
      BY <3>1, EndIs, SMTT(60)
    <3> QED BY <3>1, <3>2
  <2>2. UNCHANGED <<rows, drafts>>
    BY <1>15 DEF End, tables
  <2>3. AloneIfCalm'
    BY <2>1, AloneKept DEF DraftInv, Only, Active
  <2>4. ASSUME AllCalm' PROVE ActiveRuns' = {} /\ \A f \in Feed : (drafts[f] = Expected(f))'
    <3>1. AllCalm
      BY <2>1, <2>4 DEF AllCalm, Only
    <3>2. at = "finish"
      BY <2>1, <3>1 DEF AllCalm, DraftInv, AloneIfCalm
    <3>3. ActiveRuns = {r} /\ DraftsSettled(r, Feed)
      BY <2>1, <3>1, OneActive
    <3>4. \A f \in Feed : drafts[f] = Expected(f)
      BY <2>1, <3>2, <3>3 DEF DraftsSettled, Settled, Pending
    <3>5. ActiveRuns' = {}
      <4>1. \A q \in Runs \ {r} : runs'[q] = runs[q] /\ q \notin ActiveRuns
        BY <2>1, <3>3 DEF Only
      <4>2. runs'[r].status \notin Active
        BY <2>1 DEF Active
      <4> QED BY <4>1, <4>2 DEF ActiveRuns
    <3>6. \A f \in Feed : (drafts[f] = Expected(f))'
      BY <2>2, <3>4 DEF Expected
    <3> QED BY <3>5, <3>6
  <2> QED BY <2>3, <2>4 DEF DraftInv
<1>16. CASE Finish(r) \/ Abort(r)
  BY <1>15, <1>16 DEF Finish, Abort
<1> QED BY <1>4, <1>5, <1>6, <1>7, <1>8, <1>9, <1>10, <1>11, <1>12, <1>13, <1>14, <1>16 DEF RunStep

LEMMA FaultKeepsDrafts ==
  ASSUME Typed, DraftInv, NEW r \in Runs,
         ScopeLost(r) \/ ConnectionErrs(r) \/ EvaluateFails(r) \/ RunErrs(r)
  PROVE  DraftInv'
<1>1. CASE ScopeLost(r)
  BY <1>1, SkippingKeepsDrafts DEF ScopeLost, Fault
<1>2. CASE ConnectionErrs(r)
  <2>1. Only(r) /\ runs'[r].calm = FALSE /\ Same(r, {"pc", "calm"})
    BY <1>2, ConnectionErrsIs
  <2>2. Same(r, {"pc", "calm", "cut", "touched", "work", "scopes", "page", "rest"})
    BY <2>1 DEF Same
  <2> QED BY <2>1, <2>2, RunDisturbed
<1>3. CASE EvaluateFails(r)
  <2>1. Only(r) /\ runs'[r].calm = FALSE /\ Same(r, {"pc", "work", "calm"})
    BY <1>3, EvaluateFailsIs
  <2>2. Same(r, {"pc", "calm", "cut", "touched", "work", "scopes", "page", "rest"})
    BY <2>1 DEF Same
  <2> QED BY <2>1, <2>2, RunDisturbed
<1>4. CASE RunErrs(r)
  <2>1. Only(r) /\ runs'[r].calm = FALSE /\ Same(r, {"pc", "calm", "cut"})
    BY <1>4, RunErrsIs
  <2>2. Same(r, {"pc", "calm", "cut", "touched", "work", "scopes", "page", "rest"})
    BY <2>1 DEF Same
  <2> QED BY <2>1, <2>2, RunDisturbed
<1> QED BY <1>1, <1>2, <1>3, <1>4

LEMMA DraftsStep == Typed /\ DraftInv /\ [Next]_vars => DraftInv'
<1> SUFFICES ASSUME Typed, DraftInv, [Next]_vars PROVE DraftInv'
  OBVIOUS
<1>1. CASE UNCHANGED vars
  <2>1. \A q \in Runs : Same(q, {"calm", "touched", "cut"}) /\ (runs'[q].calm => runs[q].calm)
    BY <1>1 DEF vars, Same
  <2> QED BY <1>1, <2>1, DraftsKept DEF vars
<1>2. CASE Next
  <2>1. ASSUME \/ \E t \in Tasks, in \in Moves : RemoteChange(t, in)
               \/ \E p \in Projects : ProjectChange(p)
               \/ \E c \in Conns : CreateConnection(c) \/ DeleteConnection(c)
        PROVE  DraftInv'
    BY <2>1, OutsideKeepsDrafts
  <2>2. ASSUME Join \/ IntervalPasses \/ Poll \/ \E a \in Askers : Ask(a) \/ Started(a) \/ Crash(a)
        PROVE  DraftInv'
    BY <2>2, RequestsKeepDrafts
  <2> QED BY <1>2, <2>1, <2>2, RunStepKeepsDrafts, FaultKeepsDrafts DEF Next
<1> QED BY <1>1, <1>2

\* With no run at work and none ever disturbed, the ready drafts are those of the
\* rows, of their versions: createOrRefreshDraftForTask and supersedeDraftsForTaskIds leave none
\* behind.
THEOREM DraftsFollowRowsHolds == Spec => []DraftsFollowRows
<1>1. Typed /\ DraftInv => DraftsFollowRows
  BY DEF DraftInv, AllCalm, DraftsFollowRows, Expected
<1>2. Spec => [](Typed /\ DraftInv)
  <2>1. Init => Typed /\ DraftInv
    BY InitTyped, InitDrafts
  <2>2. Typed /\ DraftInv /\ [Next]_vars => (Typed /\ DraftInv)'
    BY TypedStep, DraftsStep
  <2> QED BY <2>1, <2>2, PTL DEF Spec
<1> QED BY <1>1, <1>2, PTL

-----------------------------------------------------------------------------
(* What a run collects.                                                    *)

\* Without a cut, listSyncScopes lists what the connection is for.
LEMMA ListedIsCovered ==
  ASSUME SiteTypes, AllListed, NEW c \in Conns, ~ProjectMissing(ConfigOf[c])
  PROVE  Listed(ConfigOf[c]) = Covered(c)
<1> DEFINE config == ConfigOf[c]
           Of(w) == config.at = "all" \/ config = [at |-> "workspace", id |-> w]
           here(p) == config = [at |-> "project", id |-> p]
           empty(w) == \A p \in projects : HomeOf[p] # w
<1>1. projects \subseteq Projects /\ provider \in {"asana", "jira"}
  BY DEF SiteTypes
<1>2. \A p \in projects : HomeOf[p] \in Workspaces
  BY <1>1
<1>3. Covered(c) = {p \in projects : here(p) \/ Of(HomeOf[p])}
                     \cup {w \in Workspaces : provider = "asana" /\ Of(w) /\ empty(w)}
  BY DEF Covered
<1>4. config \in Configs
  OBVIOUS
<1>5. \A w \in Workspaces : ScopesOfWorkspace(w) =
        {p \in projects : HomeOf[p] = w} \cup {v \in Workspaces : v = w /\ empty(v)}
  <2> TAKE w \in Workspaces
  <2>1. CASE {p \in projects : HomeOf[p] = w} = {}
    <3>1. empty(w)
      BY <2>1
    <3> QED BY <2>1, <3>1 DEF ScopesOfWorkspace
  <2>2. CASE {p \in projects : HomeOf[p] = w} # {}
    <3>1. ~empty(w)
      BY <2>2
    <3> QED BY <2>2, <3>1 DEF ScopesOfWorkspace
  <2> QED BY <2>1, <2>2
<1> HIDE DEF empty
<1>6. CASE config = Everything
  <2>1. config.at = "all" /\ \A w : Of(w)
    BY <1>6 DEF Everything
  <2>2. CASE provider = "asana"
    <3>1. Listed(config) = UNION {ScopesOfWorkspace(w) : w \in Workspaces}
      BY <2>1, <2>2 DEF Listed, AsanaScopes
    <3>2. Covered(c) = projects \cup {w \in Workspaces : empty(w)}
      BY <1>3, <2>1, <2>2
    <3> QED BY <1>2, <1>5, <3>1, <3>2
  <2>3. CASE provider # "asana"
    <3>1. Covered(c) = projects
      BY <1>3, <2>1, <2>3
    <3>2. Cardinality(projects) <= ListLimit
      BY <1>1, <2>3 DEF AllListed, SiteTypes
    <3>3. Listed(config) = projects
      BY <2>1, <2>3, <3>2 DEF Listed, JiraScopes
    <3> QED BY <3>1, <3>3
  <2> QED BY <2>2, <2>3
<1>7. ASSUME NEW v \in Workspaces, config = [at |-> "workspace", id |-> v]
      PROVE  Listed(config) = Covered(c)
  <2>1. config.at = "workspace" /\ config.id = v
    BY <1>7
  <2>2. \A w : Of(w) <=> w = v
    <3> TAKE w
    <3>1. PICK x : x = [at |-> "workspace", id |-> w]
      OBVIOUS
    <3>2. x.id = w /\ (w = v => x = [at |-> "workspace", id |-> v])
      BY <3>1
    <3>3. Of(w) <=> config = x
      BY <2>1, <3>1
    <3> QED BY <1>7, <2>1, <3>2, <3>3
  <2>3. \A p : ~here(p)
    <3> TAKE p
    <3>1. PICK x : x = [at |-> "project", id |-> p]
      OBVIOUS
    <3>2. x.at = "project"
      BY <3>1
    <3> QED BY <2>1, <3>1, <3>2
  <2>4. provider = "asana"
    BY <1>1, <2>1 DEF SiteTypes
  <2> HIDE DEF Of, here
  <2>5. Covered(c) = {p \in projects : HomeOf[p] = v} \cup {w \in Workspaces : w = v /\ empty(w)}
    BY <1>3, <2>2, <2>3, <2>4
  <2>6. Listed(config) = ScopesOfWorkspace(v)
    BY <2>1, <2>4 DEF Listed, AsanaScopes
  <2> QED BY <1>5, <2>5, <2>6
<1>8. ASSUME NEW q \in Projects, config = [at |-> "project", id |-> q]
      PROVE  Listed(config) = Covered(c)
  <2>1. config.at = "project" /\ config.id = q
    BY <1>8
  <2>2. \A w : ~Of(w)
    <3> TAKE w
    <3>1. PICK x : x = [at |-> "workspace", id |-> w]
      OBVIOUS
    <3>2. x.at = "workspace"
      BY <3>1
    <3> QED BY <2>1, <3>1, <3>2
  <2>3. \A p : here(p) <=> p = q
    <3> TAKE p
    <3>1. PICK x : x = [at |-> "project", id |-> p]
      OBVIOUS
    <3>2. x.id = p /\ (p = q => x = [at |-> "project", id |-> q])
      BY <3>1
    <3> QED BY <1>8, <2>1, <3>1, <3>2
  <2>4. q \in projects
    BY <2>1 DEF ProjectMissing
  <2> HIDE DEF Of, here
  <2>5. Covered(c) = {q}
    BY <1>3, <2>2, <2>3, <2>4
  <2>6. Listed(config) = {q}
    BY <2>1 DEF Listed, AsanaScopes, JiraScopes
  <2> QED BY <2>5, <2>6
<1> QED BY <1>4, <1>6, <1>7, <1>8 DEF Configs

\* Seen from a run, nothing has changed of the tasks nobody touched.
SameSight(run, c) ==
  \A t \in Untouched(run) :
    remote'[t] = remote[t] /\ remote'[t].in \cap Covered(c)' = remote[t].in \cap Covered(c)

LEMMA SiteUnchanged ==
  ASSUME UNCHANGED site PROVE \A run, c : SameSight(run, c) /\ Covered(c)' = Covered(c)
BY DEF site, SameSight, Covered

\* What was collected, and what was stored, stays true as long as nothing else changes.
LEMMA SnapshotKept ==
  ASSUME NEW old, NEW new, NEW c, Snapshot(old, c), SameSight(new, c),
         old.touched \subseteq new.touched,
         new.pc = old.pc, new.scopes = old.scopes, new.page = old.page, new.rest = old.rest,
         new.found = old.found, new.skipped = old.skipped
  PROVE  Snapshot(new, c)'
<1>1. \A t \in Untouched(new) :
        /\ t \in Untouched(old) /\ remote'[t] = remote[t]
        /\ remote'[t].in \cap Covered(c)' = remote[t].in \cap Covered(c)
  BY DEF Untouched, SameSight
<1>2. Scope(new) = Scope(old)
  BY DEF Scope
<1>3. \A t, s : /\ Gathered(new, t, s) <=> Gathered(old, t, s)
                /\ Awaited(new, t, s) <=> Awaited(old, t, s)
  BY <1>2 DEF Gathered, Awaited
<1>4. \A t \in Untouched(new) : \A s \in remote'[t].in \cap Covered(c)' :
        Gathered(new, t, s) \/ Awaited(new, t, s) \/ <<c, s>> \in new.skipped
  BY <1>1, <1>3 DEF Snapshot
<1>5. \A t \in Untouched(new) \cap DOMAIN new.found :
        new.found[t].ver = remote'[t].ver /\ new.found[t].in \subseteq remote'[t].in \cap Covered(c)'
  BY <1>1 DEF Snapshot
<1>6. \A t \in Untouched(new) : remote'[t].in \cap new.scopes \subseteq Covered(c)'
  BY <1>1 DEF Snapshot
<1> QED BY <1>4, <1>5, <1>6 DEF Snapshot

LEMMA MirroredKept ==
  ASSUME NEW old, NEW new, NEW c, Mirrored(old, c), SameSight(new, c),
         old.touched \subseteq new.touched,
         \A t \in Tasks : /\ <<c, t>> \in DOMAIN rows' <=> <<c, t>> \in DOMAIN rows
                          /\ <<c, t>> \in DOMAIN rows => rows'[<<c, t>>] = rows[<<c, t>>]
  PROVE  Mirrored(new, c)'
BY DEF Mirrored, Untouched, SameSight

\* A run that turns to a connection has all its scopes still to come.
LEMMA FreshSnapshot ==
  ASSUME SiteTypes, AllListed, NEW run, NEW c \in Conns, c = Due(run), run.todo # {}, Onward(run),
         run.pc \in {"fetch", "persist"}
  PROVE  Snapshot(run, c)
<1>1. ~ProjectMissing(ConfigOf[c]) /\ run.scopes = Listed(ConfigOf[c])
      /\ run.pc = (IF run.scopes = {} THEN "persist" ELSE "fetch") /\ run.found = Empty /\ run.page = 0
  BY DEF Onward
<1>2. run.scopes = Covered(c)
  BY <1>1, ListedIsCovered
<1>3. DOMAIN run.found = {}
  BY <1>1 DEF Empty
<1>4. \A t, s : s \in Covered(c) => Awaited(run, t, s)
  BY <1>1, <1>2 DEF Awaited
<1> QED BY <1>2, <1>3, <1>4 DEF Snapshot

LEMMA InitSnap == Init => SnapInv
BY DEF Init, SnapInv, Snap, Unused

\* A run whose collection is the same as before.
Collection == {"pc", "todo", "scopes", "page", "rest", "found", "skipped"}

LEMMA SnapKept ==
  ASSUME NEW r \in Runs, Snap(r), \A k \in Collection : runs'[r][k] = runs[r][k],
         runs[r].touched \subseteq runs'[r].touched, \A c : SameSight(runs'[r], c)
  PROVE  Snap(r)'
<1>1. PICK old, new, c : old = runs[r] /\ new = runs'[r] /\ c = Due(old)
  OBVIOUS
<1>2. /\ new.pc = old.pc /\ new.todo = old.todo /\ new.scopes = old.scopes /\ new.page = old.page
      /\ new.rest = old.rest /\ new.found = old.found /\ new.skipped = old.skipped
  BY <1>1 DEF Collection
<1>3. Due(new) = c
  BY <1>1, <1>2 DEF Due
<1>4. SUFFICES ASSUME new.pc \in {"fetch", "persist"} PROVE Snapshot(new, c)'
  BY <1>1, <1>3 DEF Snap
<1>5. Snapshot(old, c)
  BY <1>1, <1>2, <1>4 DEF Snap
<1> QED BY <1>1, <1>2, <1>5, SnapshotKept

\* The collection of a run that another one's step leaves alone.
LEMMA OthersSnap ==
  ASSUME SnapInv, NEW r \in Runs, Only(r), UNCHANGED site, Snap(r)'
  PROVE  SnapInv'
<1>1. ASSUME NEW q \in Runs \ {r} PROVE Snap(q)'
  <2>1. runs'[q] = runs[q]
    BY DEF Only
  <2> QED BY <2>1, SiteUnchanged, SnapKept DEF SnapInv
<1> QED BY <1>1 DEF SnapInv

LEMMA FetchPageSnap ==
  ASSUME Typed, NEW r \in Runs, Snap(r), FetchPage(r)
  PROVE  Snap(r)'
<1>1. PICK old, new, c, s : old = runs[r] /\ new = runs'[r] /\ c = Due(old) /\ s = Scope(old)
  OBVIOUS
<1>2. /\ old.pc = "fetch" /\ Same(r, {"pc", "scopes", "found", "page", "rest"})
      /\ \E page \in SUBSET Listing(old) :
           /\ new.found = Merged(old.found, page, s)
           /\ \/ page = Listing(old) /\ new.scopes = old.scopes \ {s} /\ new.page = 0
                 /\ (new.pc = "persist" => old.scopes = {s})
              \/ new.scopes = old.scopes /\ new.pc = "fetch" /\ new.page # 0
                 /\ new.rest = Listing(old) \ page
              \/ new.pc = "failed"
  BY <1>1, FetchPageIs
<1>3. new.todo = old.todo /\ new.touched = old.touched /\ new.skipped = old.skipped
  BY <1>1, <1>2 DEF Same, RunFields
<1>4. Due(new) = c
  BY <1>1, <1>3 DEF Due
<1>5. SUFFICES ASSUME new.pc \in {"fetch", "persist"} PROVE Snapshot(new, c)'
  BY <1>1, <1>4 DEF Snap
<1>6. PICK page \in SUBSET Listing(old) :
        /\ new.found = Merged(old.found, page, s)
        /\ \/ page = Listing(old) /\ new.scopes = old.scopes \ {s} /\ new.page = 0
              /\ (new.pc = "persist" => old.scopes = {s})
           \/ new.scopes = old.scopes /\ new.pc = "fetch" /\ new.page # 0
              /\ new.rest = Listing(old) \ page
  BY <1>2, <1>5
<1>7. UNCHANGED site
  BY DEF FetchPage, Local
<1>8. remote' = remote /\ Covered(c)' = Covered(c)
  BY <1>7, SiteUnchanged DEF site
<1>9. Snapshot(old, c)
  BY <1>1, <1>2 DEF Snap
<1>10. /\ Listing(old) \subseteq Tasks /\ \A t \in Listing(old) : s \in remote[t].in
       /\ \A t \in Tasks : s \in remote[t].in /\ (old.page # 0 => t \in old.rest) => t \in Listing(old)
  BY <1>1 DEF Listing
<1>11. FoundTypes(old.found) /\ s \in old.scopes
  <2>1. RunTypes(old) /\ AtHand(old)
    BY <1>1, <1>2, Works DEF Typed
  <2>2. old.scopes # {}
    BY <1>2, <2>1 DEF AtHand
  <2>3. s \in old.scopes
    BY <1>1, <2>2 DEF Scope
  <2> QED BY <2>1, <2>3 DEF RunTypes
<1>12. Untouched(new) = Untouched(old)
  BY <1>3 DEF Untouched
<1>13. /\ DOMAIN new.found = DOMAIN old.found \cup page
       /\ \A t \in DOMAIN old.found \ page : /\ new.found[t].ver = old.found[t].ver
                                             /\ new.found[t].in = old.found[t].in
       /\ \A t \in page \ DOMAIN old.found : /\ new.found[t].ver = remote[t].ver
                                             /\ new.found[t].in = {s}
       /\ \A t \in page \cap DOMAIN old.found :
            /\ old.found[t].ver = remote[t].ver => new.found[t].ver = remote[t].ver
            /\ new.found[t].in = old.found[t].in \cup {s}
  <2>1. page \in SUBSET Tasks /\ SiteTypes
    BY <1>10 DEF Typed
  <2>2. PICK f, m : f = old.found /\ m = Merged(f, page, s)
    OBVIOUS
  <2>3. FoundTypes(f)
    BY <1>11, <2>2
  <2>4. IsMerged(m, f, page, s)
    BY <2>1, <2>2, <2>3, MergedIs
  <2>5. new.found = m
    BY <1>6, <2>2
  <2> QED BY <2>2, <2>4, <2>5 DEF IsMerged
<1>14. ASSUME NEW t \in Untouched(new), NEW x \in remote[t].in \cap Covered(c)
       PROVE  Gathered(new, t, x) \/ Awaited(new, t, x) \/ <<c, x>> \in new.skipped
  <2>1. Gathered(old, t, x) \/ Awaited(old, t, x) \/ <<c, x>> \in old.skipped
    BY <1>9, <1>12, <1>14 DEF Snapshot
  <2>2. CASE Gathered(old, t, x)
    <3>1. t \in DOMAIN old.found /\ x \in old.found[t].in
      BY <2>2 DEF Gathered
    <3>2. t \in DOMAIN new.found /\ x \in new.found[t].in
      BY <1>13, <3>1
    <3> QED BY <3>2 DEF Gathered
  <2>3. CASE t \in page /\ x = s
    <3>1. t \in DOMAIN new.found /\ x \in new.found[t].in
      BY <1>13, <2>3
    <3> QED BY <3>1 DEF Gathered
  <2>4. CASE Awaited(old, t, x) /\ x # s
    <3>1. x \in old.scopes
      BY <2>4 DEF Awaited
    <3>2. new.pc = "fetch" /\ x \in new.scopes
      BY <1>5, <1>6, <2>4, <3>1
    <3>3. CASE new.page = 0
      BY <3>2, <3>3 DEF Awaited
    <3>4. CASE new.scopes = old.scopes
      <4>1. Scope(new) = s
        BY <1>1, <3>4 DEF Scope
      <4> QED BY <2>4, <3>2, <4>1 DEF Awaited
    <3> QED BY <1>6, <3>3, <3>4
  <2>5. CASE Awaited(old, t, x) /\ x = s /\ t \notin page
    <3>1. t \in Listing(old)
      BY <1>1, <1>10, <2>5 DEF Awaited, Untouched
    <3>2. /\ new.scopes = old.scopes /\ new.pc = "fetch" /\ new.rest = Listing(old) \ page
      BY <1>6, <2>5, <3>1
    <3> QED BY <1>11, <2>5, <3>1, <3>2 DEF Awaited
  <2> QED BY <1>3, <2>1, <2>2, <2>3, <2>4, <2>5
<1>15. ASSUME NEW t \in Untouched(new) \cap DOMAIN new.found
       PROVE  new.found[t].ver = remote[t].ver /\ new.found[t].in \subseteq remote[t].in \cap Covered(c)
  <2>1. t \in DOMAIN old.found =>
          old.found[t].ver = remote[t].ver /\ old.found[t].in \subseteq remote[t].in \cap Covered(c)
    BY <1>9, <1>12 DEF Snapshot
  <2>2. t \in page => s \in remote[t].in \cap Covered(c)
    BY <1>9, <1>10, <1>11, <1>12 DEF Snapshot
  <2>3. CASE t \in DOMAIN old.found \ page
    BY <1>13, <2>1, <2>3
  <2>4. CASE t \in page \ DOMAIN old.found
    BY <1>13, <2>2, <2>4
  <2>5. CASE t \in page \cap DOMAIN old.found
    BY <1>13, <2>1, <2>2, <2>5
  <2> QED BY <1>13, <2>3, <2>4, <2>5
<1>16. \A t \in Untouched(new) : remote[t].in \cap new.scopes \subseteq Covered(c)
  BY <1>6, <1>9, <1>12 DEF Snapshot
<1> QED BY <1>8, <1>14, <1>15, <1>16 DEF Snapshot

LEMMA SkipScopeSnap ==
  ASSUME Typed, NEW r \in Runs, Snap(r), SkipScope(r)
  PROVE  Snap(r)'
<1>1. PICK old, new, c, s : old = runs[r] /\ new = runs'[r] /\ c = Due(old) /\ s = Scope(old)
  OBVIOUS
<1>2. /\ old.pc = "fetch" /\ new.pc \in {"fetch", "persist"} /\ new.scopes = old.scopes \ {s} /\ new.page = 0
      /\ new.pc = "persist" => old.scopes = {s}
      /\ new.skipped = old.skipped \cup {<<c, s>>}
      /\ Same(r, {"pc", "scopes", "page", "rest", "skipped"})
  BY <1>1, SkipScopeIs
<1>3. new.todo = old.todo /\ new.found = old.found /\ new.touched = old.touched
  BY <1>1, <1>2 DEF Same, RunFields
<1>4. Due(new) = c
  BY <1>1, <1>3 DEF Due
<1>5. SUFFICES Snapshot(new, c)'
  BY <1>1, <1>4 DEF Snap
<1>6. remote' = remote /\ Covered(c)' = Covered(c)
  BY SiteUnchanged DEF SkipScope, site
<1>7. Snapshot(old, c)
  BY <1>1, <1>2 DEF Snap
<1>8. Untouched(new) = Untouched(old)
  BY <1>3 DEF Untouched
<1>9. ASSUME NEW t \in Untouched(new), NEW x \in remote[t].in \cap Covered(c)
      PROVE  Gathered(new, t, x) \/ Awaited(new, t, x) \/ <<c, x>> \in new.skipped
  <2>1. Gathered(old, t, x) \/ Awaited(old, t, x) \/ <<c, x>> \in old.skipped
    BY <1>7, <1>8 DEF Snapshot
  <2>2. CASE x = s
    BY <1>2, <2>2
  <2>3. CASE x # s
    BY <1>2, <1>3, <2>1, <2>3 DEF Gathered, Awaited
  <2> QED BY <2>2, <2>3
<1>10. \A t \in Untouched(new) \cap DOMAIN new.found :
         new.found[t].ver = remote[t].ver /\ new.found[t].in \subseteq remote[t].in \cap Covered(c)
  BY <1>3, <1>7, <1>8 DEF Snapshot
<1>11. \A t \in Untouched(new) : remote[t].in \cap new.scopes \subseteq Covered(c)
  BY <1>2, <1>7, <1>8 DEF Snapshot
<1> QED BY <1>6, <1>9, <1>10, <1>11 DEF Snapshot

\* A run that goes on with a connection.
LEMMA OnwardSnap ==
  ASSUME Typed, AllListed, NEW r \in Runs, RunsTypes', Onward(runs'[r]), UNCHANGED site
  PROVE  Snap(r)'
<1>1. PICK new, c : new = runs'[r] /\ c = Due(new)
  OBVIOUS
<1>2. SUFFICES ASSUME new.pc \in {"fetch", "persist"} PROVE Snapshot(new, c)'
  BY <1>1 DEF Snap
<1>3. RunTypes(new) /\ AtHand(new)
  BY <1>1 DEF RunsTypes, ProperRun
<1>4. new.todo # {} /\ c \in Conns
  BY <1>1, <1>2, <1>3 DEF AtHand, RunTypes, Due
<1>5. Onward(new)
  BY <1>1
<1>6. SiteTypes
  BY DEF Typed
<1>7. Snapshot(new, c)
  BY <1>1, <1>2, <1>4, <1>5, <1>6, FreshSnapshot
<1>8. \A x : SameSight(new, x)
  BY SiteUnchanged
<1> QED BY <1>7, <1>8, SnapshotKept

\* What happens at the provider is seen of touched tasks only.
LEMMA RemoteSight ==
  ASSUME Typed, NEW t \in Tasks, NEW in, RemoteChange(t, in), NEW r \in Runs, runs[r].pc # "off"
  PROVE  /\ Same(r, {"touched"}) /\ runs[r].touched \subseteq runs'[r].touched
         /\ \A c : SameSight(runs'[r], c)
<1>1. runs[r].status \in Active
  BY Works DEF Typed
<1>2. runs' = [q \in Runs |-> IF q \in ActiveRuns
                              THEN [runs[q] EXCEPT !.touched = @ \cup {t}] ELSE runs[q]]
  BY DEF RemoteChange
<1>3. /\ Same(r, {"touched"}) /\ runs[r].touched \subseteq runs'[r].touched
      /\ r \in ActiveRuns => runs'[r].touched = runs[r].touched \cup {t}
  BY <1>2, TouchedIs DEF Typed
<1>4. \A u \in Untouched(runs'[r]) : u # t /\ u \in Tasks
  BY <1>1, <1>3 DEF ActiveRuns, Untouched
<1>5. \A u \in Tasks : u # t => remote'[u] = remote[u]
  BY DEF RemoteChange, Typed, SiteTypes
<1>6. \A c : Covered(c)' = Covered(c)
  BY DEF RemoteChange, Covered
<1> QED BY <1>3, <1>4, <1>5, <1>6 DEF SameSight

LEMMA ProjectSight ==
  ASSUME Typed, NEW p \in Projects, ProjectChange(p), NEW r \in Runs, runs[r].pc # "off"
  PROVE  /\ Same(r, {"touched"}) /\ runs[r].touched \subseteq runs'[r].touched
         /\ \A c : SameSight(runs'[r], c)
<1>1. runs[r].status \in Active
  BY Works DEF Typed
<1>2. PICK T : T = {t \in Tasks : remote[t].in \cap {p, HomeOf[p]} # {}}
  OBVIOUS
<1>3. runs' = [q \in Runs |-> IF q \in ActiveRuns
                              THEN [runs[q] EXCEPT !.touched = @ \cup T] ELSE runs[q]]
  BY <1>2 DEF ProjectChange
<1>4. /\ Same(r, {"touched"}) /\ runs[r].touched \subseteq runs'[r].touched
      /\ r \in ActiveRuns => runs'[r].touched = runs[r].touched \cup T
  BY <1>3, TouchedIs DEF Typed
<1>5. \A u \in Untouched(runs'[r]) : remote[u].in \cap {p, HomeOf[p]} = {}
  BY <1>1, <1>2, <1>4 DEF ActiveRuns, Untouched
<1>6. remote' = remote /\ provider' = provider
      /\ projects' = IF p \in projects THEN projects \ {p} ELSE projects \cup {p}
  BY DEF ProjectChange
<1>7. ASSUME NEW c, NEW s, s # p, s # HomeOf[p]
      PROVE  s \in Covered(c)' <=> s \in Covered(c)
  <2> DEFINE config == ConfigOf[c]
             Of(w) == config.at = "all" \/ config = [at |-> "workspace", id |-> w]
             here(q) == config = [at |-> "project", id |-> q] \/ Of(HomeOf[q])
             there(w) == provider = "asana" /\ Of(w)
  <2>1. s \in Covered(c) <=> \/ s \in projects /\ here(s)
                             \/ s \in Workspaces /\ there(s) /\ \A q \in projects : HomeOf[q] # s
    BY DEF Covered
  <2>2. s \in Covered(c)' <=> \/ s \in projects' /\ here(s)
                              \/ s \in Workspaces /\ there(s) /\ \A q \in projects' : HomeOf[q] # s
    BY <1>6 DEF Covered
  <2> HIDE DEF here, there
  <2>3. s \in projects' <=> s \in projects
    BY <1>6, <1>7
  <2>4. (\A q \in projects' : HomeOf[q] # s) <=> (\A q \in projects : HomeOf[q] # s)
    BY <1>6, <1>7
  <2> QED BY <2>1, <2>2, <2>3, <2>4
<1>8. ASSUME NEW c, NEW u \in Untouched(runs'[r])
      PROVE  remote'[u] = remote[u] /\ remote'[u].in \cap Covered(c)' = remote[u].in \cap Covered(c)
  <2>1. \A s \in remote[u].in : s # p /\ s # HomeOf[p]
    BY <1>5
  <2>2. \A s \in remote[u].in : s \in Covered(c)' <=> s \in Covered(c)
    BY <1>7, <2>1
  <2> QED BY <1>6, <2>2
<1> QED BY <1>4, <1>8 DEF SameSight

\* A run that is off has collected nothing.
LEMMA OffSnap == ASSUME NEW r \in Runs, runs'[r].pc \notin {"fetch", "persist"} PROVE Snap(r)'
BY DEF Snap

LEMMA OutsideSnap ==
  ASSUME Typed, SnapInv,
         \/ \E t \in Tasks, in \in Moves : RemoteChange(t, in)
         \/ \E p \in Projects : ProjectChange(p)
         \/ \E c \in Conns : CreateConnection(c) \/ DeleteConnection(c)
  PROVE  SnapInv'
<1>1. ASSUME NEW r \in Runs, Same(r, {"calm", "touched"}), runs[r].touched \subseteq runs'[r].touched,
             \A c : SameSight(runs'[r], c)
      PROVE  Snap(r)'
  <2>1. \A k \in Collection : runs'[r][k] = runs[r][k]
    BY <1>1 DEF Same, Collection, RunFields
  <2> QED BY <1>1, <2>1, SnapKept DEF SnapInv
<1>2. ASSUME NEW r \in Runs, Same(r, {"touched"}) PROVE Same(r, {"calm", "touched"})
  BY <1>2 DEF Same
<1>3. ASSUME NEW r \in Runs, NEW T, runs[r].pc = "off",
             runs' = [q \in Runs |-> IF q \in ActiveRuns
                                     THEN [runs[q] EXCEPT !.touched = @ \cup T] ELSE runs[q]]
      PROVE  Snap(r)'
  <2>1. Same(r, {"touched"})
    BY <1>3, TouchedIs DEF Typed
  <2>2. runs'[r].pc = "off"
    BY <1>3, <2>1 DEF Same, RunFields
  <2> QED BY <2>2, OffSnap
<1>4. ASSUME NEW t \in Tasks, NEW in, RemoteChange(t, in), NEW r \in Runs PROVE Snap(r)'
  <2>1. CASE runs[r].pc = "off"
    <3>1. runs' = [q \in Runs |-> IF q \in ActiveRuns
                                  THEN [runs[q] EXCEPT !.touched = @ \cup {t}] ELSE runs[q]]
      BY <1>4 DEF RemoteChange
    <3> QED BY <1>3, <2>1, <3>1
  <2>2. CASE runs[r].pc # "off"
    BY <1>1, <1>2, <1>4, <2>2, RemoteSight
  <2> QED BY <2>1, <2>2
<1>5. ASSUME NEW p \in Projects, ProjectChange(p), NEW r \in Runs PROVE Snap(r)'
  <2>1. CASE runs[r].pc = "off"
    <3>1. PICK T : T = {t \in Tasks : remote[t].in \cap {p, HomeOf[p]} # {}}
      OBVIOUS
    <3>2. runs' = [q \in Runs |-> IF q \in ActiveRuns
                                  THEN [runs[q] EXCEPT !.touched = @ \cup T] ELSE runs[q]]
      BY <1>5, <3>1 DEF ProjectChange
    <3> QED BY <1>3, <2>1, <3>2
  <2>2. CASE runs[r].pc # "off"
    BY <1>1, <1>2, <1>5, <2>2, ProjectSight
  <2> QED BY <2>1, <2>2
<1>6. ASSUME NEW R, runs' = Disturbed(R), UNCHANGED site, NEW r \in Runs PROVE Snap(r)'
  <2>1. \A k \in RunFields \ {"calm"} : Disturbed(R)[r][k] = runs[r][k]
    BY DisturbedIs DEF Typed
  <2>2. PICK d : d = Disturbed(R)
    OBVIOUS
  <2>3. runs' = d /\ \A k \in RunFields \ {"calm"} : d[r][k] = runs[r][k]
    BY <1>6, <2>1, <2>2
  <2>4. Same(r, {"calm"})
    BY <2>3 DEF Same
  <2>5. Same(r, {"calm", "touched"}) /\ runs'[r].touched = runs[r].touched
    BY <2>4 DEF Same, RunFields
  <2> QED BY <1>1, <1>6, <2>5, SiteUnchanged
<1>7. ASSUME NEW c, CreateConnection(c) PROVE SnapInv'
  <2>1. PICK R : R = ActiveRuns
    OBVIOUS
  <2>2. runs' = Disturbed(R) /\ UNCHANGED site
    BY <1>7, <2>1 DEF CreateConnection
  <2> QED BY <1>6, <2>2 DEF SnapInv
<1>8. ASSUME NEW c, DeleteConnection(c) PROVE SnapInv'
  <2>1. runs' = Disturbed(Runs) /\ UNCHANGED site
    BY <1>8 DEF DeleteConnection
  <2> QED BY <1>6, <2>1 DEF SnapInv
<1> QED BY <1>4, <1>5, <1>7, <1>8 DEF SnapInv

LEMMA RequestsSnap ==
  ASSUME Typed, SnapInv,
         \/ Join \/ IntervalPasses \/ Poll \/ \E a \in Askers : Ask(a) \/ Started(a) \/ Crash(a)
  PROVE  SnapInv'
<1>1. UNCHANGED site
  BY DEF Join, IntervalPasses, Poll, Ask, Started, Crash
<1>2. ASSUME NEW r \in Runs, Same(r, {"calm"}) PROVE Snap(r)'
  <2>1. (\A k \in Collection : runs'[r][k] = runs[r][k]) /\ runs'[r].touched = runs[r].touched
    BY <1>2 DEF Same, Collection, RunFields
  <2> QED BY <1>1, <2>1, SnapKept, SiteUnchanged DEF SnapInv
<1>3. CASE UNCHANGED runs
  BY <1>2, <1>3 DEF Same, SnapInv
<1>4. CASE Join \/ IntervalPasses \/ Poll \/ \E a \in Askers : Ask(a)
  BY <1>3, <1>4 DEF Join, IntervalPasses, Poll, Ask
<1>5. ASSUME NEW a, Started(a) PROVE SnapInv'
  <2>1. PICK r \in Runs : runs'[r].pc = "begin" /\ \A q \in Runs \ {r} : Same(q, {"calm"})
    BY <1>5, StartedIs
  <2>2. Snap(r)'
    BY <2>1, OffSnap
  <2> QED BY <1>2, <2>1, <2>2 DEF SnapInv
<1>6. ASSUME NEW a, Crash(a) PROVE SnapInv'
  <2>1. \A r \in Runs : runs'[r] = runs[r] \/ runs'[r].pc = "off"
    BY <1>6, CrashIs
  <2>2. ASSUME NEW r \in Runs PROVE Snap(r)'
    BY <1>2, <2>1, OffSnap DEF Same
  <2> QED BY <2>2 DEF SnapInv
<1> QED BY <1>4, <1>5, <1>6

LEMMA RunStepSnap ==
  ASSUME Typed, AllListed, SnapInv, NEW r \in Runs,
         RunStep(r) \/ ScopeLost(r) \/ ConnectionErrs(r) \/ EvaluateFails(r) \/ RunErrs(r)
  PROVE  SnapInv'
<1>1. Snap(r)
  BY DEF SnapInv
<1>2. ASSUME RunsTypes', Only(r), Onward(runs'[r]), UNCHANGED site PROVE SnapInv'
  BY <1>2, OnwardSnap, OthersSnap
<1>3. ASSUME Only(r), runs'[r].pc \notin {"fetch", "persist"}, UNCHANGED site PROVE SnapInv'
  BY <1>3, OffSnap, OthersSnap
<1>4. CASE Begin(r)
  BY <1>2, <1>4, BeginIs DEF Begin, Local
<1>5. CASE FetchPage(r)
  <2>1. Snap(r)' /\ Only(r) /\ UNCHANGED site
    BY <1>1, <1>5, FetchPageSnap, FetchPageIs DEF FetchPage, Local
  <2> QED BY <2>1, OthersSnap
<1>6. CASE SkipScope(r)
  <2>1. Snap(r)' /\ Only(r) /\ UNCHANGED site
    BY <1>1, <1>6, SkipScopeSnap, SkipScopeIs DEF SkipScope
  <2> QED BY <2>1, OthersSnap
<1>7. CASE Persist(r)
  <2>1. PICK c, found : c = Due(runs[r]) /\ found = runs[r].found
    OBVIOUS
  <2>2. Only(r) /\ runs'[r].pc = "find"
    BY <1>7, <2>1, PersistIs
  <2> QED BY <1>3, <1>7, <2>2 DEF Persist
<1>8. CASE DeleteAll(r)
  <2>1. RunsTypes' /\ Only(r) /\ Onward(runs'[r])
    BY <1>8, DeleteAllIs
  <2> QED BY <1>2, <1>8, <2>1 DEF DeleteAll
<1>9. CASE PersistRefused(r)
  BY <1>3, <1>9, PersistRefusedIs DEF PersistRefused, Local
<1>10. CASE FindPersisted(r)
  BY <1>2, <1>10, FindPersistedIs DEF FindPersisted, Local
<1>11. CASE ConnectionFailed(r)
  BY <1>2, <1>11, ConnectionFailedIs DEF ConnectionFailed, Local
<1>12. CASE Load(r)
  <2>1. PICK kept : kept = {f \in DOMAIN rows : <<f, rows[f].id>> \in runs[r].changed}
    OBVIOUS
  <2>2. Only(r) /\ Further(runs'[r])
    BY <1>12, <2>1, LoadIs
  <2> QED BY <1>3, <1>12, <2>2 DEF Load, Local, Further
<1>13. CASE Evaluate(r)
  <2>1. PICK f : f = Turn(r)
    OBVIOUS
  <2>2. Only(r) /\ Further(runs'[r])
    BY <1>13, <2>1, EvaluateIs
  <2> QED BY <1>3, <1>13, <2>2 DEF Evaluate, Further
<1>14. CASE Supersede(r)
  BY <1>3, <1>14, SupersedeIs DEF Supersede
<1>15. ASSUME NEW at, NEW status \in {"completed", "failed"}, End(r, at, status) PROVE SnapInv'
  <2>1. Only(r) /\ runs'[r].pc = "off"
    BY <1>15, EndIs
  <2> QED BY <1>3, <1>15, <2>1 DEF End
<1>16. CASE Finish(r) \/ Abort(r)
  BY <1>15, <1>16 DEF Finish, Abort
<1>17. CASE ConnectionErrs(r)
  BY <1>3, <1>17, ConnectionErrsIs DEF ConnectionErrs
<1>18. CASE EvaluateFails(r)
  BY <1>3, <1>18, EvaluateFailsIs DEF EvaluateFails
<1>19. CASE RunErrs(r)
  BY <1>3, <1>19, RunErrsIs DEF RunErrs
<1>20. CASE RunStep(r)
  BY <1>4, <1>5, <1>6, <1>7, <1>8, <1>9, <1>10, <1>11, <1>12, <1>13, <1>14, <1>16, <1>20
     DEF RunStep, MissingScope
<1> QED BY <1>6, <1>17, <1>18, <1>19, <1>20 DEF ScopeLost

LEMMA SnapStep == Typed /\ AllListed /\ SnapInv /\ [Next]_vars => SnapInv'
<1> SUFFICES ASSUME Typed, AllListed, SnapInv, [Next]_vars PROVE SnapInv'
  OBVIOUS
<1>1. CASE UNCHANGED vars
  <2>1. UNCHANGED <<site, runs>>
    BY <1>1 DEF vars, site
  <2>2. ASSUME NEW r \in Runs PROVE Snap(r)'
    BY <2>1, SnapKept, SiteUnchanged DEF SnapInv
  <2> QED BY <2>2 DEF SnapInv
<1>2. CASE Next
  <2>1. ASSUME \/ \E t \in Tasks, in \in Moves : RemoteChange(t, in)
               \/ \E p \in Projects : ProjectChange(p)
               \/ \E c \in Conns : CreateConnection(c) \/ DeleteConnection(c)
        PROVE  SnapInv'
    BY <2>1, OutsideSnap
  <2>2. ASSUME Join \/ IntervalPasses \/ Poll \/ \E a \in Askers : Ask(a) \/ Started(a) \/ Crash(a)
        PROVE  SnapInv'
    BY <2>2, RequestsSnap
  <2> QED BY <1>2, <2>1, <2>2, RunStepSnap DEF Next
<1> QED BY <1>1, <1>2

-----------------------------------------------------------------------------
(* What a run has stored.                                                  *)

\* The steps of run r, and its faults.
Goes(r) == RunStep(r) \/ ScopeLost(r) \/ ConnectionErrs(r) \/ EvaluateFails(r) \/ RunErrs(r)

LEMMA GoesAlone == ASSUME Typed, NEW r \in Runs, Goes(r) PROVE Only(r)
<1>1. CASE Persist(r)
  <2>1. PICK c, found : c = Due(runs[r]) /\ found = runs[r].found
    OBVIOUS
  <2> QED BY <1>1, <2>1, PersistIs
<1>2. CASE Load(r)
  <2>1. PICK kept : kept = {f \in DOMAIN rows : <<f, rows[f].id>> \in runs[r].changed}
    OBVIOUS
  <2> QED BY <1>2, <2>1, LoadIs
<1>3. CASE Evaluate(r)
  <2>1. PICK f : f = Turn(r)
    OBVIOUS
  <2> QED BY <1>3, <2>1, EvaluateIs
<1>4. ASSUME NEW at, NEW status \in {"completed", "failed"}, End(r, at, status) PROVE Only(r)
  BY <1>4, EndIs
<1>5. CASE Finish(r) \/ Abort(r)
  BY <1>4, <1>5 DEF Finish, Abort
<1>6. CASE Begin(r) \/ FetchPage(r) \/ DeleteAll(r) \/ PersistRefused(r) \/ FindPersisted(r)
  BY <1>6, BeginIs, FetchPageIs, DeleteAllIs, PersistRefusedIs, FindPersistedIs
<1>7. CASE MissingScope(r) \/ ConnectionFailed(r) \/ Supersede(r) \/ ScopeLost(r)
  BY <1>7, SkipScopeIs, ConnectionFailedIs, SupersedeIs DEF MissingScope, ScopeLost
<1>8. CASE ConnectionErrs(r) \/ EvaluateFails(r) \/ RunErrs(r)
  BY <1>8, ConnectionErrsIs, EvaluateFailsIs, RunErrsIs
<1> QED BY <1>1, <1>2, <1>3, <1>5, <1>6, <1>7, <1>8 DEF Goes, RunStep

\* What others do leaves a run where it is, or ends its process.
LEMMA GoesItself ==
  ASSUME Typed, [Next]_vars, NEW r \in Runs, runs[r].pc # "off", ~Goes(r)
  PROVE  runs'[r].pc \in {runs[r].pc, "off"} /\ runs'[r].status = runs[r].status
<1>1. ASSUME Same(r, {"calm", "touched"}) \/ Same(r, {"calm"}) \/ Same(r, {"touched"})
             \/ runs'[r] = runs[r]
      PROVE  runs'[r].pc = runs[r].pc /\ runs'[r].status = runs[r].status
  BY <1>1 DEF Same, RunFields
<1>2. CASE UNCHANGED vars
  BY <1>1, <1>2 DEF vars
<1>3. ASSUME NEW t \in Tasks, NEW in \in Moves, RemoteChange(t, in)
      PROVE  runs'[r].pc = runs[r].pc /\ runs'[r].status = runs[r].status
  BY <1>1, <1>3, RemoteSight
<1>4. ASSUME NEW p \in Projects, ProjectChange(p)
      PROVE  runs'[r].pc = runs[r].pc /\ runs'[r].status = runs[r].status
  BY <1>1, <1>4, ProjectSight
<1>5. ASSUME NEW R, runs' = Disturbed(R)
      PROVE  runs'[r].pc = runs[r].pc /\ runs'[r].status = runs[r].status
  <2>1. \A k \in RunFields \ {"calm"} : Disturbed(R)[r][k] = runs[r][k]
    BY DisturbedIs DEF Typed
  <2>2. PICK d : d = Disturbed(R)
    OBVIOUS
  <2>3. runs' = d /\ \A k \in RunFields \ {"calm"} : d[r][k] = runs[r][k]
    BY <1>5, <2>1, <2>2
  <2> QED BY <1>1, <2>3 DEF Same
<1>6. ASSUME NEW c \in Conns, CreateConnection(c) \/ DeleteConnection(c)
      PROVE  runs'[r].pc = runs[r].pc /\ runs'[r].status = runs[r].status
  <2>1. PICK R : R = ActiveRuns
    OBVIOUS
  <2>2. runs' = Disturbed(R) \/ runs' = Disturbed(Runs)
    BY <1>6, <2>1 DEF CreateConnection, DeleteConnection
  <2> QED BY <1>5, <2>2
<1>7. CASE Join \/ IntervalPasses \/ Poll \/ \E a \in Askers : Ask(a)
  BY <1>1, <1>7 DEF Join, IntervalPasses, Poll, Ask
<1>8. ASSUME NEW a, Started(a) PROVE runs'[r].pc = runs[r].pc /\ runs'[r].status = runs[r].status
  <2>1. PICK q \in Runs : runs[q].status = "none" /\ \A x \in Runs \ {q} : Same(x, {"calm"})
    BY <1>8, StartedIs
  <2>2. runs[r].status # "none"
    BY Works DEF Typed, Active
  <2> QED BY <1>1, <2>1, <2>2
<1>9. ASSUME NEW a, Crash(a)
      PROVE  runs'[r].pc \in {runs[r].pc, "off"} /\ runs'[r].status = runs[r].status
  <2>1. \/ runs'[r] = runs[r]
        \/ runs'[r].pc = "off" /\ Same(r, {"pc", "calm", "cut"})
    BY <1>9, CrashIs
  <2> QED BY <2>1 DEF Same, RunFields
<1>10. ASSUME NEW q \in Runs, Goes(q) PROVE runs'[r].pc = runs[r].pc /\ runs'[r].status = runs[r].status
  <2>1. q # r /\ Only(q)
    BY <1>10, GoesAlone
  <2> QED BY <2>1 DEF Only
<1> QED BY <1>2, <1>3, <1>4, <1>6, <1>7, <1>8, <1>9, <1>10 DEF Next, Goes

\* The steps that end the storing of a connection.
LEMMA StoringEnds ==
  ASSUME Typed, NEW r \in Runs, Goes(r), runs[r].pc = "persist", runs'[r].pc # "failed"
  PROVE  Persist(r) \/ DeleteAll(r)
BY BeginIs, FetchPageIs, SkipScopeIs, PersistRefusedIs, ConnectionErrsIs, RunErrsIs
   DEF Goes, RunStep, ScopeLost, MissingScope, FindPersisted, ConnectionFailed, Load, Evaluate,
       Supersede, Finish, Abort, End, EvaluateFails, Step

\* A stored snapshot has the tasks nobody touched that the run was answered about, in the
\* version there is; one of which no scope was skipped mirrors the provider.
LEMMA StoredKeeps ==
  ASSUME Typed, NEW r \in Runs, Snap(r), Persist(r) \/ DeleteAll(r), NEW c, c = Due(runs[r])
  PROVE  /\ \A t \in Untouched(runs[r]) : Answering(r, c, t) # {} =>
              <<c, t>> \in DOMAIN rows' /\ rows'[<<c, t>>].ver = remote[t].ver
         /\ runs[r].skipped = {} => Mirrored(runs[r], c)'
         /\ runs'[r].touched = runs[r].touched
<1>1. PICK run, new, found : run = runs[r] /\ new = runs'[r] /\ found = run.found
  OBVIOUS
<1>2. run.pc = "persist" /\ UNCHANGED site
  BY <1>1 DEF Persist, DeleteAll
<1>3. remote' = remote /\ Covered(c)' = Covered(c)
  BY <1>2, SiteUnchanged DEF site
<1>4. Snapshot(run, c)
  BY <1>1, <1>2 DEF Snap
<1>5. \A t \in Untouched(run) : \A s \in remote[t].in \cap Covered(c) :
        (t \in DOMAIN found /\ s \in found[t].in) \/ <<c, s>> \in run.skipped
  BY <1>1, <1>2, <1>4 DEF Snapshot, Gathered, Awaited
<1>6. \A t \in Untouched(run) \cap DOMAIN found :
        found[t].ver = remote[t].ver /\ found[t].in \subseteq remote[t].in \cap Covered(c)
  BY <1>1, <1>4 DEF Snapshot
<1>7. FoundTypes(found)
  BY <1>1, <1>2, Works DEF Typed, RunTypes
<1>8. \A t \in Untouched(run) : Answering(r, c, t) # {} => t \in DOMAIN found
  BY <1>1, <1>5 DEF Answering
<1>9. \A t \in Untouched(run) : t \in Tasks
  BY DEF Untouched
<1>10. /\ runs'[r].touched = run.touched
       /\ \A t \in DOMAIN found : /\ <<c, t>> \in DOMAIN rows' /\ rows'[<<c, t>>].ver = found[t].ver
                                 /\ rows'[<<c, t>>].in = found[t].in
       /\ \A t : t \notin DOMAIN found => <<c, t>> \notin DOMAIN rows'
  <2>1. CASE Persist(r)
    <3>1. Stored(c, found) /\ Same(r, {"pc", "gone"})
      BY <1>1, <2>1, PersistIs
    <3>2. runs'[r].touched = run.touched
      BY <1>1, <3>1 DEF Same, RunFields
    <3> QED BY <3>1, <3>2 DEF Stored
  <2>2. CASE DeleteAll(r)
    <3>1. /\ DOMAIN found = {} /\ DOMAIN rows' = {f \in DOMAIN rows : f[1] # c}
          /\ Same(r, {"pc", "todo", "scopes", "found", "page", "rest", "gone"})
      BY <1>1, <2>2, DeleteAllIs
    <3>2. runs'[r].touched = run.touched
      BY <1>1, <3>1 DEF Same, RunFields
    <3> QED BY <3>1, <3>2
  <2> QED BY <2>1, <2>2
<1>11. \A t \in Untouched(run) : Answering(r, c, t) # {} =>
         <<c, t>> \in DOMAIN rows' /\ rows'[<<c, t>>].ver = remote[t].ver
  BY <1>6, <1>8, <1>10
<1>12. ASSUME run.skipped = {} PROVE Mirrored(run, c)'
  <2>1. \A t \in Untouched(run) \cap DOMAIN found : found[t].in = remote[t].in \cap Covered(c)
    BY <1>5, <1>6, <1>12
  <2>2. \A t \in Untouched(run) : t \in DOMAIN found <=> remote[t].in \cap Covered(c) # {}
    BY <1>5, <1>7, <1>12, <2>1 DEF FoundTypes
  <2>3. ASSUME NEW t \in Untouched(run)
        PROVE  IF remote[t].in \cap Covered(c) # {}
                 THEN /\ <<c, t>> \in DOMAIN rows'
                      /\ rows'[<<c, t>>].ver = remote[t].ver
                      /\ rows'[<<c, t>>].in = remote[t].in \cap Covered(c)
                 ELSE <<c, t>> \notin DOMAIN rows'
    <3>1. CASE t \in DOMAIN found
      BY <1>6, <1>10, <2>1, <2>2, <3>1
    <3>2. CASE t \notin DOMAIN found
      BY <1>10, <2>2, <3>2
    <3> QED BY <3>1, <3>2
  <2> QED BY <1>3, <2>3 DEF Mirrored
<1>13. Untouched(new) = Untouched(run)
  BY <1>1, <1>10 DEF Untouched
<1>14. run.skipped = {} => Mirrored(new, c)'
  BY <1>12, <1>13 DEF Mirrored
<1> QED BY <1>1, <1>10, <1>11, <1>14 DEF Mirrored

\* A task nobody touched while a run collected is in the table when the run has stored its
\* snapshot, in its latest version, if one of its scopes was not skipped, whatever other runs
\* store and whichever scopes, pages or connections fail.
THEOREM UntouchedTasksKeptHolds == ASSUME AllListed PROVE Spec => UntouchedTasksKept
<1>1. ASSUME Typed, SnapInv, [Next]_vars, NEW r \in Runs,
             runs[r].pc = "persist" /\ runs'[r].pc \notin {"persist", "failed", "off"}
      PROVE  LET c == Due(runs[r])
             IN \A t \in Tasks \ runs[r].touched :
                  Answering(r, c, t) # {} =>
                    <<c, t>> \in DOMAIN rows' /\ rows'[<<c, t>>].ver = remote[t].ver
  <2>1. Goes(r)
    BY <1>1, GoesItself
  <2>2. Persist(r) \/ DeleteAll(r)
    BY <1>1, <2>1, StoringEnds
  <2>3. PICK c : c = Due(runs[r])
    OBVIOUS
  <2>4. \A t \in Untouched(runs[r]) : Answering(r, c, t) # {} =>
          <<c, t>> \in DOMAIN rows' /\ rows'[<<c, t>>].ver = remote[t].ver
    BY <1>1, <2>2, <2>3, StoredKeeps DEF SnapInv
  <2> QED BY <2>3, <2>4 DEF Untouched
<1>2. Typed /\ SnapInv /\ [Next]_vars =>
        [\A r \in Runs :
           runs[r].pc = "persist" /\ runs'[r].pc \notin {"persist", "failed", "off"} =>
             LET c == Due(runs[r])
             IN \A t \in Tasks \ runs[r].touched :
                  Answering(r, c, t) # {} =>
                    <<c, t>> \in DOMAIN rows' /\ rows'[<<c, t>>].ver = remote[t].ver]_vars
  BY <1>1
<1>3. Init => Typed /\ SnapInv
  BY InitTyped, InitSnap
<1>4. Typed /\ SnapInv /\ [Next]_vars => (Typed /\ SnapInv)'
  BY TypedStep, SnapStep
<1> QED BY <1>2, <1>3, <1>4, PTL DEF Spec, UntouchedTasksKept

LEMMA InitMirror == Init => MirrorInv
BY DEF Init, MirrorInv, Mirror, Unused, Ending

\* A run that is off, disturbed or with errors has nothing to answer for.
Answers(run) ==
  run.calm /\ run.skipped = {} /\ ~run.errors /\ run.pc \in {"fetch", "persist", "find"} \cup Ending

LEMMA NothingToMirror ==
  ASSUME NEW r \in Runs, ~Answers(runs'[r]), runs'[r].pc \in Ending => runs'[r].todo = {}
  PROVE  Mirror(r)'
BY DEF Mirror, Answers

\* A step that changes no row, and after which what was to come still is.
LEMMA MirrorKept ==
  ASSUME NEW r \in Runs, Mirror(r), UNCHANGED <<rows, conns>>,
         Answers(runs'[r]) => Answers(runs[r]),
         runs[r].touched \subseteq runs'[r].touched, \A c : SameSight(runs'[r], c),
         runs'[r].pc \in Ending => runs'[r].todo = {},
         \A c \in conns : ToCome(runs[r], c) => ToCome(runs'[r], c)
  PROVE  Mirror(r)'
<1>1. PICK old, new : old = runs[r] /\ new = runs'[r]
  OBVIOUS
<1>2. SUFFICES ASSUME Answers(new), NEW c \in conns
               PROVE  ToCome(new, c) \/ Mirrored(new, c)'
  BY <1>1 DEF Mirror, Answers
<1>3. ToCome(old, c) \/ Mirrored(old, c)
  BY <1>1, <1>2 DEF Mirror, Answers
<1>4. CASE Mirrored(old, c)
  <2>1. SameSight(new, c) /\ old.touched \subseteq new.touched
    BY <1>1
  <2>2. \A t \in Tasks : /\ <<c, t>> \in DOMAIN rows' <=> <<c, t>> \in DOMAIN rows
                         /\ <<c, t>> \in DOMAIN rows => rows'[<<c, t>>] = rows[<<c, t>>]
    OBVIOUS
  <2> QED BY <1>4, <2>1, <2>2, MirroredKept
<1> QED BY <1>1, <1>3, <1>4

\* Of two active runs none answers for anything.
LEMMA OthersAnswerNothing ==
  ASSUME Typed, AloneIfCalm, NEW r \in Runs, Goes(r), NEW q \in Runs \ {r}
  PROVE  ~Answers(runs[q])
<1>1. runs[r].pc # "off"
  BY BeginIs, FetchPageIs, SkipScopeIs, PersistRefusedIs, ConnectionErrsIs, RunErrsIs
     DEF Goes, RunStep, ScopeLost, MissingScope, FindPersisted, ConnectionFailed, Load, Evaluate,
         Persist, DeleteAll, Supersede, Finish, Abort, End, EvaluateFails, Step
<1>2. SUFFICES ASSUME runs[q].calm, runs[q].pc # "off" PROVE FALSE
  BY DEF Answers, Ending
<1>3. runs[q].status \in Active /\ runs[r].status \in Active
  BY <1>1, <1>2, Works DEF Typed
<1> QED BY <1>2, <1>3 DEF AloneIfCalm

\* A run does not notice what another one stores: neither of them is calm then.
LEMMA OthersMirror ==
  ASSUME Typed, AloneIfCalm, MirrorInv, NEW r \in Runs, Goes(r), NEW q \in Runs \ {r}
  PROVE  Mirror(q)'
<1>1. runs'[q] = runs[q]
  BY GoesAlone DEF Only
<1>2. runs[q].pc \in Ending => runs[q].todo = {}
  BY DEF MirrorInv, Mirror
<1>3. ~Answers(runs[q])
  BY OthersAnswerNothing
<1> QED BY <1>1, <1>2, <1>3, NothingToMirror

LEMMA StoredMirror ==
  ASSUME Typed, SnapInv, MirrorInv, NEW r \in Runs, Persist(r) \/ DeleteAll(r)
  PROVE  Mirror(r)'
<1>1. PICK old, new, due : old = runs[r] /\ new = runs'[r] /\ due = Due(old)
  OBVIOUS
<1>2. (old.skipped = {} => Mirrored(new, due)') /\ UNCHANGED site /\ new.touched = old.touched
  <2>1. /\ old.skipped = {} => Mirrored(runs[r], due)'
        /\ runs'[r].touched = runs[r].touched
    BY <1>1, StoredKeeps DEF SnapInv
  <2>2. UNCHANGED site
    BY DEF Persist, DeleteAll
  <2> QED BY <1>1, <2>1, <2>2 DEF Mirrored
<1>3. /\ new.calm = old.calm /\ new.errors = old.errors /\ new.skipped = old.skipped /\ old.pc = "persist"
      /\ \A c \in old.todo : c # due => c \in new.todo
      /\ new.pc = "find" => Due(new) = due
      /\ new.pc \in Ending => new.todo = {}
  <2>1. CASE Persist(r)
    <3>1. PICK found : found = old.found
      OBVIOUS
    <3>2. old.pc = "persist" /\ new.pc = "find" /\ Same(r, {"pc", "gone"})
      BY <1>1, <2>1, <3>1, PersistIs
    <3>3. /\ new.calm = old.calm /\ new.errors = old.errors /\ new.todo = old.todo
          /\ new.skipped = old.skipped
      BY <1>1, <3>2 DEF Same, RunFields
    <3>4. Due(new) = due
      BY <1>1, <3>3 DEF Due
    <3> QED BY <3>2, <3>3, <3>4 DEF Ending
  <2>2. CASE DeleteAll(r)
    <3>1. old.pc = "persist" /\ Onward(new) /\ new.todo = old.todo \ {due}
      BY <1>1, <2>2, DeleteAllIs
    <3>2. Same(r, {"pc", "todo", "scopes", "found", "page", "rest", "gone"})
      BY <2>2, DeleteAllIs
    <3>3. new.calm = old.calm /\ new.errors = old.errors /\ new.skipped = old.skipped
      BY <1>1, <3>2 DEF Same, RunFields
    <3> QED BY <3>1, <3>3 DEF Onward, Ending
  <2> QED BY <2>1, <2>2
<1>4. \A c, t : c # due => /\ <<c, t>> \in DOMAIN rows' <=> <<c, t>> \in DOMAIN rows
                           /\ <<c, t>> \in DOMAIN rows => rows'[<<c, t>>] = rows[<<c, t>>]
  <2>1. CASE Persist(r)
    <3>1. PICK found : found = old.found
      OBVIOUS
    <3>2. Stored(due, found)
      BY <1>1, <2>1, <3>1, PersistIs
    <3> QED BY <3>2 DEF Stored
  <2>2. CASE DeleteAll(r)
    <3>1. /\ DOMAIN rows' = {f \in DOMAIN rows : f[1] # due}
          /\ \A f \in DOMAIN rows' : rows'[f] = rows[f]
      BY <1>1, <2>2, DeleteAllIs
    <3> QED BY <3>1
  <2> QED BY <2>1, <2>2
<1>5. ASSUME Answers(new), NEW c \in conns PROVE ToCome(new, c) \/ Mirrored(new, c)'
  <2>1. CASE c = due
    BY <1>2, <1>3, <1>5, <2>1 DEF Answers
  <2>2. CASE c # due
    <3>1. Answers(old)
      BY <1>3, <1>5 DEF Answers
    <3>2. ToCome(old, c) \/ Mirrored(old, c)
      BY <1>1, <3>1 DEF MirrorInv, Mirror, Answers
    <3>3. CASE ToCome(old, c)
      BY <1>3, <2>2, <3>3 DEF ToCome
    <3>4. CASE Mirrored(old, c)
      <4>1. SameSight(new, c)
        BY <1>2, SiteUnchanged
      <4> QED BY <1>2, <1>4, <2>2, <3>4, <4>1, MirroredKept
    <3> QED BY <3>2, <3>3, <3>4
  <2> QED BY <2>1, <2>2
<1>6. conns' = conns
  BY DEF Persist, DeleteAll
<1> QED BY <1>1, <1>3, <1>5, <1>6 DEF Mirror, Answers

LEMMA OutsideMirror ==
  ASSUME Typed, AloneIfCalm, MirrorInv,
         \/ \E t \in Tasks, in \in Moves : RemoteChange(t, in)
         \/ \E p \in Projects : ProjectChange(p)
         \/ \E c \in Conns : CreateConnection(c) \/ DeleteConnection(c)
  PROVE  MirrorInv'
<1>1. ASSUME NEW r \in Runs, Same(r, {"touched"}), runs[r].touched \subseteq runs'[r].touched,
             \A c : SameSight(runs'[r], c), UNCHANGED <<rows, conns>>
      PROVE  Mirror(r)'
  <2>1. PICK old, new : old = runs[r] /\ new = runs'[r]
    OBVIOUS
  <2>2. /\ new.pc = old.pc /\ new.todo = old.todo /\ new.calm = old.calm
        /\ new.errors = old.errors /\ new.skipped = old.skipped
    BY <1>1, <2>1 DEF Same, RunFields
  <2>3. Due(new) = Due(old)
    BY <2>2 DEF Due
  <2>4. \A c \in conns : ToCome(old, c) => ToCome(new, c)
    BY <2>2, <2>3 DEF ToCome
  <2>5. /\ Answers(new) => Answers(old)
        /\ new.pc \in Ending => new.todo = {}
    BY <2>1, <2>2 DEF Answers, MirrorInv, Mirror
  <2> QED BY <1>1, <2>1, <2>4, <2>5, MirrorKept DEF MirrorInv
<1>2. ASSUME NEW r \in Runs, runs'[r].pc = "off" PROVE Mirror(r)'
  BY <1>2 DEF Mirror, Ending
<1>3. ASSUME NEW r \in Runs, NEW T, runs[r].pc = "off",
             runs' = [q \in Runs |-> IF q \in ActiveRuns
                                     THEN [runs[q] EXCEPT !.touched = @ \cup T] ELSE runs[q]]
      PROVE  Mirror(r)'
  <2>1. Same(r, {"touched"})
    BY <1>3, TouchedIs DEF Typed
  <2>2. runs'[r].pc = "off"
    BY <1>3, <2>1 DEF Same, RunFields
  <2> QED BY <1>2, <2>2
<1>4. ASSUME NEW t \in Tasks, NEW in, RemoteChange(t, in), NEW r \in Runs PROVE Mirror(r)'
  <2>1. CASE runs[r].pc = "off"
    <3>1. runs' = [q \in Runs |-> IF q \in ActiveRuns
                                  THEN [runs[q] EXCEPT !.touched = @ \cup {t}] ELSE runs[q]]
      BY <1>4 DEF RemoteChange
    <3> QED BY <1>3, <2>1, <3>1
  <2>2. CASE runs[r].pc # "off"
    <3>1. UNCHANGED <<rows, conns>>
      BY <1>4 DEF RemoteChange, tables
    <3> QED BY <1>1, <1>4, <2>2, <3>1, RemoteSight
  <2> QED BY <2>1, <2>2
<1>5. ASSUME NEW p \in Projects, ProjectChange(p), NEW r \in Runs PROVE Mirror(r)'
  <2>1. CASE runs[r].pc = "off"
    <3>1. PICK T : T = {t \in Tasks : remote[t].in \cap {p, HomeOf[p]} # {}}
      OBVIOUS
    <3>2. runs' = [q \in Runs |-> IF q \in ActiveRuns
                                  THEN [runs[q] EXCEPT !.touched = @ \cup T] ELSE runs[q]]
      BY <1>5, <3>1 DEF ProjectChange
    <3> QED BY <1>3, <2>1, <3>2
  <2>2. CASE runs[r].pc # "off"
    <3>1. UNCHANGED <<rows, conns>>
      BY <1>5 DEF ProjectChange, tables
    <3> QED BY <1>1, <1>5, <2>2, <3>1, ProjectSight
  <2> QED BY <2>1, <2>2
<1>6. ASSUME NEW R, ActiveRuns \subseteq R, runs' = Disturbed(R), NEW r \in Runs PROVE Mirror(r)'
  <2>1. /\ Disturbed(R)[r].calm <=> runs[r].calm /\ r \notin R
        /\ \A k \in RunFields \ {"calm"} : Disturbed(R)[r][k] = runs[r][k]
    BY DisturbedIs DEF Typed
  <2>2. PICK new : new = Disturbed(R)[r]
    OBVIOUS
  <2>3. runs'[r] = new
    BY <1>6, <2>2
  <2>4. /\ new.calm <=> runs[r].calm /\ r \notin R
        /\ \A k \in RunFields \ {"calm"} : new[k] = runs[r][k]
    BY <2>1, <2>2
  <2>5. new.pc = runs[r].pc /\ new.todo = runs[r].todo
    BY <2>4 DEF RunFields
  <2>6. new.calm => runs[r].pc = "off"
    <3> SUFFICES ASSUME new.calm, runs[r].pc # "off" PROVE FALSE
      OBVIOUS
    <3>1. r \in ActiveRuns
      BY Works DEF Typed, ActiveRuns
    <3> QED BY <1>6, <2>4, <3>1
  <2>7. ~Answers(new)
    BY <2>5, <2>6 DEF Answers, Ending
  <2>8. new.pc \in Ending => new.todo = {}
    BY <2>5 DEF MirrorInv, Mirror
  <2> QED BY <2>3, <2>7, <2>8, NothingToMirror
<1>7. ASSUME NEW c \in Conns, CreateConnection(c) \/ DeleteConnection(c), NEW r \in Runs
      PROVE  Mirror(r)'
  <2>1. PICK R : R = ActiveRuns
    OBVIOUS
  <2>2. runs' = Disturbed(R) \/ runs' = Disturbed(Runs)
    BY <1>7, <2>1 DEF CreateConnection, DeleteConnection
  <2>3. ActiveRuns \subseteq R /\ ActiveRuns \subseteq Runs
    BY <2>1 DEF ActiveRuns
  <2> QED BY <1>6, <2>2, <2>3
<1> QED BY <1>4, <1>5, <1>7 DEF MirrorInv

LEMMA RequestsMirror ==
  ASSUME Typed, MirrorInv,
         \/ Join \/ IntervalPasses \/ Poll \/ \E a \in Askers : Ask(a) \/ Started(a) \/ Crash(a)
  PROVE  MirrorInv'
<1>1. UNCHANGED <<site, rows, conns>>
  BY DEF Join, IntervalPasses, Poll, Ask, Started, Crash, tables
<1>2. ASSUME NEW r \in Runs, runs'[r] = runs[r] PROVE Mirror(r)'
  <2>1. \A c : SameSight(runs'[r], c)
    BY <1>1, SiteUnchanged
  <2>2. runs'[r].pc \in Ending => runs'[r].todo = {}
    BY <1>2 DEF MirrorInv, Mirror
  <2> QED BY <1>1, <1>2, <2>1, <2>2, MirrorKept DEF MirrorInv
<1>3. ASSUME NEW r \in Runs, runs'[r].pc \in {"off", "begin"} PROVE Mirror(r)'
  BY <1>3 DEF Mirror, Ending
<1>4. CASE Join \/ IntervalPasses \/ Poll \/ \E a \in Askers : Ask(a)
  BY <1>2, <1>4 DEF Join, IntervalPasses, Poll, Ask, MirrorInv
<1>5. ASSUME NEW a, Started(a) PROVE MirrorInv'
  <2>1. PICK r \in Runs :
          /\ runs'[r].pc = "begin" /\ \A q \in Runs \ {r} : Same(q, {"calm"})
          /\ \A q \in Runs : runs'[q].calm <=>
               runs[q].calm /\ (ActiveRuns # {} => q \notin ActiveRuns \cup {r})
    BY <1>5, StartedIs
  <2>2. ASSUME NEW q \in Runs \ {r} PROVE Mirror(q)'
    <3>1. runs'[q].pc = runs[q].pc /\ runs'[q].todo = runs[q].todo
      BY <2>1 DEF Same, RunFields
    <3>2. CASE runs[q].pc = "off"
      BY <1>3, <3>1, <3>2
    <3>3. CASE runs[q].pc # "off"
      <4>1. q \in ActiveRuns
        BY <3>3, Works DEF Typed, ActiveRuns
      <4>2. ~runs'[q].calm
        BY <2>1, <4>1
      <4>3. runs'[q].pc \in Ending => runs'[q].todo = {}
        BY <3>1 DEF MirrorInv, Mirror
      <4> QED BY <4>2, <4>3, NothingToMirror DEF Answers
    <3> QED BY <3>2, <3>3
  <2> QED BY <1>3, <2>1, <2>2 DEF MirrorInv
<1>6. ASSUME NEW a, Crash(a) PROVE MirrorInv'
  <2>1. \A r \in Runs : runs'[r] = runs[r] \/ runs'[r].pc = "off"
    BY <1>6, CrashIs
  <2> QED BY <1>2, <1>3, <2>1 DEF MirrorInv
<1> QED BY <1>4, <1>5, <1>6

LEMMA GoesMirror ==
  ASSUME Typed, SnapInv, MirrorInv, NEW r \in Runs, Goes(r)
  PROVE  Mirror(r)'
<1>1. PICK old, new : old = runs[r] /\ new = runs'[r]
  OBVIOUS
<1>2. old.pc \in Ending => old.todo = {}
  BY <1>1 DEF MirrorInv, Mirror
<1>3. ASSUME UNCHANGED <<site, rows, conns>>, new.calm = old.calm, new.errors = old.errors,
             new.skipped = old.skipped, new.touched = old.touched, old.pc \in {"fetch", "persist", "find"} \cup Ending,
             new.pc \in Ending => new.todo = {},
             \A c \in conns : ToCome(old, c) => ToCome(new, c)
      PROVE  Mirror(r)'
  <2>1. Answers(new) => Answers(old)
    BY <1>3 DEF Answers
  <2>2. \A c : SameSight(new, c)
    BY <1>3, SiteUnchanged
  <2> QED BY <1>1, <1>3, <2>1, <2>2, MirrorKept DEF MirrorInv
<1>4. ASSUME new.pc \in {"off", "abort", "failed"} \/ ~new.calm \/ new.skipped # {} \/ new.errors,
             new.pc \in Ending => new.todo = {}
      PROVE  Mirror(r)'
  BY <1>1, <1>4, NothingToMirror DEF Answers, Ending
<1>5. CASE Begin(r)
  <2>1. Onward(new) /\ new.todo = conns /\ UNCHANGED conns
    BY <1>1, <1>5, BeginIs DEF Begin, Local, tables
  <2> QED BY <1>1, <2>1 DEF Onward, Mirror, ToCome, Ending
<1>6. CASE FetchPage(r)
  <2>1. /\ old.pc = "fetch" /\ new.pc \in {"fetch", "persist", "failed"}
        /\ Same(r, {"pc", "scopes", "found", "page", "rest"})
    BY <1>1, <1>6, FetchPageIs
  <2>2. /\ new.calm = old.calm /\ new.errors = old.errors /\ new.touched = old.touched
        /\ new.todo = old.todo /\ new.skipped = old.skipped
    BY <1>1, <2>1 DEF Same, RunFields
  <2>3. UNCHANGED <<site, rows, conns>>
    BY <1>6 DEF FetchPage, Local, tables
  <2>4. \A c \in conns : ToCome(old, c) => ToCome(new, c)
    BY <2>1, <2>2 DEF ToCome
  <2> QED BY <1>3, <2>1, <2>2, <2>3, <2>4 DEF Ending
<1>7. CASE SkipScope(r)
  <2>1. new.pc \in {"fetch", "persist"} /\ <<Due(old), Scope(old)>> \in new.skipped
    BY <1>1, <1>7, SkipScopeIs
  <2> QED BY <1>4, <2>1 DEF Ending
<1>8. CASE Persist(r) \/ DeleteAll(r)
  BY <1>8, StoredMirror
<1>9. CASE PersistRefused(r)
  <2>1. new.pc = "failed"
    BY <1>1, <1>9, PersistRefusedIs
  <2> QED BY <1>4, <2>1 DEF Ending
<1>10. CASE FindPersisted(r)
  <2>1. old.pc = "find" /\ Onward(new) /\ new.todo = old.todo \ {Due(old)}
    BY <1>1, <1>10, FindPersistedIs
  <2>2. Same(r, {"pc", "todo", "scopes", "found", "page", "rest", "changed"})
    BY <1>10, FindPersistedIs
  <2>3. /\ new.calm = old.calm /\ new.errors = old.errors /\ new.touched = old.touched
        /\ new.skipped = old.skipped
    BY <1>1, <2>2 DEF Same, RunFields
  <2>4. UNCHANGED <<site, rows, conns>>
    BY <1>10 DEF FindPersisted, Local, tables
  <2>5. \A c \in conns : ToCome(old, c) => ToCome(new, c)
    BY <2>1 DEF ToCome, Onward
  <2>6. new.pc \in Ending => new.todo = {}
    BY <2>1 DEF Onward, Ending
  <2> QED BY <1>3, <2>1, <2>3, <2>4, <2>5, <2>6
<1>11. CASE ConnectionFailed(r)
  <2>1. new.errors = TRUE /\ Onward(new)
    BY <1>1, <1>11, ConnectionFailedIs
  <2> QED BY <1>4, <2>1 DEF Onward, Ending
<1>12. ASSUME Same(r, {"pc", "work"}) \/ Same(r, {"pc"}), old.pc \in Ending, new.pc \in Ending,
              UNCHANGED <<site, rows, conns>>
       PROVE  Mirror(r)'
  <2>1. /\ new.calm = old.calm /\ new.errors = old.errors /\ new.touched = old.touched
        /\ new.todo = old.todo /\ new.skipped = old.skipped
    BY <1>1, <1>12 DEF Same, RunFields
  <2> QED BY <1>2, <1>3, <1>12, <2>1 DEF ToCome
<1>13. CASE Load(r)
  <2>1. PICK kept : kept = {f \in DOMAIN rows : <<f, rows[f].id>> \in runs[r].changed}
    OBVIOUS
  <2>2. old.pc = "load" /\ Further(new) /\ Same(r, {"pc", "work"})
    BY <1>1, <1>13, <2>1, LoadIs
  <2> QED BY <1>12, <1>13, <2>2 DEF Load, Local, Further, Ending, tables
<1>14. CASE Evaluate(r)
  <2>1. PICK f : f = Turn(r)
    OBVIOUS
  <2>2. old.pc = "evaluate" /\ Further(new) /\ Same(r, {"pc", "work"})
    BY <1>1, <1>14, <2>1, EvaluateIs
  <2> QED BY <1>12, <1>14, <2>2 DEF Evaluate, Further, Ending
<1>15. CASE Supersede(r)
  <2>1. old.pc = "supersede" /\ new.pc = "finish" /\ Same(r, {"pc"})
    BY <1>1, <1>15, SupersedeIs
  <2> QED BY <1>12, <1>15, <2>1 DEF Supersede, Ending
<1>16. ASSUME NEW at, NEW status \in {"completed", "failed"}, End(r, at, status) PROVE Mirror(r)'
  <2>1. new.pc = "off"
    BY <1>1, <1>16, EndIs
  <2> QED BY <1>4, <2>1 DEF Ending
<1>17. CASE Finish(r) \/ Abort(r)
  BY <1>16, <1>17 DEF Finish, Abort
<1>18. CASE ConnectionErrs(r)
  <2>1. new.pc = "failed"
    BY <1>1, <1>18, ConnectionErrsIs
  <2> QED BY <1>4, <2>1 DEF Ending
<1>19. CASE EvaluateFails(r)
  <2>1. new.calm = FALSE /\ old.pc = "evaluate" /\ Same(r, {"pc", "work", "calm"})
    BY <1>1, <1>19, EvaluateFailsIs
  <2>2. new.todo = old.todo
    BY <1>1, <2>1 DEF Same, RunFields
  <2>3. new.todo = {}
    BY <1>2, <2>1, <2>2 DEF Ending
  <2> QED BY <1>4, <2>1, <2>3
<1>20. CASE RunErrs(r)
  <2>1. new.pc \in {"abort", "off"}
    BY <1>1, <1>20, RunErrsIs
  <2> QED BY <1>4, <2>1 DEF Ending
<1> QED BY <1>5, <1>6, <1>7, <1>8, <1>9, <1>10, <1>11, <1>13, <1>14, <1>15, <1>17, <1>18, <1>19, <1>20
        DEF Goes, RunStep, MissingScope, ScopeLost

LEMMA MirrorStep ==
  Typed /\ DraftInv /\ SnapInv /\ MirrorInv /\ [Next]_vars => MirrorInv'
<1> SUFFICES ASSUME Typed, DraftInv, SnapInv, MirrorInv, [Next]_vars PROVE MirrorInv'
  OBVIOUS
<1>1. CASE UNCHANGED vars
  <2>1. UNCHANGED <<site, runs, rows, conns>>
    BY <1>1 DEF vars, site
  <2>2. ASSUME NEW r \in Runs PROVE Mirror(r)'
    <3>1. \A c : SameSight(runs'[r], c)
      BY <2>1, SiteUnchanged
    <3>2. runs'[r].pc \in Ending => runs'[r].todo = {}
      BY <2>1 DEF MirrorInv, Mirror
    <3>3. runs'[r] = runs[r]
      BY <2>1
    <3> QED BY <2>1, <3>1, <3>2, <3>3, MirrorKept DEF MirrorInv
  <2> QED BY <2>2 DEF MirrorInv
<1>2. CASE Next
  <2>1. ASSUME \/ \E t \in Tasks, in \in Moves : RemoteChange(t, in)
               \/ \E p \in Projects : ProjectChange(p)
               \/ \E c \in Conns : CreateConnection(c) \/ DeleteConnection(c)
        PROVE  MirrorInv'
    BY <2>1, OutsideMirror DEF DraftInv
  <2>2. ASSUME Join \/ IntervalPasses \/ Poll \/ \E a \in Askers : Ask(a) \/ Started(a) \/ Crash(a)
        PROVE  MirrorInv'
    BY <2>2, RequestsMirror
  <2>3. ASSUME NEW r \in Runs, Goes(r) PROVE MirrorInv'
    <3>1. \A q \in Runs \ {r} : Mirror(q)'
      BY <2>3, OthersMirror DEF DraftInv
    <3> QED BY <2>3, <3>1, GoesMirror DEF MirrorInv
  <2> QED BY <1>2, <2>1, <2>2, <2>3 DEF Next, Goes
<1> QED BY <1>1, <1>2


-----------------------------------------------------------------------------
(* The drafts of what a run has stored.                                    *)

\* Of the rows of the connections a run has stored, the drafts are settled, or the run will
\* come to them.
Tended(r) ==
  Answers(runs[r]) =>
    Remembered(runs[r]) /\ \A f \in DOMAIN rows : ToCome(runs[r], f[1]) \/ Settled(r, f)
TendInv == \A r \in Runs : Tended(r)

LEMMA InitTended == Init => TendInv
BY DEF Init, TendInv, Tended, Answers, Unused, Ending

LEMMA NothingToTend == ASSUME NEW r \in Runs, ~Answers(runs'[r]) PROVE Tended(r)'
BY DEF Tended, Answers

\* A step that leaves the rows, the drafts and what the run has for them alone.
LEMMA TendedKept ==
  ASSUME NEW r \in Runs, Tended(r), UNCHANGED <<rows, drafts>>,
         Same(r, {"calm", "touched"}), runs'[r].calm => runs[r].calm
  PROVE  Tended(r)'
<1>1. PICK old, new : old = runs[r] /\ new = runs'[r]
  OBVIOUS
<1>2. /\ new.pc = old.pc /\ new.todo = old.todo /\ new.found = old.found
      /\ new.changed = old.changed /\ new.work = old.work /\ new.gone = old.gone
      /\ new.errors = old.errors /\ new.skipped = old.skipped
  BY <1>1 DEF Same, RunFields
<1>3. Due(new) = Due(old)
  BY <1>2 DEF Due
<1>4. Answers(new) => Answers(old)
  BY <1>1, <1>2 DEF Answers
<1>5. Remembered(old) => Remembered(new)'
  BY <1>2, <1>3 DEF Remembered
<1>6. \A f : ToCome(old, f) => ToCome(new, f)
  BY <1>2, <1>3 DEF ToCome
<1>7. \A f \in DOMAIN rows : Pending(old, f) => Pending(new, f)'
  BY <1>2, <1>3 DEF Pending
<1>8. \A f \in DOMAIN rows : Expected(f)' = Expected(f)
  BY DEF Expected
<1>9. SUFFICES ASSUME Answers(new)
               PROVE  Remembered(new)' /\ \A f \in DOMAIN rows : \/ ToCome(new, f[1])
                                                                 \/ drafts[f] = Expected(f)'
                                                                 \/ Pending(new, f)'
  BY <1>1 DEF Tended, Settled, Answers, ToCome
<1>10. Remembered(old) /\ \A f \in DOMAIN rows : ToCome(old, f[1]) \/ drafts[f] = Expected(f) \/ Pending(old, f)
  BY <1>1, <1>4, <1>9 DEF Tended, Settled
<1> QED BY <1>5, <1>6, <1>7, <1>8, <1>10

\* A run does not notice what another one does: neither of them is calm then.
LEMMA OthersTended ==
  ASSUME Typed, AloneIfCalm, NEW r \in Runs, Goes(r), NEW q \in Runs \ {r}
  PROVE  Tended(q)'
<1>1. runs'[q] = runs[q]
  BY GoesAlone DEF Only
<1>2. ~Answers(runs[q])
  BY OthersAnswerNothing
<1> QED BY <1>1, <1>2, NothingToTend

\* The rows of a stored snapshot are those the run will look for.
LEMMA PersistSettles ==
  ASSUME Typed, NEW r \in Runs, Persist(r), NEW f \in DOMAIN rows', f[1] = Due(runs[r])
  PROVE  Settled(r, f)'
<1>1. PICK c, found : c = Due(runs[r]) /\ found = runs[r].found
  OBVIOUS
<1>2. runs[r].pc = "persist" /\ runs'[r].pc = "find" /\ Same(r, {"pc", "gone"}) /\ Stored(c, found)
  <2>1. runs[r].pc = "persist" /\ runs'[r].pc = "find" /\ Same(r, {"pc", "gone"})
    BY <1>1, PersistIs
  <2>2. Stored(c, found)
    BY <1>1, PersistIs
  <2> QED BY <2>1, <2>2
<1>3. runs'[r].todo = runs[r].todo /\ runs'[r].found = found
  BY <1>1, <1>2 DEF Same, RunFields
<1>4. Due(runs'[r]) = c
  BY <1>1, <1>3 DEF Due
<1>5. DOMAIN rows' = {g \in DOMAIN rows : g[1] # c} \cup {<<c, t>> : t \in DOMAIN found}
  BY <1>2 DEF Stored
<1>6. f[1] = c /\ f[2] \in DOMAIN found
  BY <1>1, <1>5
<1> QED BY <1>2, <1>3, <1>4, <1>6 DEF Settled, Pending

LEMMA GoesTended ==
  ASSUME Typed, NEW r \in Runs, Tended(r), Goes(r)
  PROVE  Tended(r)'
<1>1. PICK old, new, F :
        /\ old = runs[r] /\ new = runs'[r]
        /\ F = {f \in DOMAIN rows : ~ToCome(old, f[1])}
  OBVIOUS
<1>2. F \in SUBSET Feed
  BY <1>1 DEF Typed, RowTypes
<1>3. Answers(old) => DraftsSettled(r, F)
  BY <1>1 DEF Tended, DraftsSettled
\* A step after which nothing else has come to be settled.
<1>4. ASSUME Answers(new) => Answers(old), DraftsSettled(r, F) => DraftsSettled(r, F)',
             \A f \in DOMAIN rows' : \/ f \in DOMAIN rows /\ (ToCome(old, f[1]) => ToCome(new, f[1]))
                                     \/ Settled(r, f)'
      PROVE  Tended(r)'
  <2>1. SUFFICES ASSUME Answers(new) PROVE Tended(r)'
    BY <1>1 DEF Tended, Answers
  <2>2. DraftsSettled(r, F)'
    BY <1>3, <1>4, <2>1
  <2>3. ASSUME NEW f \in DOMAIN rows' PROVE ToCome(new, f[1]) \/ Settled(r, f)'
    BY <1>1, <1>4, <2>2, <2>3 DEF DraftsSettled
  <2> QED BY <1>1, <2>2, <2>3 DEF Tended, DraftsSettled, ToCome
\* A step of which the run answers for nothing more.
<1>5. ASSUME new.pc \in {"off", "abort", "failed"} \/ ~new.calm \/ new.skipped # {} \/ new.errors
      PROVE  Tended(r)'
  BY <1>1, <1>5, NothingToTend DEF Answers, Ending
<1>6. CASE Begin(r)
  <2>1. /\ old.pc = "begin" /\ Onward(new) /\ new.todo = conns /\ new.changed = {} /\ new.gone = {}
        /\ UNCHANGED <<rows, conns>>
    BY <1>1, <1>6, BeginIs DEF Begin, Local, tables
  <2>2. \A f \in DOMAIN rows' : ToCome(new, f[1])
    BY <2>1 DEF Typed, RowTypes, Onward, ToCome
  <2>3. Remembered(new)'
    BY <2>1 DEF Remembered, Onward
  <2> QED BY <1>1, <2>2, <2>3 DEF Tended, ToCome
<1>7. CASE FetchPage(r)
  <2>1. /\ old.pc = "fetch" /\ new.pc \in {"fetch", "persist", "failed"}
        /\ Same(r, {"pc", "scopes", "found", "page", "rest"})
    BY <1>1, <1>7, FetchPageIs
  <2>2. /\ new.calm = old.calm /\ new.errors = old.errors /\ new.todo = old.todo
        /\ new.skipped = old.skipped
        /\ Same(r, {"pc", "scopes", "found", "page", "rest", "skipped"})
    BY <1>1, <2>1 DEF Same, RunFields
  <2>3. UNCHANGED <<rows, drafts>>
    BY <1>7 DEF FetchPage, Local, tables
  <2>4. \A c : ToCome(old, c) => ToCome(new, c)
    BY <2>1, <2>2 DEF ToCome
  <2>5. DraftsSettled(r, F) => DraftsSettled(r, F)'
    BY <1>1, <1>2, <2>1, <2>2, <2>3, CollectingKeepsDrafts
  <2>6. Answers(new) => Answers(old)
    BY <2>1, <2>2 DEF Answers
  <2> QED BY <1>4, <2>3, <2>4, <2>5, <2>6
<1>8. CASE SkipScope(r)
  <2>1. <<Due(old), Scope(old)>> \in new.skipped
    BY <1>1, <1>8, SkipScopeIs
  <2> QED BY <1>5, <2>1
<1>9. CASE Persist(r)
  <2>1. PICK c, found : c = Due(runs[r]) /\ found = runs[r].found
    OBVIOUS
  <2>2. /\ old.pc = "persist" /\ new.pc = "find" /\ Same(r, {"pc", "gone"})
    BY <1>1, <1>9, <2>1, PersistIs
  <2>3. Stored(c, found)
    BY <1>1, <1>9, <2>1, PersistIs
  <2>4. /\ new.calm = old.calm /\ new.errors = old.errors /\ new.todo = old.todo
        /\ new.skipped = old.skipped
    BY <1>1, <2>2 DEF Same, RunFields
  <2>5. Due(new) = c
    BY <1>1, <2>1, <2>4 DEF Due
  <2>6. \A d : d # c => (ToCome(old, d) => ToCome(new, d))
    BY <2>2, <2>4, <2>5 DEF ToCome
  <2>7. \A f \in DOMAIN rows' : f[1] # c => f \in DOMAIN rows
    BY <2>3 DEF Stored
  <2>8. \A f \in DOMAIN rows' : f[1] = c => Settled(r, f)'
    BY <1>9, <2>1, PersistSettles
  <2>9. DraftsSettled(r, F) => DraftsSettled(r, F)'
    BY <1>2, <1>9, PersistKeepsDrafts
  <2>10. Answers(new) => Answers(old)
    BY <2>2, <2>4 DEF Answers
  <2> QED BY <1>4, <2>6, <2>7, <2>8, <2>9, <2>10
<1>10. CASE DeleteAll(r)
  <2>1. PICK c : c = Due(runs[r])
    OBVIOUS
  <2>2. /\ old.pc = "persist" /\ Onward(new) /\ new.todo = old.todo \ {c}
        /\ DOMAIN rows' = {f \in DOMAIN rows : f[1] # c}
    BY <1>1, <1>10, <2>1, DeleteAllIs
  <2>3. Same(r, {"pc", "todo", "scopes", "found", "page", "rest", "gone"})
    BY <1>10, DeleteAllIs
  <2>4. new.calm = old.calm /\ new.errors = old.errors /\ new.skipped = old.skipped
    BY <1>1, <2>3 DEF Same, RunFields
  <2>5. \A d : d # c => (ToCome(old, d) => ToCome(new, d))
    BY <2>2 DEF ToCome, Onward
  <2>6. DraftsSettled(r, F) => DraftsSettled(r, F)'
    BY <1>2, <1>10, DeleteAllKeepsDrafts
  <2>7. Answers(new) => Answers(old)
    BY <2>2, <2>4 DEF Answers
  <2> QED BY <1>4, <2>2, <2>5, <2>6, <2>7
<1>11. CASE PersistRefused(r)
  BY <1>1, <1>5, <1>11, PersistRefusedIs
<1>12. CASE FindPersisted(r)
  <2>1. old.pc = "find" /\ Onward(new) /\ new.todo = old.todo \ {Due(old)}
    BY <1>1, <1>12, FindPersistedIs
  <2>2. Same(r, {"pc", "todo", "scopes", "found", "page", "rest", "changed"})
    BY <1>12, FindPersistedIs
  <2>3. new.calm = old.calm /\ new.errors = old.errors /\ new.skipped = old.skipped
    BY <1>1, <2>2 DEF Same, RunFields
  <2>4. UNCHANGED rows
    BY <1>12 DEF FindPersisted, Local, tables
  <2>5. \A d : ToCome(old, d) => ToCome(new, d)
    BY <2>1 DEF ToCome, Onward
  <2>6. DraftsSettled(r, F) => DraftsSettled(r, F)'
    BY <1>2, <1>12, FindPersistedKeepsDrafts
  <2>7. Answers(new) => Answers(old)
    BY <2>1, <2>3 DEF Answers
  <2> QED BY <1>4, <2>4, <2>5, <2>6, <2>7
<1>13. CASE ConnectionFailed(r)
  BY <1>1, <1>5, <1>13, ConnectionFailedIs
<1>14. ASSUME Same(r, {"pc", "work"}) \/ Same(r, {"pc"}), old.pc \in Ending, new.pc \in Ending,
              UNCHANGED rows, DraftsSettled(r, F) => DraftsSettled(r, F)'
       PROVE  Tended(r)'
  <2>1. /\ new.calm = old.calm /\ new.errors = old.errors /\ new.todo = old.todo
        /\ new.skipped = old.skipped
    BY <1>1, <1>14 DEF Same, RunFields
  <2>2. \A d : ToCome(old, d) => ToCome(new, d)
    BY <1>14, <2>1 DEF ToCome, Ending
  <2>3. Answers(new) => Answers(old)
    BY <1>14, <2>1 DEF Answers
  <2> QED BY <1>4, <1>14, <2>2, <2>3
<1>15. CASE Load(r)
  <2>1. PICK kept : kept = {f \in DOMAIN rows : <<f, rows[f].id>> \in runs[r].changed}
    OBVIOUS
  <2>2. old.pc = "load" /\ Further(new) /\ Same(r, {"pc", "work"})
    BY <1>1, <1>15, <2>1, LoadIs
  <2>3. old.pc \in Ending /\ new.pc \in Ending
    BY <2>2 DEF Further, Ending
  <2>4. UNCHANGED rows
    BY <1>15 DEF Load, Local, tables
  <2>5. DraftsSettled(r, F) => DraftsSettled(r, F)'
    BY <1>2, <1>15, LoadKeepsDrafts
  <2> QED BY <1>14, <2>2, <2>3, <2>4, <2>5
<1>16. CASE Evaluate(r)
  <2>1. PICK f : f = Turn(r)
    OBVIOUS
  <2>2. old.pc = "evaluate" /\ Further(new) /\ Same(r, {"pc", "work"})
    BY <1>1, <1>16, <2>1, EvaluateIs
  <2>3. old.pc \in Ending /\ new.pc \in Ending
    BY <2>2 DEF Further, Ending
  <2>4. UNCHANGED rows
    BY <1>16 DEF Evaluate
  <2>5. DraftsSettled(r, F) => DraftsSettled(r, F)'
    BY <1>2, <1>16, EvaluateKeepsDrafts
  <2> QED BY <1>14, <2>2, <2>3, <2>4, <2>5
<1>17. CASE Supersede(r)
  <2>1. old.pc = "supersede" /\ new.pc = "finish" /\ Same(r, {"pc"})
    BY <1>1, <1>17, SupersedeIs
  <2>2. UNCHANGED rows
    BY <1>17 DEF Supersede
  <2>3. DraftsSettled(r, F) => DraftsSettled(r, F)'
    BY <1>2, <1>17, SupersedeKeepsDrafts
  <2> QED BY <1>14, <2>1, <2>2, <2>3 DEF Ending
<1>18. ASSUME NEW at, NEW status \in {"completed", "failed"}, End(r, at, status) PROVE Tended(r)'
  <2>1. new.pc = "off"
    BY <1>1, <1>18, EndIs
  <2> QED BY <1>5, <2>1
<1>19. CASE Finish(r) \/ Abort(r)
  BY <1>18, <1>19 DEF Finish, Abort
<1>20. CASE ConnectionErrs(r) \/ RunErrs(r)
  <2>1. new.pc \in {"failed", "abort", "off"}
    BY <1>1, <1>20, ConnectionErrsIs, RunErrsIs
  <2> QED BY <1>5, <2>1
<1>21. CASE EvaluateFails(r)
  <2>1. new.calm = FALSE
    BY <1>1, <1>21, EvaluateFailsIs
  <2> QED BY <1>5, <2>1
<1> QED BY <1>6, <1>7, <1>8, <1>9, <1>10, <1>11, <1>12, <1>13, <1>15, <1>16, <1>17, <1>19, <1>20, <1>21
        DEF Goes, RunStep, MissingScope, ScopeLost

\* What others do leaves a run that still answers for anything what it has, and the tables.
LEMMA ElsewhereTended ==
  ASSUME Typed, TendInv, NEW r \in Runs,
         \/ \E t \in Tasks, in \in Moves : RemoteChange(t, in)
         \/ \E p \in Projects : ProjectChange(p)
         \/ \E c \in Conns : CreateConnection(c) \/ DeleteConnection(c)
         \/ Join \/ IntervalPasses \/ Poll \/ \E a \in Askers : Ask(a) \/ Started(a) \/ Crash(a)
  PROVE  Tended(r)'
<1>1. ASSUME UNCHANGED <<rows, drafts>>, Same(r, {"calm"}) \/ Same(r, {"touched"}),
             runs'[r].calm => runs[r].calm
      PROVE  Tended(r)'
  <2>1. Same(r, {"calm", "touched"})
    BY <1>1 DEF Same
  <2> QED BY <1>1, <2>1, TendedKept DEF TendInv
<1>2. ASSUME NEW T, UNCHANGED tables,
             runs' = [q \in Runs |-> IF q \in ActiveRuns
                                     THEN [runs[q] EXCEPT !.touched = @ \cup T] ELSE runs[q]]
      PROVE  Tended(r)'
  <2>1. Same(r, {"touched"})
    BY <1>2, TouchedIs DEF Typed
  <2>2. runs'[r].calm = runs[r].calm
    BY <2>1 DEF Same, RunFields
  <2> QED BY <1>1, <1>2, <2>1, <2>2 DEF tables
<1>3. ASSUME NEW t \in Tasks, NEW in \in Moves, RemoteChange(t, in) PROVE Tended(r)'
  <2>1. UNCHANGED tables /\ runs' = [q \in Runs |-> IF q \in ActiveRuns
                                  THEN [runs[q] EXCEPT !.touched = @ \cup {t}] ELSE runs[q]]
    BY <1>3 DEF RemoteChange
  <2> QED BY <1>2, <2>1
<1>4. ASSUME NEW p \in Projects, ProjectChange(p) PROVE Tended(r)'
  <2>1. PICK T : T = {t \in Tasks : remote[t].in \cap {p, HomeOf[p]} # {}}
    OBVIOUS
  <2>2. UNCHANGED tables /\ runs' = [q \in Runs |-> IF q \in ActiveRuns
                                  THEN [runs[q] EXCEPT !.touched = @ \cup T] ELSE runs[q]]
    BY <1>4, <2>1 DEF ProjectChange
  <2> QED BY <1>2, <2>2
<1>5. ASSUME NEW R, ActiveRuns \subseteq R, runs' = Disturbed(R) PROVE Tended(r)'
  <2>1. /\ Disturbed(R)[r].calm <=> runs[r].calm /\ r \notin R
        /\ \A k \in RunFields \ {"calm"} : Disturbed(R)[r][k] = runs[r][k]
    BY DisturbedIs DEF Typed
  <2>2. PICK new : new = Disturbed(R)[r]
    OBVIOUS
  <2>3. runs'[r] = new
    BY <1>5, <2>2
  <2>4. /\ new.calm <=> runs[r].calm /\ r \notin R
        /\ \A k \in RunFields \ {"calm"} : new[k] = runs[r][k]
    BY <2>1, <2>2
  <2>5. new.pc = runs[r].pc
    BY <2>4 DEF RunFields
  <2>6. new.calm => runs[r].pc = "off"
    <3> SUFFICES ASSUME new.calm, runs[r].pc # "off" PROVE FALSE
      OBVIOUS
    <3>1. r \in ActiveRuns
      BY Works DEF Typed, ActiveRuns
    <3> QED BY <1>5, <2>4, <3>1
  <2>7. ~Answers(new)
    BY <2>5, <2>6 DEF Answers, Ending
  <2> QED BY <2>3, <2>7, NothingToTend
<1>6. ASSUME NEW c \in Conns, CreateConnection(c) \/ DeleteConnection(c) PROVE Tended(r)'
  <2>1. PICK R : R = ActiveRuns
    OBVIOUS
  <2>2. runs' = Disturbed(R) \/ runs' = Disturbed(Runs)
    BY <1>6, <2>1 DEF CreateConnection, DeleteConnection
  <2>3. ActiveRuns \subseteq R /\ ActiveRuns \subseteq Runs
    BY <2>1 DEF ActiveRuns
  <2> QED BY <1>5, <2>2, <2>3
<1>7. ASSUME runs'[r] = runs[r], UNCHANGED tables PROVE Tended(r)'
  <2>1. Same(r, {"calm"})
    BY <1>7 DEF Same
  <2> QED BY <1>1, <1>7, <2>1 DEF tables
<1>8. CASE Join \/ IntervalPasses \/ Poll \/ \E a \in Askers : Ask(a)
  BY <1>7, <1>8 DEF Join, IntervalPasses, Poll, Ask
<1>9. ASSUME NEW a, Started(a) PROVE Tended(r)'
  <2>1. PICK s \in Runs :
          /\ runs'[s].pc = "begin" /\ \A q \in Runs \ {s} : Same(q, {"calm"})
          /\ \A q \in Runs : runs'[q].calm <=>
               runs[q].calm /\ (ActiveRuns # {} => q \notin ActiveRuns \cup {s})
    BY <1>9, StartedIs
  <2>2. CASE r = s
    <3>1. ~Answers(runs'[r])
      BY <2>1, <2>2 DEF Answers, Ending
    <3> QED BY <3>1, NothingToTend
  <2>3. CASE r # s
    <3>1. Same(r, {"calm"}) /\ (runs'[r].calm => runs[r].calm)
      BY <2>1, <2>3
    <3> QED BY <1>1, <1>9, <3>1 DEF Started, tables
  <2> QED BY <2>2, <2>3
<1>10. ASSUME NEW a, Crash(a) PROVE Tended(r)'
  <2>1. runs'[r] = runs[r] \/ runs'[r].pc = "off"
    BY <1>10, CrashIs
  <2>2. CASE runs'[r].pc = "off"
    <3>1. ~Answers(runs'[r])
      BY <2>2 DEF Answers, Ending
    <3> QED BY <3>1, NothingToTend
  <2> QED BY <1>7, <1>10, <2>1, <2>2 DEF Crash
<1> QED BY <1>3, <1>4, <1>6, <1>8, <1>9, <1>10

LEMMA TendStep == Typed /\ DraftInv /\ TendInv /\ [Next]_vars => TendInv'
<1> SUFFICES ASSUME Typed, DraftInv, TendInv, [Next]_vars PROVE TendInv'
  OBVIOUS
<1>1. CASE UNCHANGED vars
  <2>1. UNCHANGED <<runs, rows, drafts>>
    BY <1>1 DEF vars
  <2>2. ASSUME NEW r \in Runs PROVE Tended(r)'
    <3>1. Same(r, {"calm", "touched"}) /\ (runs'[r].calm => runs[r].calm)
      BY <2>1 DEF Same
    <3> QED BY <2>1, <3>1, TendedKept DEF TendInv
  <2> QED BY <2>2 DEF TendInv
<1>2. CASE Next
  <2>1. ASSUME \/ \E t \in Tasks, in \in Moves : RemoteChange(t, in)
               \/ \E p \in Projects : ProjectChange(p)
               \/ \E c \in Conns : CreateConnection(c) \/ DeleteConnection(c)
               \/ Join \/ IntervalPasses \/ Poll \/ \E a \in Askers : Ask(a) \/ Started(a) \/ Crash(a)
        PROVE  TendInv'
    <3> SUFFICES ASSUME NEW r \in Runs PROVE Tended(r)'
      BY DEF TendInv
    <3> QED BY <2>1, ElsewhereTended
  <2>2. ASSUME NEW r \in Runs, Goes(r) PROVE TendInv'
    <3>1. \A q \in Runs \ {r} : Tended(q)'
      BY <2>2, OthersTended DEF DraftInv
    <3> QED BY <2>2, <3>1, GoesTended DEF TendInv
  <2> QED BY <1>2, <2>1, <2>2 DEF Next, Goes
<1> QED BY <1>1, <1>2

\* A run that completes, alone, without a fault and without a skipped scope, has left the row,
\* the version, the scopes and the draft of each task nobody touched, and no row of a task it
\* does not see: persistConnectionSnapshot, createOrRefreshDraftForTask and
\* supersedeDraftsForTaskIds together.
THEOREM CompletedRunMirrorsHolds == ASSUME AllListed PROVE Spec => CompletedRunMirrors
<1>1. ASSUME Typed, MirrorInv, TendInv, [Next]_vars, NEW r \in Runs,
             runs[r].pc = "finish" /\ runs'[r].status = "completed"
               /\ runs[r].calm /\ runs[r].skipped = {}
      PROVE  \A c \in conns, t \in Tasks \ runs[r].touched :
               IF t \in Visible(c)
                 THEN /\ <<c, t>> \in DOMAIN rows
                      /\ rows[<<c, t>>].ver = remote[t].ver
                      /\ rows[<<c, t>>].in = remote[t].in \cap Covered(c)
                      /\ drafts[<<c, t>>] = IF t \in Drafting THEN remote[t].ver ELSE NoDraft
                 ELSE <<c, t>> \notin DOMAIN rows
  <2>1. runs[r].status \in Active
    BY <1>1, Works DEF Typed
  <2>2. Goes(r)
    BY <1>1, <2>1, GoesItself DEF Active
  <2>3. Finish(r) \/ RunErrs(r)
    BY <1>1, <2>2
       DEF Goes, RunStep, ScopeLost, MissingScope, SkipScope, FindPersisted, ConnectionFailed, Load,
           Evaluate, Supersede, Abort, End, EvaluateFails, Step, Begin, FetchPage, Persist,
           DeleteAll, PersistRefused, ConnectionErrs
  <2>4. Finish(r)
    <3>1. ASSUME RunErrs(r) PROVE FALSE
      <4>1. Same(r, {"pc", "calm", "cut"})
        BY <1>1, <3>1, RunErrsIs
      <4>2. runs'[r].status = runs[r].status
        BY <4>1 DEF Same, RunFields
      <4> QED BY <1>1, <2>1, <4>2 DEF Active
    <3> QED BY <2>3, <3>1
  <2>5. ~runs[r].errors
    <3> SUFFICES ASSUME runs[r].errors PROVE FALSE
      OBVIOUS
    <3>1. End(r, "finish", "failed")
      BY <2>4 DEF Finish
    <3>2. runs'[r].status = "failed"
      BY <1>1, <3>1, EndIs
    <3> QED BY <1>1, <3>2
  <2>6. Answers(runs[r]) /\ runs[r].todo = {}
    BY <1>1, <2>5 DEF MirrorInv, Mirror, Answers, Ending
  <2>7. \A c \in conns : Mirrored(runs[r], c)
    BY <1>1, <2>6 DEF MirrorInv, Mirror, Answers, ToCome
  <2>8. \A f \in DOMAIN rows : drafts[f] = Expected(f)
    BY <1>1, <2>6 DEF TendInv, Tended, Settled, Pending, ToCome
  <2>9. \A c, t : t \in Tasks => (t \in Visible(c) <=> remote[t].in \cap Covered(c) # {})
    BY DEF Visible
  <2>10. ASSUME NEW c \in conns, NEW t \in Untouched(runs[r])
         PROVE  IF t \in Visible(c)
                  THEN /\ <<c, t>> \in DOMAIN rows
                       /\ rows[<<c, t>>].ver = remote[t].ver
                       /\ rows[<<c, t>>].in = remote[t].in \cap Covered(c)
                       /\ drafts[<<c, t>>] = IF t \in Drafting THEN remote[t].ver ELSE NoDraft
                  ELSE <<c, t>> \notin DOMAIN rows
    <3>1. t \in Tasks
      BY DEF Untouched
    <3>2. CASE t \in Visible(c)
      <4>1. /\ <<c, t>> \in DOMAIN rows
            /\ rows[<<c, t>>].ver = remote[t].ver
            /\ rows[<<c, t>>].in = remote[t].in \cap Covered(c)
        BY <2>7, <2>9, <3>1, <3>2 DEF Mirrored
      <4>2. drafts[<<c, t>>] = IF t \in Drafting THEN remote[t].ver ELSE NoDraft
        BY <2>8, <4>1 DEF Expected
      <4> QED BY <3>2, <4>1, <4>2
    <3>3. CASE t \notin Visible(c)
      BY <2>7, <2>9, <3>1, <3>3 DEF Mirrored
    <3> QED BY <3>2, <3>3
  <2> QED BY <2>10 DEF Untouched
<1>2. Typed /\ MirrorInv /\ TendInv /\ [Next]_vars =>
        [\A r \in Runs :
           runs[r].pc = "finish" /\ runs'[r].status = "completed"
             /\ runs[r].calm /\ runs[r].skipped = {} =>
             \A c \in conns, t \in Tasks \ runs[r].touched :
               IF t \in Visible(c)
                 THEN /\ <<c, t>> \in DOMAIN rows
                      /\ rows[<<c, t>>].ver = remote[t].ver
                      /\ rows[<<c, t>>].in = remote[t].in \cap Covered(c)
                      /\ drafts[<<c, t>>] = IF t \in Drafting THEN remote[t].ver ELSE NoDraft
                 ELSE <<c, t>> \notin DOMAIN rows]_vars
  BY <1>1
<1> DEFINE Inv == Typed /\ DraftInv /\ SnapInv /\ MirrorInv /\ TendInv
<1>3. Init => Inv
  BY InitTyped, InitDrafts, InitSnap, InitMirror, InitTended
<1>4. Inv /\ [Next]_vars => Inv'
  BY TypedStep, DraftsStep, SnapStep, MirrorStep, TendStep
<1>5. Inv => Typed /\ MirrorInv /\ TendInv
  OBVIOUS
<1> HIDE DEF Inv
<1> QED BY <1>2, <1>3, <1>4, <1>5, PTL DEF Spec, CompletedRunMirrors
-----------------------------------------------------------------------------
(* The feed.                                                               *)

ViewFields == {"pc", "kind", "of", "by", "seen", "tasks", "items", "still"}

\* The item of a task, read together with its draft.
Answer(f, ver) ==
  [task |-> f, ver |-> ver, draft |-> IF Offers(f, ver) THEN drafts[f] ELSE NoDraft]

\* What a request knows at its steps: as long as nothing changed under it, what it
\* has read is what the tables hold.
Shown == {f \in DOMAIN rows : Wanted(f)}
StillList == view.still /\ view.kind = "list"

\* The newest of these tasks, as many as the limit.
Newest(P) ==
  /\ P \subseteq Shown
  /\ IF Cardinality(Shown) <= FeedLimit THEN P = Shown ELSE Cardinality(P) = FeedLimit
  /\ \A f \in P, g \in Shown \ P : rows[f].ver >= rows[g].ver

ViewInv ==
  /\ view = [k \in ViewFields |-> view[k]]
  /\ view.kind # "list" => view.by = Nothing
  /\ view.pc \in {"idle", "tasks", "connection", "drafts", "done"}
  /\ view.pc = "tasks" => view.kind = "list" /\ (view.still => view.seen = conns)
  /\ view.pc = "connection" =>
       view.kind = "key" /\ \E f \in Feed : view.of = {f} /\ DOMAIN view.tasks = {f}
  /\ view.pc = "drafts" =>
       /\ \A f \in DOMAIN view.tasks : f[1] \in view.seen
       /\ StillList => /\ DOMAIN view.tasks = Shown
                       /\ \A f \in Shown : view.tasks[f].ver = rows[f].ver
  /\ view.pc = "done" =>
       /\ \A x \in view.items : x.draft \in {NoDraft, x.ver} /\ x.task[1] \in view.seen
       /\ StillList => \E P : Newest(P) /\ view.items = {Answer(f, rows[f].ver) : f \in P}

\* No step goes from one provider to the other.
LEMMA ProviderKept == [Next]_vars => provider' = provider
<1> SUFFICES ASSUME [Next]_vars PROVE provider' = provider
  OBVIOUS
<1>1. CASE \/ UNCHANGED vars \/ \E t \in Tasks, in \in Moves : RemoteChange(t, in)
           \/ \E p \in Projects : ProjectChange(p)
           \/ \E c \in Conns : CreateConnection(c) \/ DeleteConnection(c)
           \/ Join \/ IntervalPasses \/ Poll
           \/ \E a \in Askers : Ask(a) \/ Started(a) \/ Crash(a)
  BY <1>1 DEF vars, site, RemoteChange, ProjectChange, CreateConnection, DeleteConnection, Join,
              IntervalPasses, Poll, Ask, Started, Crash
<1>2. CASE \E r \in Runs : \/ ScopeLost(r) \/ ConnectionErrs(r) \/ EvaluateFails(r) \/ RunErrs(r)
                           \/ MissingScope(r) \/ ConnectionFailed(r) \/ Begin(r) \/ FetchPage(r)
  BY <1>2 DEF site, ScopeLost, SkipScope, ConnectionErrs, EvaluateFails, RunErrs, MissingScope,
              ConnectionFailed, Begin, FetchPage, Local
<1>3. CASE \E r \in Runs : Persist(r) \/ DeleteAll(r) \/ PersistRefused(r) \/ FindPersisted(r)
  BY <1>3 DEF site, Persist, DeleteAll, PersistRefused, FindPersisted, Local
<1>4. CASE \E r \in Runs : Load(r) \/ Evaluate(r) \/ Supersede(r) \/ Finish(r) \/ Abort(r)
  BY <1>4 DEF site, Load, Evaluate, Supersede, Finish, Abort, End, Local
<1> QED BY <1>1, <1>2, <1>3, <1>4 DEF Next, RunStep

LEMMA InitView == view = NoView => ViewInv
<1> SUFFICES ASSUME view = NoView PROVE ViewInv
  OBVIOUS
<1>1. view = [pc |-> "idle", kind |-> "list", of |-> {}, by |-> Nothing, seen |-> {},
              tasks |-> Empty, items |-> {}, still |-> TRUE]
  BY DEF NoView
<1>2. view = [k \in ViewFields |-> view[k]]
  BY <1>1 DEF ViewFields
<1>3. view.pc = "idle" /\ view.by = Nothing
  BY <1>1
<1> QED BY <1>2, <1>3 DEF ViewInv

LEMMA NoViewNext == view' = NoView => ViewInv'
<1> SUFFICES ASSUME view' = NoView PROVE ViewInv'
  OBVIOUS
<1>1. view' = [pc |-> "idle", kind |-> "list", of |-> {}, by |-> Nothing, seen |-> {},
               tasks |-> Empty, items |-> {}, still |-> TRUE]
  BY DEF NoView
<1>2. view' = [k \in ViewFields |-> view'[k]]
  BY <1>1 DEF ViewFields
<1>3. view'.pc = "idle" /\ view'.by = Nothing
  BY <1>1
<1> QED BY <1>2, <1>3 DEF ViewInv

\* What the tables answer depends on the tables, the provider and the filter.
LEMMA AnswersKept ==
  ASSUME UNCHANGED <<provider, rows, drafts>>, view'.by = view.by
  PROVE  /\ Shown' = Shown /\ \A f, ver : Answer(f, ver)' = Answer(f, ver)
         /\ \A P : /\ Newest(P)' <=> Newest(P)
                   /\ {Answer(f, rows[f].ver) : f \in P}' = {Answer(f, rows[f].ver) : f \in P}
<1>1. Shown' = Shown /\ \A f, ver : Answer(f, ver)' = Answer(f, ver)
  BY DEF Shown, Wanted, MatchesScope, ScopeRows, IsProject, IsWorkspace, Answer, Offers
<1>2. ASSUME NEW P PROVE Newest(P)' <=> Newest(P)
  BY <1>1 DEF Newest
<1>3. ASSUME NEW P PROVE {Answer(f, rows[f].ver) : f \in P}' = {Answer(f, rows[f].ver) : f \in P}
  BY <1>1
<1> QED BY <1>1, <1>2, <1>3

LEMMA SyncKeepsView ==
  ASSUME ViewInv, provider' = provider,
         view' = IF view.pc = "idle" \/ UNCHANGED tables THEN view
                 ELSE [view EXCEPT !.still = FALSE]
  PROVE  ViewInv'
<1>1. CASE view.pc = "idle"
  BY <1>1 DEF ViewInv
<1>2. CASE UNCHANGED tables
  <2>1. view' = view /\ UNCHANGED <<conns, rows, drafts>>
    BY <1>2 DEF tables
  <2>2. /\ Shown' = Shown /\ \A f, ver : Answer(f, ver)' = Answer(f, ver)
    BY <2>1, AnswersKept
  <2>3. \A P : /\ Newest(P)' <=> Newest(P)
               /\ {Answer(f, rows[f].ver) : f \in P}' = {Answer(f, rows[f].ver) : f \in P}
    BY <2>1, AnswersKept
  <2> QED BY <2>1, <2>2, <2>3 DEF ViewInv, StillList
<1>3. CASE view.pc # "idle" /\ ~UNCHANGED tables
  <2>1. view' = [view EXCEPT !.still = FALSE]
    BY <1>3
  <2>2. /\ view' = [k \in ViewFields |-> view'[k]] /\ view'.still = FALSE
        /\ \A k \in ViewFields \ {"still"} : view'[k] = view[k]
    BY <2>1 DEF ViewInv, ViewFields
  <2>3. /\ view'.pc = view.pc /\ view'.kind = view.kind /\ view'.of = view.of
        /\ view'.seen = view.seen /\ view'.tasks = view.tasks /\ view'.items = view.items
        /\ view'.by = view.by
    BY <2>2 DEF ViewFields
  <2> QED BY <2>2, <2>3 DEF ViewInv, StillList
<1> QED BY <1>1, <1>2, <1>3

\* What a request reads: the connections, the tasks, the connection of a task, the drafts.
LEMMA FeedKeepsView ==
  ASSUME Typed, ViewInv, FeedStep
  PROVE  ViewInv'
<1>1. UNCHANGED <<provider, conns, rows, drafts>>
  BY DEF FeedStep, ReadConnections, ReadTasks, ReadTask, FindConnection, ReadDrafts, Answered, Read, vars
<1>2. ASSUME NEW filter, ReadConnections(filter) PROVE ViewInv'
  <2>1. view' = [NoView EXCEPT !.pc = "tasks", !.by = filter, !.seen = conns]
    BY <1>2 DEF ReadConnections, Reading
  <2>2. view' = [pc |-> "tasks", kind |-> "list", of |-> {}, by |-> filter, seen |-> conns,
                 tasks |-> Empty, items |-> {}, still |-> TRUE]
    BY <2>1 DEF NoView
  <2>3. view' = [k \in ViewFields |-> view'[k]]
    BY <2>2 DEF ViewFields
  <2> QED BY <1>1, <2>2, <2>3 DEF ViewInv
<1>3. CASE ReadTasks
  <2>1. PICK tasks : tasks = [f \in {g \in DOMAIN rows : g[1] \in view.seen /\ Wanted(g)} |->
                                [ver |-> rows[f].ver, in |-> rows[f].in]]
    OBVIOUS
  <2>2. view.pc = "tasks" /\ view' = [view EXCEPT !.pc = "drafts", !.tasks = tasks]
    BY <1>3, <2>1 DEF ReadTasks, Reading
  <2>3. /\ view' = [k \in ViewFields |-> view'[k]]
        /\ view'.pc = "drafts" /\ view'.tasks = tasks
        /\ \A k \in ViewFields \ {"pc", "tasks"} : view'[k] = view[k]
    BY <2>2 DEF ViewInv, ViewFields
  <2>4. /\ view'.by = view.by /\ view'.seen = view.seen /\ view'.still = view.still
        /\ view'.kind = view.kind
    BY <2>3 DEF ViewFields
  <2>5. Shown' = Shown
    BY <1>1, <2>4, AnswersKept
  <2>6. /\ DOMAIN tasks = {g \in DOMAIN rows : g[1] \in view.seen /\ Wanted(g)}
        /\ \A f \in DOMAIN tasks : tasks[f].ver = rows[f].ver
    BY <2>1
  <2>7. view.still => DOMAIN tasks = Shown
    BY <2>2, <2>6 DEF ViewInv, Typed, RowTypes, Shown
  <2>8. \A f \in DOMAIN view'.tasks : f[1] \in view'.seen
    BY <2>3, <2>4, <2>6
  <2>9. StillList' => DOMAIN view'.tasks = Shown' /\ \A f \in Shown' : view'.tasks[f].ver = rows'[f].ver
    BY <1>1, <2>3, <2>4, <2>5, <2>6, <2>7 DEF StillList
  <2>10. view'.kind # "list" => view'.by = Nothing
    BY <2>4 DEF ViewInv
  <2> QED BY <2>3, <2>8, <2>9, <2>10 DEF ViewInv
<1>4. ASSUME NEW f \in Feed, ReadTask(f) PROVE ViewInv'
  <2>1. PICK tasks : tasks = [g \in {f} |-> [ver |-> rows[g].ver, in |-> rows[g].in]]
    OBVIOUS
  <2>2. view' = [NoView EXCEPT !.pc = "connection", !.kind = "key", !.of = {f}, !.tasks = tasks]
    BY <1>4, <2>1 DEF ReadTask, Reading
  <2>3. view' = [pc |-> "connection", kind |-> "key", of |-> {f}, by |-> Nothing, seen |-> {},
                 tasks |-> tasks, items |-> {}, still |-> TRUE]
    BY <2>2 DEF NoView
  <2>4. view' = [k \in ViewFields |-> view'[k]]
    BY <2>3 DEF ViewFields
  <2>5. DOMAIN tasks = {f}
    BY <2>1
  <2> QED BY <2>3, <2>4, <2>5 DEF ViewInv
<1>5. CASE FindConnection
  <2>1. PICK f \in Feed : view.of = {f} /\ DOMAIN view.tasks = {f} /\ view.kind = "key"
    BY <1>5 DEF FindConnection, ViewInv
  <2>2. \/ view' = [view EXCEPT !.pc = "drafts", !.seen = {f[1]}] \/ view' = NoView
    BY <1>5, <2>1 DEF FindConnection
  <2>3. CASE view' = [view EXCEPT !.pc = "drafts", !.seen = {f[1]}]
    <3>1. /\ view' = [k \in ViewFields |-> view'[k]]
          /\ view'.pc = "drafts" /\ view'.seen = {f[1]}
          /\ \A k \in ViewFields \ {"pc", "seen"} : view'[k] = view[k]
      BY <2>3 DEF ViewInv, ViewFields
    <3>2. view'.tasks = view.tasks /\ view'.kind = "key" /\ view'.by = view.by
      BY <2>1, <3>1 DEF ViewFields
    <3>3. view.by = Nothing
      BY <2>1 DEF ViewInv
    <3> QED BY <2>1, <3>1, <3>2, <3>3 DEF ViewInv, StillList
  <2>4. CASE view' = NoView
    BY <2>4, NoViewNext
  <2> QED BY <2>2, <2>3, <2>4
<1>6. CASE ReadDrafts
  <2>1. PICK shown, items :
          /\ shown \in IF view.kind = "list" THEN Slices(view.tasks) ELSE {DOMAIN view.tasks}
          /\ items = {Answer(f, view.tasks[f].ver) : f \in shown}
          /\ view.pc = "drafts" /\ view' = [view EXCEPT !.pc = "done", !.items = items]
    BY <1>6 DEF ReadDrafts, Reading, Answer
  <2>2. shown \subseteq DOMAIN view.tasks
    BY <2>1 DEF Slices
  <2>3. /\ view' = [k \in ViewFields |-> view'[k]]
        /\ view'.pc = "done" /\ view'.items = items
        /\ \A k \in ViewFields \ {"pc", "items"} : view'[k] = view[k]
    BY <2>1 DEF ViewInv, ViewFields
  <2>4. /\ view'.by = view.by /\ view'.seen = view.seen /\ view'.still = view.still
        /\ view'.kind = view.kind
    BY <2>3 DEF ViewFields
  <2>5. \A P : /\ Newest(P)' <=> Newest(P)
               /\ {Answer(f, rows[f].ver) : f \in P}' = {Answer(f, rows[f].ver) : f \in P}
    BY <1>1, <2>4, AnswersKept
  <2>6. \A f, ver : /\ Answer(f, ver).draft \in {NoDraft, Answer(f, ver).ver}
                    /\ Answer(f, ver).task = f
    BY DEF Answer, Offers
  <2>7. ASSUME NEW x \in items PROVE x.draft \in {NoDraft, x.ver} /\ x.task[1] \in view.seen
    <3>1. PICK f \in shown : x = Answer(f, view.tasks[f].ver)
      BY <2>1
    <3>2. x.draft \in {NoDraft, x.ver} /\ x.task = f
      BY <2>6, <3>1
    <3>3. f[1] \in view.seen
      BY <2>1, <2>2 DEF ViewInv
    <3> QED BY <3>2, <3>3
  <2>8. ASSUME StillList
        PROVE  Newest(shown) /\ items = {Answer(f, rows[f].ver) : f \in shown}
    <3>1. DOMAIN view.tasks = Shown /\ \A f \in Shown : view.tasks[f].ver = rows[f].ver
      BY <2>1, <2>8 DEF ViewInv
    <3>2. shown \in Slices(view.tasks)
      BY <2>1, <2>8 DEF StillList
    <3>3. /\ IF Cardinality(Shown) <= FeedLimit THEN shown = Shown ELSE Cardinality(shown) = FeedLimit
          /\ \A f \in shown, g \in Shown \ shown : view.tasks[f].ver >= view.tasks[g].ver
      BY <3>1, <3>2 DEF Slices
    <3>4. \A f \in shown : f \in Shown /\ view.tasks[f].ver = rows[f].ver
      BY <2>2, <3>1
    <3>5. \A f \in shown, g \in Shown \ shown : rows[f].ver >= rows[g].ver
      BY <3>1, <3>3, <3>4
    <3>6. Newest(shown)
      BY <2>2, <3>1, <3>3, <3>5 DEF Newest
    <3> QED BY <2>1, <3>4, <3>6
  <2>9. ASSUME StillList'
        PROVE  (\E P : Newest(P) /\ view.items = {Answer(f, rows[f].ver) : f \in P})'
    <3>1. StillList
      BY <2>4, <2>9 DEF StillList
    <3>2. Newest(shown) /\ items = {Answer(f, rows[f].ver) : f \in shown}
      BY <2>8, <3>1
    <3>3. Newest(shown)' /\ view'.items = {Answer(f, rows[f].ver) : f \in shown}'
      BY <2>3, <2>5, <3>2
    <3> QED BY <3>3
  <2>10. view'.kind # "list" => view'.by = Nothing
    BY <2>4 DEF ViewInv
  <2> QED BY <2>3, <2>4, <2>7, <2>9, <2>10 DEF ViewInv
<1>7. CASE Answered
  <2>1. view' = NoView
    BY <1>7 DEF Answered, Reading
  <2> QED BY <2>1, NoViewNext
<1> QED BY <1>2, <1>3, <1>4, <1>5, <1>6, <1>7 DEF FeedStep

\* A feed offers no draft for another version of the task than the one it shows, nor a task
\* of a connection that was not there; one that nothing overlapped shows every task of its
\* scope, or of more than the limit the newest, and offers every ready draft of those.
LEMMA ViewSteps == FeedSpec => [](Typed /\ DraftInv /\ ViewInv)
<1> DEFINE Inv == Typed /\ DraftInv /\ ViewInv
<1>1. Init /\ view = NoView => Inv
  BY InitTyped, InitDrafts, InitView
<1>2. Inv /\ [SyncStep \/ FeedStep]_feedvars => Inv'
  <2> SUFFICES ASSUME Typed, DraftInv, ViewInv, [SyncStep \/ FeedStep]_feedvars PROVE Inv'
    OBVIOUS
  <2>1. [Next]_vars
    BY DEF SyncStep, FeedStep, ReadConnections, ReadTasks, ReadTask, FindConnection, ReadDrafts,
           Answered, Read, feedvars
  <2>2. Typed' /\ DraftInv'
    BY <2>1, TypedStep, DraftsStep
  <2>3. ASSUME SyncStep PROVE ViewInv'
    BY <2>1, <2>3, ProviderKept, SyncKeepsView DEF SyncStep
  <2>4. ASSUME FeedStep PROVE ViewInv'
    BY <2>4, FeedKeepsView
  <2>5. ASSUME UNCHANGED feedvars PROVE ViewInv'
    <3>1. UNCHANGED tables /\ provider' = provider /\ view' = view
      BY <2>5 DEF feedvars, vars, tables
    <3> QED BY <3>1, SyncKeepsView
  <2> QED BY <2>2, <2>3, <2>4, <2>5
<1> HIDE DEF Inv
<1>3. FeedSpec => []Inv
  BY <1>1, <1>2, PTL DEF FeedSpec
<1> QED BY <1>3, PTL DEF Inv

\* What is shown of the tasks in the tables.
LEMMA ViewShows ==
  ASSUME Typed, DraftInv, ViewInv, view.pc = "done", StillList
  PROVE  /\ Newest(ShownTasks)
         /\ AllCalm /\ ActiveRuns = {} => \A x \in view.items : x.draft = drafts[x.task]
<1>1. PICK P : Newest(P) /\ view.items = {Answer(f, rows[f].ver) : f \in P}
  BY DEF ViewInv
<1>2. \A f, ver : Answer(f, ver).task = f
  BY DEF Answer
<1>3. ShownTasks = P
  <2>1. \A x \in view.items : \E f \in P : x = Answer(f, rows[f].ver) /\ x.task = f
    BY <1>1, <1>2
  <2>2. ASSUME NEW f \in P PROVE \E x \in view.items : x.task = f
    <3>1. Answer(f, rows[f].ver) \in view.items
      BY <1>1
    <3> QED BY <1>2, <3>1
  <2>3. \A f : f \in ShownTasks <=> \E x \in view.items : x.task = f
    BY DEF ShownTasks
  <2>4. \A f : f \in ShownTasks <=> f \in P
    BY <2>1, <2>2, <2>3
  <2> QED BY <2>4
<1>4. ASSUME AllCalm, ActiveRuns = {}, NEW f \in P
      PROVE  Answer(f, rows[f].ver).draft = drafts[f]
  <2>1. f \in DOMAIN rows /\ f \in Feed
    BY <1>1, <1>4 DEF Newest, Typed, RowTypes, Shown
  <2>2. drafts[f] = Expected(f)
    BY <1>4, <2>1 DEF DraftInv
  <2> QED BY <2>1, <2>2 DEF Answer, Offers, Expected
<1>5. Newest(ShownTasks)
  BY <1>1, <1>3
<1>6. ASSUME AllCalm, ActiveRuns = {}, NEW x \in view.items PROVE x.draft = drafts[x.task]
  <2>1. PICK f \in P : x = Answer(f, rows[f].ver)
    BY <1>1
  <2>2. x.task = f
    BY <1>2, <2>1
  <2> QED BY <1>4, <1>6, <2>1, <2>2
<1> QED BY <1>5, <1>6

\* A feed offers no draft for another version of the task than the one it shows, nor a task
\* of a connection that was not there; one that nothing overlapped shows every task of its
\* scope, or of more than the limit the newest, as many as the limit, and offers every ready
\* draft of those (listTaskFeedItemsForUser, getTaskFeedItemByKey).
THEOREM FeedIsHonestHolds == FeedSpec => []FeedIsHonest
<1>1. Typed /\ DraftInv /\ ViewInv => FeedIsHonest
  <2> SUFFICES ASSUME Typed, DraftInv, ViewInv, view.pc = "done" PROVE FeedIsHonest
    BY DEF FeedIsHonest
  <2>1. \A x \in view.items : x.draft \in {NoDraft, x.ver} /\ x.task[1] \in view.seen
    BY DEF ViewInv
  <2>2. ASSUME StillList
        PROVE  /\ Newest(ShownTasks)
               /\ AllCalm /\ ActiveRuns = {} => \A x \in view.items : x.draft = drafts[x.task]
    BY <2>2, ViewShows
  <2>3. PICK all : all = {f \in DOMAIN rows : Wanted(f)} /\ all = Shown
    BY DEF Shown
  <2>4. ASSUME StillList
        PROVE  /\ ShownTasks \subseteq all
               /\ IF Cardinality(all) <= FeedLimit THEN ShownTasks = all
                  ELSE Cardinality(ShownTasks) = FeedLimit
               /\ \A f \in ShownTasks, g \in all \ ShownTasks : rows[f].ver >= rows[g].ver
    BY <2>2, <2>3, <2>4 DEF Newest
  <2> QED BY <2>1, <2>2, <2>3, <2>4 DEF FeedIsHonest, StillList, AllCalm
<1> QED BY <1>1, ViewSteps, PTL

\* The number listScopesForUser gives next to a scope is the number of tasks filterByScope
\* lets through for it: a parent that is one of the scopes is a workspace of Asana.
LEMMA CountedIsFiltered ==
  ASSUME NEW s \in Scopes
  PROVE  Counted(s) = {f \in DOMAIN rows : MatchesScope(rows[f].in, s)}
<1>1. \A in, x : x \in ScopeRows(in) /\ x.parent = s => IsWorkspace(s)
  <2> SUFFICES ASSUME NEW in, NEW x \in ScopeRows(in), x.parent = s PROVE IsWorkspace(s)
    OBVIOUS
  <2>1. PICK t \in in : x.parent = IF IsProject(t) THEN HomeOf[t] ELSE Nothing
    BY DEF ScopeRows
  <2>2. IsProject(t) /\ s = HomeOf[t]
    BY <2>1, FeedAssumption
  <2> QED BY <2>2 DEF IsProject, IsWorkspace
<1>2. \A f : f \in Counted(s) <=>
        f \in DOMAIN rows /\ \E x \in ScopeRows(rows[f].in) : x.id = s \/ x.parent = s
  <2> TAKE f
  <2>1. PICK listed : listed = UNION {{[task |-> g, scope |-> x] : x \in ScopeRows(rows[g].in)} :
                                        g \in DOMAIN rows}
    OBVIOUS
  <2>2. \A y : y \in listed <=>
          \E g \in DOMAIN rows : \E x \in ScopeRows(rows[g].in) : y = [task |-> g, scope |-> x]
    BY <2>1
  <2>3. Counted(s) = {x.task : x \in {y \in listed : y.scope.id = s \/ y.scope.parent = s}}
    BY <2>1 DEF Counted
  <2>4. f \in Counted(s) <=> \E y \in listed : y.task = f /\ (y.scope.id = s \/ y.scope.parent = s)
    BY <2>3
  <2>5. ASSUME NEW y \in listed, y.task = f, y.scope.id = s \/ y.scope.parent = s
        PROVE  f \in DOMAIN rows /\ \E x \in ScopeRows(rows[f].in) : x.id = s \/ x.parent = s
    <3>1. PICK g \in DOMAIN rows : \E x \in ScopeRows(rows[g].in) : y = [task |-> g, scope |-> x]
      BY <2>2
    <3>2. PICK x \in ScopeRows(rows[g].in) : y = [task |-> g, scope |-> x]
      BY <3>1
    <3>3. g = f /\ y.scope = x
      BY <2>5, <3>2
    <3> QED BY <2>5, <3>3
  <2>6. ASSUME f \in DOMAIN rows, NEW x \in ScopeRows(rows[f].in), x.id = s \/ x.parent = s
        PROVE  \E y \in listed : y.task = f /\ (y.scope.id = s \/ y.scope.parent = s)
    <3>1. PICK y : y = [task |-> f, scope |-> x]
      OBVIOUS
    <3>2. y \in listed
      BY <2>2, <2>6, <3>1
    <3>3. y.task = f /\ y.scope = x
      BY <3>1
    <3> QED BY <2>6, <3>2, <3>3
  <2> QED BY <2>4, <2>5, <2>6
<1> QED BY <1>1, <1>2 DEF MatchesScope

\* The number listScopesForUser gives next to a scope is the number of tasks filterByScope
\* lets through for it, and what a feed by that scope shows when nothing overlapped it and the
\* limit does not cut it.
THEOREM ScopesMatchFilterHolds == FeedSpec => []ScopesMatchFilter
<1>1. Typed /\ DraftInv /\ ViewInv => ScopesMatchFilter
  <2> SUFFICES ASSUME Typed, DraftInv, ViewInv, NEW s \in Scopes
               PROVE  /\ Counted(s) = {f \in DOMAIN rows : MatchesScope(rows[f].in, s)}
                      /\ view.pc = "done" /\ view.still /\ view.by = s =>
                           /\ ShownTasks \subseteq Counted(s)
                           /\ ShownTasks = Counted(s) \/ Cardinality(ShownTasks) = FeedLimit
    BY DEF ScopesMatchFilter
  <2>1. Counted(s) = {f \in DOMAIN rows : MatchesScope(rows[f].in, s)}
    BY CountedIsFiltered
  <2>2. ASSUME view.pc = "done", view.still, view.by = s
        PROVE  /\ ShownTasks \subseteq Counted(s)
               /\ ShownTasks = Counted(s) \/ Cardinality(ShownTasks) = FeedLimit
    <3>1. s # Nothing
      BY FeedAssumption
    <3>2. StillList
      BY <2>2, <3>1 DEF ViewInv, StillList
    <3>3. Newest(ShownTasks)
      BY <2>2, <3>2, ViewShows
    <3>4. Shown = Counted(s)
      BY <2>1, <2>2, <3>1 DEF Shown, Wanted
    <3> QED BY <3>3, <3>4 DEF Newest
  <2> QED BY <2>1, <2>2
<1> QED BY <1>1, ViewSteps, PTL
=============================================================================
