----------------------------- MODULE ReviewGate -----------------------------
(***************************************************************************)
(* The AI review of one implementation execution (the parent): review and  *)
(* remediation children, the records of the review cycles, the decision of *)
(* the user, the sweep that answers for a user who does not decide.        *)
(*                                                                         *)
(* Everybody who works for the parent - its own exit handler, the exit     *)
(* handlers of its children, API requests, the sweep - performs a script   *)
(* of database statements and calls, one per step, while the others run.   *)
(* An error ends the script where it is.  How an execution is claimed and  *)
(* spawned is the subject of ExecutionLifecycle; here it is one step, and  *)
(* so is a crash of the worker with the recovery after it.                 *)
(***************************************************************************)
EXTENDS Naturals, Sequences, FiniteSets, FiniteSetsExt, Functions

CONSTANTS
  Kids,         \* bound: ids of review and remediation executions, in order
  Requests,     \* bound: API requests about the parent
  Offered,      \* what they ask for: subset of Decisions
  MaxCycles,    \* EXECUTION_REVIEW_MAX_CYCLES
  MaxTries,     \* MAX_IMPLEMENTATION_ATTEMPTS of the publication service
  LongestState, \* characters the column orchestration_state can hold
  Events,       \* which of EventKinds may happen
  MaxEvents     \* bound: how many of them

Decisions == {"continue", "block", "fix", "cancel"}
EventKinds ==
  { "crash",        \* the worker dies and boots again
    "refused",      \* an execution cannot be enqueued
    "cannotStart",  \* the consumer fails an execution before its CLI runs
    "switch",       \* the user switches the AI review on or off
    "cancelChild",  \* the user cancels a child
    "race",         \* a user and the sweep, or two users, take one decision
    "overdue" }     \* a decision is not taken for 24 hours (not counted)

ASSUME GateAssumption ==
  /\ Kids \in Seq(Range(Kids)) /\ IsInjective(Kids)
  /\ Range(Kids) \cap Requests = {}
  /\ {"impl", "sweep", "none"} \cap (Range(Kids) \cup Requests) = {}
  /\ MaxCycles \in Nat \ {0} /\ MaxTries \in Nat \ {0} /\ MaxEvents \in Nat
  /\ LongestState \in Nat
  /\ Offered \subseteq Decisions /\ Events \subseteq EventKinds

VARIABLES
  parent,   \* the parent's row; due: reviewPendingDecisionUntil
  job,      \* the parent is in the queue
  impl,     \* the parent's own CLI process is alive
  child,    \* rows of the children, in the queue or not, alive or not
  rec,      \* execution_reviews: the record of each cycle
  review,   \* the user's setting aiReviewEnabled
  todo,     \* the script each actor has still to perform
  cyc,      \* the cycle it is about
  kid,      \* the child it has created
  tries,    \* implementationAttempts
  used,     \* requests that were sent
  opened,   \* history: pull requests opened
  mishaps,  \* history: a crash, a race of two decisions, no cycle left
  events

vars == <<parent, job, impl, child, rec, review, todo, cyc, kid, tries, used,
          opened, mishaps, events>>

Cycles == 1..MaxCycles
Children == Range(Kids)
Actors == {"impl", "sweep"} \cup Children \cup Requests
NoChild == "none"

Gates == {"not_applicable", "review_running", "awaiting_decision", "decision_continue",
          "decision_block", "remediation_running", "review_passed", "timeout_continue"}
States == {"queued", "running", "finalizing", "awaiting_review_decision", "done", "failed"}
Statuses == {"pending", "running", "completed", "failed", "cancelled"}
RecordStatuses == {"none", "review_running", "awaiting_decision", "decision_continue",
                   "decision_block", "remediation_running", "completed_pass",
                   "completed_fail", "failed"}

NoRecord == [status |-> "none", review |-> NoChild, remediation |-> NoChild]
Unborn == [role |-> "none", status |-> "pending", queued |-> FALSE, alive |-> FALSE]

Init ==
  /\ parent = [status |-> "pending", orch |-> "queued", gate |-> "not_applicable",
               due |-> "never"]
  /\ job = TRUE /\ impl = FALSE
  /\ child = [c \in Children |-> Unborn]
  /\ rec = [k \in Cycles |-> NoRecord]
  /\ review = TRUE
  /\ todo = [a \in Actors |-> <<>>]
  /\ cyc = [a \in Actors |-> 1]
  /\ kid = [a \in Actors |-> NoChild]
  /\ tries = 1 /\ used = {} /\ opened = 0 /\ mishaps = {} /\ events = 0

Happens(kind) == kind \in Events /\ events < MaxEvents /\ events' = events + 1

-----------------------------------------------------------------------------
(* Statements and scripts.                                                 *)

Do(op) == [op |-> op]
Rec(status) == [op |-> "record", status |-> status]
Par(status, orch, gate) ==
  [op |-> "parent", status |-> status, orch |-> orch, gate |-> gate]
Save(role) == [op |-> "save", role |-> role]
Finish(status, orch) == [op |-> "finish", status |-> status, orch |-> orch]

\* Statement op is the next one of actor a.
Next1(a, op) == todo[a] # <<>> /\ Head(todo[a]).op = op
Advance(a) == todo' = [todo EXCEPT ![a] = Tail(@)]
Perform(a, script) == todo' = [todo EXCEPT ![a] = script]
Throws(a) == Perform(a, <<>>)

\* failParentExecution.
FailParent == Par("failed", "failed", "decision_block")

\* handleImplementationCompletion: the scripts of its branches.
SkipReview == Par("completed", "finalizing", "not_applicable")
StartReview ==
  <<Save("review"), Do("saveRecord"), Par("running", "finalizing", "review_running"),
    Do("dispatch")>>

\* handleReviewCompletion, then handleChildOutcome.
ReviewPassed ==
  <<Rec("completed_pass"), Par("completed", "finalizing", "review_passed"), Do("publish")>>
AskUser ==
  <<Rec("awaiting_decision"), Par("running", "awaiting_review_decision", "awaiting_decision")>>

\* handleRemediationCompletion.
RemediationFailed == <<Rec("failed"), FailParent>>
RemediationDone == <<Rec("completed_fail"), Do("gate")>>

\* applyDecision, then applyReviewDecisionForUser.
ContinueScript ==
  <<Rec("decision_continue"), Par("completed", "finalizing", "decision_continue"),
    Do("publish")>>
BlockScript == <<Rec("decision_block"), FailParent, Do("markBlocked")>>
FixExhausted == <<FailParent>>
FixScript ==
  <<Save("remediation"), Do("linkFix"), Par("running", "finalizing", "remediation_running"),
    Do("dispatch")>>

\* markTimedOutAwaitingDecision, then processReviewTimeouts.
TimeoutUnpublished ==                                             \* mutant
  <<Rec("decision_continue"), Par("completed", "finalizing", "timeout_continue")>>
TimeoutScript ==
  <<Rec("decision_continue"), Par("completed", "finalizing", "timeout_continue"),
    Do("publish")>>

\* cancelForUser, in a process that runs no CLI.
CancelScript == <<Do("cancel")>>

-----------------------------------------------------------------------------
(* The statements.                                                         *)

WriteRecord(a) ==
  /\ Next1(a, "record")
  /\ rec' = [rec EXCEPT ![cyc[a]].status = Head(todo[a]).status]
  /\ Advance(a)
  /\ UNCHANGED <<parent, job, impl, child, review, cyc, kid, tries, used,
                 opened, mishaps, events>>

\* The column is varchar(16): Postgres refuses the one longer state.
Fits(s) == s = "awaiting_review_decision" => LongestState >= 24

\* An update of the parent by id; only a pending decision has a date.
WriteParent(a) ==
  /\ Next1(a, "parent")
  /\ LET s == Head(todo[a]) IN
       \/ /\ Fits(s.orch)
          /\ parent' = [status |-> s.status, orch |-> s.orch, gate |-> s.gate,
                        due |-> IF s.gate = "awaiting_decision" THEN "later" ELSE "never"]
          /\ Advance(a)
       \/ ~Fits(s.orch) /\ Throws(a) /\ UNCHANGED parent
  /\ UNCHANGED <<job, impl, child, rec, review, cyc, kid, tries, used, opened,
                 mishaps, events>>

\* The second update of a block touches the gate only.
MarkBlocked(a) ==
  /\ Next1(a, "markBlocked")
  /\ parent' = [parent EXCEPT !.gate = "decision_block", !.due = "never"]
  /\ Advance(a)
  /\ UNCHANGED <<job, impl, child, rec, review, cyc, kid, tries, used, opened,
                 mishaps, events>>

\* The row of a child is inserted, under the next new id.
SaveChild(a) ==
  /\ Next1(a, "save")
  /\ \E n \in DOMAIN Kids :
       /\ \A m \in DOMAIN Kids : child[Kids[m]].role = "none" <=> m >= n
       /\ child' = [child EXCEPT ![Kids[n]].role = Head(todo[a]).role]
       /\ kid' = [kid EXCEPT ![a] = Kids[n]]
  /\ Advance(a)
  /\ UNCHANGED <<parent, job, impl, rec, review, cyc, tries, used, opened, mishaps, events>>

\* The record of the cycle is inserted; (parent, cycle) is unique.
SaveRecord(a) ==
  /\ Next1(a, "saveRecord")
  /\ \/ /\ rec[cyc[a]].status = "none"
        /\ rec' = [rec EXCEPT ![cyc[a]] =
                     [NoRecord EXCEPT !.status = "review_running", !.review = kid[a]]]
        /\ Advance(a)
     \/ rec[cyc[a]].status # "none" /\ Throws(a) /\ UNCHANGED rec
  /\ UNCHANGED <<parent, job, impl, child, review, cyc, kid, tries, used, opened,
                 mishaps, events>>

\* The record of a fix names the remediation child.
LinkFix(a) ==
  /\ Next1(a, "linkFix")
  /\ rec' = [rec EXCEPT ![cyc[a]].status = "remediation_running",
                        ![cyc[a]].remediation = kid[a]]
  /\ Advance(a)
  /\ UNCHANGED <<parent, job, impl, child, review, cyc, kid, tries, used, opened,
                 mishaps, events>>

\* dispatchExecution: enqueued, or it throws.
Dispatch(a) ==
  /\ Next1(a, "dispatch")
  /\ \/ /\ child' = [child EXCEPT ![kid[a]].queued = TRUE]
        /\ Advance(a) /\ UNCHANGED events
     \/ Happens("refused") /\ Throws(a) /\ UNCHANGED child
  /\ UNCHANGED <<parent, job, impl, rec, review, cyc, kid, tries, used, opened, mishaps>>

Latest == Max({0} \cup {k \in Cycles : rec[k].status # "none"})

PendingChild == \E c \in Children : child[c].role # "none" /\ child[c].status = "pending"

CyclesLeft == Latest < MaxCycles

\* The exit handler of the implementation publishes unless a review was started; the
\* one of a remediation publishes in no case.
AfterGateAlways(a, started) == IF a = "impl" THEN <<Do("publish")>> ELSE <<>> \* mutant
AfterGate(a, started) == IF a = "impl" /\ ~started THEN <<Do("publish")>> ELSE <<>>

\* handleImplementationCompletion up to its first write.
Gate(a) ==
  /\ Next1(a, "gate")
  /\ \/ ~review /\ Perform(a, <<SkipReview>> \o AfterGate(a, FALSE)) /\ UNCHANGED <<cyc, mishaps>>
     \/ review /\ PendingChild /\ Perform(a, AfterGate(a, TRUE)) /\ UNCHANGED <<cyc, mishaps>>
     \/ /\ review /\ ~PendingChild /\ ~CyclesLeft
        /\ Perform(a, <<FailParent>> \o AfterGate(a, FALSE))
        /\ mishaps' = mishaps \cup {"exhausted"} /\ UNCHANGED cyc
     \/ /\ review /\ ~PendingChild /\ CyclesLeft
        /\ Perform(a, StartReview \o AfterGate(a, TRUE))
        /\ cyc' = [cyc EXCEPT ![a] = Latest + 1] /\ UNCHANGED mishaps
  /\ UNCHANGED <<parent, job, impl, child, rec, review, kid, tries, used, opened, events>>

\* finalizeCompletedExecution with handleCompletedExecution in it: published or not
\* asked for, failed, or no diff and another attempt.
Publish(a) ==
  LET then(s) == todo' = [todo EXCEPT ![a] = <<s>> \o Tail(@)] IN
  /\ Next1(a, "publish")
  /\ \/ opened' = opened + 1 /\ then(Finish("completed", "done")) /\ UNCHANGED <<parent, tries>>
     \/ then(Finish("completed", "done")) /\ UNCHANGED <<parent, opened, tries>>
     \/ then(Finish("failed", "failed")) /\ UNCHANGED <<parent, opened, tries>>
     \/ /\ tries < MaxTries
        /\ tries' = tries + 1
        /\ parent' = [parent EXCEPT !.status = "pending", !.orch = "queued"]
        /\ then(Do("redispatch")) /\ UNCHANGED opened
  /\ UNCHANGED <<job, impl, child, rec, review, cyc, kid, used, events, mishaps>>

Redispatch(a) ==
  /\ Next1(a, "redispatch")
  /\ \/ job' = TRUE /\ Advance(a) /\ UNCHANGED events
     \/ /\ Happens("refused") /\ UNCHANGED job
        /\ todo' = [todo EXCEPT ![a] = <<Finish("failed", "failed")>> \o Tail(@)]
  /\ UNCHANGED <<parent, impl, child, rec, review, cyc, kid, tries, used, opened, mishaps>>

\* The last write leaves the gate alone.
WriteFinish(a) ==
  /\ Next1(a, "finish")
  /\ parent' = [parent EXCEPT !.status = Head(todo[a]).status, !.orch = Head(todo[a]).orch]
  /\ Advance(a)
  /\ UNCHANGED <<job, impl, child, rec, review, cyc, kid, tries, used, opened,
                 mishaps, events>>

CancelWrite(a) ==
  /\ Next1(a, "cancel")
  /\ parent' = [parent EXCEPT !.status = "cancelled", !.orch = "done"]
  /\ Advance(a)
  /\ UNCHANGED <<job, impl, child, rec, review, cyc, kid, tries, used, opened,
                 mishaps, events>>

-----------------------------------------------------------------------------
(* The parent's and the children's CLI processes.                          *)

\* The consumer takes the parent's job: started, failed, or not claimable.
StartParent ==
  /\ job /\ job' = FALSE
  /\ \/ /\ parent.status = "pending" /\ parent.orch = "queued"
        /\ \/ /\ parent' = [parent EXCEPT !.status = "running", !.orch = "running"]
              /\ impl' = TRUE /\ UNCHANGED events
           \/ /\ Happens("cannotStart")
              /\ parent' = [parent EXCEPT !.status = "failed", !.orch = "failed"]
              /\ UNCHANGED impl
     \/ /\ ~(parent.status = "pending" /\ parent.orch = "queued")
        /\ UNCHANGED <<parent, impl, events>>
  /\ UNCHANGED <<child, rec, review, todo, cyc, kid, tries, used, opened, mishaps>>

\* handleExit of the parent.
ExitParent ==
  /\ impl /\ impl' = FALSE /\ todo["impl"] = <<>>
  /\ \/ /\ parent.status # "cancelled"
        /\ parent' = [parent EXCEPT !.status = "completed", !.orch = "finalizing"]
        /\ Perform("impl", <<Do("gate")>>)
     \/ /\ parent' = [parent EXCEPT !.status = "failed", !.orch = "failed"]
        /\ UNCHANGED todo
     \/ /\ parent.status = "cancelled"
        /\ parent' = [parent EXCEPT !.orch = "done"]
        /\ UNCHANGED todo
  /\ UNCHANGED <<job, child, rec, review, cyc, kid, tries, used, opened, events, mishaps>>

\* The consumer takes a child's job.  orchestrator.fail tells the gate nothing.
StartChild(c) ==
  /\ child[c].queued
  /\ \/ /\ child[c].status = "pending"
        /\ \/ child' = [child EXCEPT ![c].queued = FALSE, ![c].status = "running",
                                     ![c].alive = TRUE]
              /\ UNCHANGED events
           \/ Happens("cannotStart")
              /\ child' = [child EXCEPT ![c].queued = FALSE, ![c].status = "failed"]
     \/ /\ child[c].status # "pending" /\ UNCHANGED events
        /\ child' = [child EXCEPT ![c].queued = FALSE]
  /\ UNCHANGED <<parent, job, impl, rec, review, todo, cyc, kid, tries, used, opened, mishaps>>

\* handleExit of a child, with finalizeChildExecution.
ExitChild(c) ==
  /\ child[c].alive /\ todo[c] = <<>>
  /\ \E s \in {"failed", IF child[c].status = "cancelled" THEN "cancelled" ELSE "completed"} :
       child' = [child EXCEPT ![c].alive = FALSE, ![c].status = s]
  /\ Perform(c, <<Do("completion")>>)
  /\ UNCHANGED <<parent, job, impl, rec, review, cyc, kid, tries, used, opened,
                 mishaps, events>>

\* The record the review is about.
AnyRecord(c, k) == rec[k].status # "none"                         \* mutant
ReviewRecord(c, k) == rec[k].review = c

\* parseReviewOutput: a line with the verdict, or no such line.  The verdict "error" the
\* gate provides for is never given.
Outputs == {"pass", "fail", "silent"}
Verdict(output) == IF output = "silent" THEN "pass" ELSE output

\* handleReviewCompletion up to its first write: a run that failed asks the user, and
\* so does a verdict "fail".
ReviewCompletion(c) ==
  /\ Next1(c, "completion") /\ child[c].role = "review"
  /\ \/ \E k \in Cycles :
          /\ ReviewRecord(c, k)
          /\ cyc' = [cyc EXCEPT ![c] = k]
          /\ \E output \in Outputs :
               Perform(c, IF child[c].status = "completed" /\ Verdict(output) = "pass"
                            THEN ReviewPassed ELSE AskUser)
     \/ (\A k \in Cycles : ~ReviewRecord(c, k)) /\ Perform(c, <<>>) /\ UNCHANGED cyc
  /\ UNCHANGED <<parent, job, impl, child, rec, review, kid, tries, used, opened,
                 mishaps, events>>

\* handleRemediationCompletion up to its first write.
RemediationCompletion(c) ==
  /\ Next1(c, "completion") /\ child[c].role = "remediation"
  /\ \/ \E k \in Cycles :
          /\ rec[k].remediation = c
          /\ cyc' = [cyc EXCEPT ![c] = k]
          /\ Perform(c, IF child[c].status = "completed" THEN RemediationDone
                                                          ELSE RemediationFailed)
     \/ (\A k \in Cycles : rec[k].remediation # c) /\ Perform(c, <<>>) /\ UNCHANGED cyc
  /\ UNCHANGED <<parent, job, impl, child, rec, review, kid, tries, used, opened,
                 mishaps, events>>

-----------------------------------------------------------------------------
(* The user, the sweep, the clock, the worker.                             *)

Open == {k \in Cycles : rec[k].status = "awaiting_decision"}

\* Somebody else has read the same open decision and not finished with it: both will
\* write, by id.  Recorded.
DecidersOf(k) == {a \in Requests \cup {"sweep"} : todo[a] # <<>> /\ cyc[a] = k}
Raced(k) ==
  IF DecidersOf(k) = {} THEN UNCHANGED <<mishaps, events>>
  ELSE Happens("race") /\ mishaps' = mishaps \cup {"race"}

\* applyDecision up to its first write.
Decide(q, d) ==
  /\ q \notin used /\ d \in Offered \ {"cancel"}
  /\ parent.gate = "awaiting_decision" /\ Open # {}
  /\ used' = used \cup {q}
  /\ Raced(Max(Open))
  /\ cyc' = [cyc EXCEPT ![q] = Max(Open)]
  /\ Perform(q, CASE d = "continue" -> ContinueScript
                  [] d = "block" -> BlockScript
                  [] d = "fix" -> IF Max(Open) < MaxCycles THEN FixScript ELSE FixExhausted)
  /\ UNCHANGED <<parent, job, impl, child, rec, review, kid, tries, opened>>

\* cancelForUser up to its write.
Cancel(q) ==
  /\ q \notin used /\ "cancel" \in Offered
  /\ parent.status \in {"pending", "running"}
  /\ used' = used \cup {q}
  /\ Perform(q, CancelScript)
  /\ UNCHANGED <<parent, job, impl, child, rec, review, cyc, kid, tries, opened,
                 mishaps, events>>

CancelChild(c) ==
  /\ Happens("cancelChild")
  /\ child[c].role # "none" /\ child[c].status \in {"pending", "running"}
  /\ child' = [child EXCEPT ![c].status = "cancelled"]
  /\ UNCHANGED <<parent, job, impl, rec, review, todo, cyc, kid, tries, used, opened, mishaps>>

SwitchReview ==
  /\ Happens("switch")
  /\ review' = ~review
  /\ UNCHANGED <<parent, job, impl, child, rec, todo, cyc, kid, tries, used, opened, mishaps>>

\* 24 hours pass.
Overdue ==
  /\ "overdue" \in Events /\ parent.due = "later"
  /\ parent' = [parent EXCEPT !.due = "now"]
  /\ UNCHANGED <<job, impl, child, rec, review, todo, cyc, kid, tries, used,
                 opened, mishaps, events>>

\* markTimedOutAwaitingDecision up to its first write.
Sweep ==
  /\ todo["sweep"] = <<>>
  /\ parent.gate = "awaiting_decision" /\ parent.due = "now" /\ Open # {}
  /\ cyc' = [cyc EXCEPT !["sweep"] = Max(Open)]
  /\ Perform("sweep", TimeoutScript)
  /\ Raced(Max(Open))
  /\ UNCHANGED <<parent, job, impl, child, rec, review, kid, tries, used, opened>>

OrphanParent ==
  \/ parent.status = "pending" /\ parent.orch = "queued"
  \/ parent.status = "running" /\ parent.orch \in {"running", "finalizing"}
OrphanChild(c) == child[c].role # "none" /\ child[c].status \in {"pending", "running"}

\* The worker dies, boots and recovers: every orphan is failed or queued again.
Crash ==
  /\ Happens("crash") /\ mishaps' = mishaps \cup {"crash"}
  /\ todo' = [a \in Actors |-> IF a \in Requests THEN todo[a] ELSE <<>>]
  /\ impl' = FALSE
  /\ \/ OrphanParent /\ job' = TRUE
        /\ parent' = [parent EXCEPT !.status = "pending", !.orch = "queued"]
     \/ OrphanParent /\ UNCHANGED job
        /\ parent' = [parent EXCEPT !.status = "failed", !.orch = "failed"]
     \/ ~OrphanParent /\ UNCHANGED <<job, parent>>
  /\ \E expired \in SUBSET {c \in Children : OrphanChild(c)} :
       child' = [c \in Children |->
         IF c \in expired THEN [child[c] EXCEPT !.status = "failed", !.alive = FALSE]
         ELSE IF OrphanChild(c)
           THEN [child[c] EXCEPT !.status = "pending", !.alive = FALSE, !.queued = TRUE]
           ELSE [child[c] EXCEPT !.alive = FALSE]]
  /\ UNCHANGED <<rec, review, cyc, kid, tries, used, opened>>

-----------------------------------------------------------------------------
Statement(a) ==
  \/ WriteRecord(a) \/ WriteParent(a) \/ MarkBlocked(a) \/ SaveChild(a) \/ SaveRecord(a)
  \/ LinkFix(a) \/ Dispatch(a) \/ Gate(a) \/ Publish(a) \/ Redispatch(a) \/ WriteFinish(a)
  \/ CancelWrite(a)

Completion(c) == ReviewCompletion(c) \/ RemediationCompletion(c)

Next ==
  \/ \E a \in Actors : Statement(a)
  \/ StartParent \/ ExitParent \/ Overdue \/ Sweep \/ SwitchReview \/ Crash
  \/ \E c \in Children : StartChild(c) \/ ExitChild(c) \/ Completion(c) \/ CancelChild(c)
  \/ \E q \in Requests : Cancel(q) \/ \E d \in Offered : Decide(q, d)

Spec == Init /\ [][Next]_vars

(* The programs take their steps, the CLI is timed out, the clock and the sweep run: as
   long as one of these can do something, one of them does.                 *)
Progress ==
  \/ \E a \in Actors : Statement(a)
  \/ StartParent \/ ExitParent \/ Overdue \/ Sweep
  \/ \E c \in Children : StartChild(c) \/ ExitChild(c) \/ Completion(c)

FairSpec == Spec /\ WF_vars(Progress)

-----------------------------------------------------------------------------
(* Properties.                                                             *)

\* Type invariant of the rows, the records and the scripts.
TypeOK ==
  /\ parent \in [status : Statuses, orch : States, gate : Gates,
                 due : {"never", "later", "now"}]
  /\ job \in BOOLEAN /\ impl \in BOOLEAN /\ review \in BOOLEAN
  /\ child \in [Children -> [role : {"none", "review", "remediation"}, status : Statuses,
                             queued : BOOLEAN, alive : BOOLEAN]]
  /\ rec \in [Cycles -> [status : RecordStatuses, review : Children \cup {NoChild},
                         remediation : Children \cup {NoChild}]]
  /\ cyc \in [Actors -> Cycles]
  /\ kid \in [Actors -> Children \cup {NoChild}]
  /\ tries \in 1..MaxTries /\ used \subseteq Requests
  /\ opened \in Nat /\ mishaps \subseteq {"crash", "race", "exhausted"} /\ events \in 0..MaxEvents

\* The implementation, its reviews and its remediations work in one checkout: unless the
\* worker crashed or two decisions raced, one of their processes is alive at a time.
OneProcess ==
  mishaps \cap {"crash", "race"} = {} =>
    Cardinality({c \in Children : child[c].alive}) + (IF impl THEN 1 ELSE 0) <= 1

Decided == {"decision_continue", "decision_block", "completed_pass", "completed_fail", "failed"}

\* The outcome of a cycle stands: what a review, a user or the sweep decided is not
\* decided again, not even by a child that runs a second time after a crash; only a user
\* and the sweep who read the open decision at the same time both write it.
DecidedOnce ==
  [][\A k \in Cycles :
       rec[k].status \in Decided /\ "race" \notin mishaps => rec'[k].status = rec[k].status]_vars

Settled == parent.orch \in {"done", "failed"}

\* Somebody will take the parent further: a process, a queue entry, a script, a child
\* whose record leads back to the parent, or a decision the user or the sweep can take.
Attended ==
  \/ impl \/ (job /\ parent.status = "pending" /\ parent.orch = "queued")
  \/ \E a \in Actors : todo[a] # <<>>
  \/ \E c \in Children, k \in Cycles :
       /\ child[c].alive \/ (child[c].queued /\ child[c].status = "pending")
       /\ rec[k].review = c \/ rec[k].remediation = c
  \/ parent.gate = "awaiting_decision" /\ parent.due # "never" /\ Open # {}

\* No parent waits for a review or a decision that never comes, if nothing goes wrong.
NothingStranded == events = 0 /\ ~Settled => Attended

\* Without a crash and without two decisions at a time, a pull request is opened only after
\* the review let it pass.  The cycles of an earlier attempt count: an attempt for which
\* none is left is failed by the gate and published by the exit handler all the same.
OnlyApprovedPublished ==
  [][opened' > opened /\ mishaps = {} =>
       parent.gate \in {"not_applicable", "review_passed", "decision_continue",
                        "timeout_continue"}]_vars

\* Every parent is settled in the end: the sweep decides for a silent user.
GateResolves == <>[](Settled \/ events > 0)
=============================================================================
