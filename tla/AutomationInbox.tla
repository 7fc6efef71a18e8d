--------------------------- MODULE AutomationInbox ---------------------------
(***************************************************************************)
(* The automation inbox over the drafts of ManualDrafts: what it shows of  *)
(* a task, and the controls with which the user hides one for a time or    *)
(* until its content changes.                                              *)
(***************************************************************************)
EXTENDS ManualDrafts

VARIABLES
  control,  \* task_automation_controls: one row a task, or none
  hiding    \* requests to hide a task, between its read and the upsert

inboxVars == <<vars, control, hiding>>

Controls == {"none", "snooze", "dismiss_until_change"}
NoControl == [type |-> "none", active |-> FALSE, due |-> FALSE, ver |-> 0, restored |-> FALSE]
NotHiding == [type |-> "none", ver |-> 0]

InboxInit ==
  /\ Init
  /\ control = [t \in Tasks |-> NoControl]
  /\ hiding = [t \in Tasks |-> NotHiding]

-----------------------------------------------------------------------------
(* The item of a task.                                                     *)

MatchNow(t) == FirstMatch(ActiveRules, ItemAs(t, StatusOf(t)))
TheMatch(t) == CHOOSE x \in MatchNow(t) : TRUE

\* listDraftsForTaskIds.
DraftsOf(t) == {n \in DOMAIN rows : rows[n].task = t /\ rows[n].draft # "none"}

\* resolveDraftOutcome: the drafts of the rule that matches the task now.
Relevant(t) ==
  {n \in DraftsOf(t) : rows[n].rule = TheMatch(t).id
                       /\ rows[n].repo = TheMatch(t).value.repositoryId}
ReadyOf(t) == {n \in Relevant(t) : Ready(n) /\ rows[n].ver = Version(t)}

DraftOutcome(t) ==
  IF ~Drafts(MatchNow(t)) \/ Relevant(t) = {} THEN "none"
  ELSE IF ReadyOf(t) # {} THEN "ready" ELSE "superseded"

\* The item of the task feed, as far as the inbox can be asked about it.
FeedItem(t) ==
  [provider |-> ProviderOf(t),
   ruleId |-> IF MatchNow(t) = {} THEN NoFind ELSE TheMatch(t).id,
   repositoryId |-> IF MatchNow(t) = {} THEN "none" ELSE TheMatch(t).value.repositoryId,
   draftStatus |-> DraftOutcome(t),
   automationState |-> CASE MatchNow(t) = {} -> "none"
                         [] DraftOutcome(t) = "ready" -> "drafted" [] OTHER -> "matched"]

\* resolveActiveControl.  Every task of this model has a version, and so has a control.
HidesForever(c, v) == c.active                                    \* mutant
Hides(c, v) ==
  /\ c.active
  /\ c.type = "snooze" => ~c.due
  /\ c.type = "dismiss_until_change" => c.ver = v
Hidden(t) == Hides(control[t], Version(t))

\* The latest execution of the task that is no draft.
RunsOf(t) == {n \in DOMAIN rows : rows[n].task = t /\ rows[n].draft = "none"}
Blocking(t) == RunsOf(t) # {} /\ rows[Max(RunsOf(t))].run = "failed"

\* resolveReason, in its order.
Reason(t) ==
  IF Hidden(t) THEN control[t].type
  ELSE IF DraftOutcome(t) = "ready" THEN "draft_ready"
  ELSE IF DraftOutcome(t) = "superseded" THEN "draft_superseded"
  ELSE IF Blocking(t) THEN "blocked_by_execution_failure"
  ELSE IF MatchNow(t) # {} THEN "matched_rule_no_draft"
  ELSE "none"

Listed(t, includeSuppressed) ==
  Here(t) /\ (Hidden(t) => includeSuppressed) /\ Reason(t) # "none"

\* matchesFilters: query gives some of the fields; a state is one of a matched task.
Fits(t, query) ==
  /\ \A f \in DOMAIN query : FeedItem(t)[f] = query[f]
  /\ "automationState" \in DOMAIN query => MatchNow(t) # {}

\* listForUser: the items it counts in `total`.  Of these it sends the first `limit` (100
\* unless asked otherwise); the order is left out, and with it which these are.
Inbox(includeSuppressed, query) ==
  {t \in Tasks : Listed(t, includeSuppressed) /\ Fits(t, query)}

\* The draft the item offers to start.
Offered(t) == Max(ReadyOf(t))

-----------------------------------------------------------------------------
(* The controls.                                                           *)

\* snoozeForUser and dismissForUser read the task, and with it its version.
AskHide(t, type) ==
  /\ Change /\ Here(t) /\ hiding[t] = NotHiding
  /\ hiding' = [hiding EXCEPT ![t] = [type |-> type, ver |-> Version(t)]]
  /\ UNCHANGED <<task, ruleVars, rows, queued, loop, job, start, sent, taken, tangled, faults, control>>

\* upsertControl: what is written over the row of the task.
SuppressedAsBefore(t, type, ver) ==                               \* mutant
  [type |-> type, active |-> TRUE, due |-> FALSE, ver |-> ver, restored |-> control[t].restored]
Suppressed(t, type, ver) ==
  [type |-> type, active |-> TRUE, due |-> FALSE, ver |-> ver, restored |-> FALSE]

UpsertControl(t) ==
  /\ hiding[t] # NotHiding
  /\ control' = [control EXCEPT ![t] = Suppressed(t, hiding[t].type, hiding[t].ver)]
  /\ hiding' = [hiding EXCEPT ![t] = NotHiding]
  /\ UNCHANGED vars

\* The time of a snooze is over.
SnoozeEnds(t) ==
  /\ control[t].type = "snooze" /\ ~control[t].due
  /\ control' = [control EXCEPT ![t].due = TRUE]
  /\ UNCHANGED <<vars, hiding>>

\* restoreForUser.
Restore(t) ==
  /\ Change /\ control[t].active
  /\ control' = [control EXCEPT ![t].active = FALSE, ![t].restored = TRUE]
  /\ UNCHANGED <<task, ruleVars, rows, queued, loop, job, start, sent, taken, tangled, faults, hiding>>

InboxNext ==
  \/ Next /\ UNCHANGED <<control, hiding>>
  \/ \E t \in Tasks :
       \/ UpsertControl(t) \/ SnoozeEnds(t) \/ Restore(t)
       \/ \E type \in Controls \ {"none"} : AskHide(t, type)

InboxSpec ==
  /\ InboxInit /\ [][InboxNext]_inboxVars
  /\ Fairness /\ \A t \in Tasks : WF_inboxVars(UpsertControl(t)) /\ WF_inboxVars(SnoozeEnds(t))

-----------------------------------------------------------------------------
(* getHistoryForUser, without the order and the wording of its items.      *)

Told(type, n) == [type |-> type, execution |-> n]

\* buildExecutionHistoryItems, of the rows loadExecutionsForHistory finds; every row of
\* this model comes from a rule.
RowHistory(n) ==
  {Told("draft_created", n)}
    \cup {Told("draft_superseded", m) : m \in {n} \cap {k \in DOMAIN rows : rows[k].draft = "superseded"}}
    \cup {Told("draft_started", m) : m \in {n} \cap {k \in DOMAIN rows : rows[k].draft = "none"}}

\* buildControlHistoryItems: a hidden task comes back by a request, or by a new version.
\* The end of a snooze is not told.
Changed(c, v) == c.active /\ c.type = "dismiss_until_change" /\ c.ver # v
ControlHistory(t) ==
  LET c == control[t] IN
    IF c.type = "none" THEN {}
    ELSE {Told(IF c.type = "snooze" THEN "task_snoozed" ELSE "task_dismissed", NoFind)}
           \cup (IF c.restored \/ Changed(c, Version(t)) THEN {Told("task_restored", NoFind)} ELSE {})

RuleHistory(t) == IF MatchNow(t) = {} THEN {} ELSE {Told("rule_matched", NoFind)}

History(t) ==
  RuleHistory(t) \cup ControlHistory(t)
    \cup UNION {RowHistory(n) : n \in {m \in DOMAIN rows : rows[m].task = t}}

-----------------------------------------------------------------------------
(* Properties.                                                             *)

\* Queries about draft n: by its rule, by its repository, by its state.
About(n) == { [ruleId |-> rows[n].rule],
              [repositoryId |-> rows[n].repo, draftStatus |-> "ready"],
              [provider |-> ProviderOf(rows[n].task), automationState |-> "drafted"] }

\* A ready draft is not overlooked: once everything is quiet, the inbox offers to start
\* it, however it is asked (among the items it counts, if there are more than it sends),
\* unless the user hid the task as it is (then it does if asked for hidden ones, too), or
\* the task's status took it out of its rule.  The lost update of a rule is excepted.
DraftsOffered ==
  Quiet /\ faults = 0 /\ ~unheard =>
    \A n \in DOMAIN rows :
      LET t == rows[n].task IN
        Ready(n) /\ MatchNow(t) # {} /\ TheMatch(t).id = rows[n].rule =>
          \/ /\ \A query \in About(n) : t \in Inbox(FALSE, query)
             /\ Reason(t) = "draft_ready" /\ Offered(t) = n
          \/ /\ control[t].active /\ Reason(t) = control[t].type
             /\ \A query \in About(n) : t \in Inbox(TRUE, query) \ Inbox(FALSE, query)
             /\ \/ control[t].type = "snooze" /\ ~control[t].due
                \/ control[t].type = "dismiss_until_change" /\ control[t].ver = rows[n].ver

\* The history does not contradict the inbox: a task is told to be hidden, and not to be
\* back, while it is hidden and only then (a snooze that is over is not told), and a draft
\* is told to be started for ever once its dispatch was answered (a dispatch that throws
\* is undone even if the queue took it, and the draft is told as one that waits).
HistoryAgrees ==
  \A t \in Tasks : Here(t) =>
    LET told == History(t)
        back == Told("task_restored", NoFind) \in told
    IN  /\ Hidden(t) => ~back
        /\ control[t].type # "none" /\ ~Hidden(t) => back \/ control[t].due
        /\ \A n \in DOMAIN rows : rows[n].task = t /\ sent[n] > rows[n].lost =>
             {h \in told : h.execution = n} = {Told("draft_created", n), Told("draft_started", n)}
=============================================================================
