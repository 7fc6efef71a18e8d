---------------------------- MODULE Publication ----------------------------
(***************************************************************************)
(* From the CLI process to the pull request: what executions of one task   *)
(* do to the working copy of its repository, to the remote and to the      *)
(* pull requests.  The working copy is shared: nothing keeps a second      *)
(* execution of the repository from running between any two steps.         *)
(*                                                                         *)
(* A git command is one step.  The row's publication columns are `status`; *)
(* ExecutionLifecycle has the rest of the row.                             *)
(***************************************************************************)
EXTENDS PreCommitChecks, FiniteSets

CONSTANTS
  Execs,        \* executions of one task, of one repository
  ModesOf,      \* how each may have been created
  Configs,      \* what the checks may be configured to be: the override of the
                \* repository, the user's default, the command of the environment,
                \* and the language the files of the repository tell
  FirstConfigs, \* those there may be at first
  Slots,        \* EXECUTION_MAX_CONCURRENT_PER_USER
  MaxBranches,  \* maxBranchAttempts
  RetryCount,   \* EXECUTION_AUTOPR_RETRY_COUNT
  MaxAttempts,  \* MAX_IMPLEMENTATION_ATTEMPTS
  Faults,       \* which of FaultKinds may happen
  MaxEvents     \* bound: how many

FaultKinds ==
  { "git",       \* a git command fails or times out
    "github",    \* GitHub cannot be reached or refuses
    "reply",     \* the pull request is created and the answer is lost
    "database",  \* a statement fails
    "profile",   \* the user's default profile cannot be read
    "settings",  \* the user changes the override or the default
    "queue",     \* the dispatch of a retry is refused
    "crash" }    \* the worker ends

\* action fix or feature with requireCodeChanges, or without, and action plan
Modes == {"strict", "loose", "plan"}

ASSUME PublicationAssumption ==
  /\ ModesOf \in [Execs -> SUBSET Modes] /\ FirstConfigs \subseteq Configs
  /\ \A c \in Configs : /\ \A p \in c.override \cup c.default : RawProfile(p)
                        /\ \A p, q \in c.override : p = q
                        /\ \A p, q \in c.default : p = q
                        /\ c.default = Normalized(c.default)
                        /\ c.legacy \in {"", "command", "unclosed"}
                        /\ c.language \in Languages \cup {"unknown"}
  /\ Slots \in Nat \ {0} /\ MaxBranches \in Nat \ {0} /\ RetryCount \in Nat \ {0} /\ MaxAttempts \in Nat \ {0}
  /\ Faults \subseteq FaultKinds /\ MaxEvents \in Nat

VARIABLES
  exec,     \* each execution: its handler's locals, its publication columns
  config,   \* the configuration of the checks, one of Configs
  local,    \* the working copy: the branch checked out, branches, uncommitted changes
  remote,   \* branches at the remote
  prs,      \* pull requests
  events    \* faults so far

vars == <<exec, config, local, remote, prs, events>>

\* What a branch holds beyond the default branch, and what is uncommitted: changes.
Code(e) == [of |-> e, kind |-> "code"]
Report(e) == [of |-> e, kind |-> "report"]
Default == 0
Unchecked == Skipped(DefaultMode)
Branches == 1..MaxBranches
NoBranch == 0

\* Branches, here or at the remote, of which k holds `what`.
Branched(has, k, what) ==
  [j \in DOMAIN has \cup {k} |-> IF j = k THEN what ELSE has[j]]

Init ==
  /\ \E m \in [Execs -> Modes] :
       /\ \A e \in Execs : m[e] \in ModesOf[e]
       /\ exec = [e \in Execs |->
                   [mode |-> m[e], pc |-> "idle", attempt |-> 1, made |-> FALSE,
                    branch |-> NoBranch, tries |-> 0, status |-> "pending",
                    override |-> {}, checks |-> Unchecked,
                    alone |-> FALSE, left |-> FALSE, told |-> TRUE, calm |-> FALSE]]
  /\ config \in FirstConfigs
  /\ local = [head |-> Default, has |-> [k \in {Default} |-> {}], dirty |-> {}]
  /\ remote = [k \in {Default} |-> {}]
  /\ prs = {}
  /\ events = 0

Over == {"over", "dead"}
ActiveExecs == {e \in Execs : exec[e].pc \notin Over \cup {"idle"}}

Fault(kind) ==
  /\ kind \in Faults /\ events < MaxEvents
  /\ events' = events + 1
NoFault == UNCHANGED events

\* A step of the handler of e: where it goes, and what else of it changes.
Step(e, from, to) == exec[e].pc = from /\ exec' = [exec EXCEPT ![e] = to]
To(e, pc) == [exec[e] EXCEPT !.pc = pc]
Elsewhere == UNCHANGED <<config, local, remote, prs>> /\ NoFault

-----------------------------------------------------------------------------
(* The CLI.                                                                *)

\* The process starts in the working copy, as it is.  History: alone, if no other
\* execution is at work and each one before has been through its clean-up.
StartCli(e) ==
  /\ exec[e].pc = "idle" /\ Cardinality(ActiveExecs) < Slots
  /\ exec' = [f \in Execs |->
       IF f = e THEN [To(e, "cli") EXCEPT !.alone = ActiveExecs = {}
                                                      /\ \A g \in Execs : ~exec[g].left]
       ELSE [exec[f] EXCEPT !.alone = exec[f].alone /\ f \notin ActiveExecs]]
  /\ Elsewhere

Work(e) ==
  /\ Step(e, "cli", [exec[e] EXCEPT !.made = TRUE])
  /\ local' = [local EXCEPT !.dirty = @ \cup {Code(e)}]
  /\ UNCHANGED <<config, remote, prs>> /\ NoFault

\* handleCompletedExecution, up to the try block; the repository is read here, with its
\* override.
Begin(e) ==
  /\ exec[e].pc = "cli"
  /\ exec' = [exec EXCEPT ![e] = [To(e, "branch") EXCEPT !.status = "publishing",
                 !.branch = NoBranch, !.override = config.override, !.calm = TRUE]]
  /\ Elsewhere
\* The CLI fails or is cancelled, publication is switched off, or there is no token: the
\* working copy stays as it is.
NotToPublish(e) ==
  /\ exec[e].pc = "cli"
  /\ \E s \in {"not_applicable", "failed"} :
       exec' = [exec EXCEPT ![e] = [To(e, "over") EXCEPT !.status = s, !.left = TRUE]]
  /\ Elsewhere

-----------------------------------------------------------------------------
(* The try block.                                                          *)

\* resolveAvailableBranchName looks at the remote only ...
ResolveBranch(e) ==
  LET free == Branches \ DOMAIN remote
  IN /\ Step(e, "branch",
          IF free = {} THEN To(e, "fail")
          ELSE [To(e, "checkout") EXCEPT !.branch = CHOOSE k \in free :
                                                      \A j \in free : k <= j])
     /\ Elsewhere

\* ... and checkoutNewBranch fails when the branch exists here.
Checkout(e) ==
  LET k == exec[e].branch
  IN /\ IF k \in DOMAIN local.has
        THEN Step(e, "checkout", To(e, "fail")) /\ UNCHANGED local
        ELSE /\ Step(e, "checkout", To(e, IF exec[e].mode = "plan" THEN "report" ELSE "changes"))
             /\ local' = [local EXCEPT !.head = k, !.has = Branched(local.has, k, local.has[local.head])]
     /\ UNCHANGED <<config, remote, prs>> /\ NoFault

\* writeReport.  Of a plan, whatever hasChanges says next, only the report is checked.
WriteReport(e) ==
  /\ Step(e, "report", To(e, "commit"))
  /\ local' = [local EXCEPT !.dirty = @ \cup {Report(e)}]
  /\ UNCHANGED <<config, remote, prs>> /\ NoFault

\* A strict execution without a diff cleans up, then tries again.
WithoutDiff(mode) == IF mode = "strict" THEN "strict" ELSE "report"

HasChanges(e) ==
  /\ Step(e, "changes", To(e, IF local.dirty # {} THEN "check" ELSE WithoutDiff(exec[e].mode)))
  /\ Elsewhere

\* Mutant: a failed check of a block profile warns.
NeverBlocks(result) == FALSE
Blocks(result) == result.status = "failed" /\ result.mode = "block"

\* assertPrePrChecks, with an outcome of the checks.
AfterChecks(e, result) ==
  Step(e, "check", [To(e, IF Blocks(result) THEN "fail" ELSE "commit") EXCEPT
                      !.checks = result, !.override = {}])
\* The override is the one read in the beginning, the default is read now.
Check(e) ==
  /\ \E result \in Results(Resolved(exec[e].override, config.default, config.legacy),
                            config.legacy, config.language) : AfterChecks(e, result)
  /\ Elsewhere
\* Without a profile a failure is a warning, whatever the profile would say.
ProfileUnread(e) ==
  /\ Normalized(exec[e].override) = {} /\ Fault("profile")
  /\ AfterChecks(e, Unread)
  /\ UNCHANGED <<config, local, remote, prs>>

Committed(w) ==
  [w EXCEPT !.has = Branched(w.has, w.head, w.has[w.head] \cup w.dirty), !.dirty = {}]
\* addAll and commit; git refuses an empty commit.
Commit(e) ==
  /\ IF local.dirty = {} THEN Step(e, "commit", To(e, "fail")) /\ UNCHANGED local
     ELSE /\ Step(e, "commit", [To(e, "push") EXCEPT !.tries = 1])
          /\ local' = Committed(local)
  /\ UNCHANGED <<config, remote, prs>> /\ NoFault

\* Mutants: the retry starts over; the last failure is swallowed; no end of retries.
RetriedAfresh(x) == IF x.tries < RetryCount THEN [x EXCEPT !.pc = "branch", !.tries = @ + 1]
                    ELSE [x EXCEPT !.pc = "fail"]
RetriedSwallowed(x) == IF x.tries < RetryCount THEN [x EXCEPT !.pc = "push", !.tries = @ + 1]
                       ELSE [x EXCEPT !.pc = "store"]
RetriedForever(x) == [x EXCEPT !.pc = "push"]
\* publishWithRetry: an attempt failed.
Retried(x) == IF x.tries < RetryCount THEN [x EXCEPT !.pc = "push", !.tries = @ + 1]
              ELSE [x EXCEPT !.pc = "fail"]

\* push HEAD, whatever it is; refused unless it goes forward.
Push(e) ==
  LET k == exec[e].branch
      what == local.has[local.head]
  IN /\ IF k \in DOMAIN remote /\ ~(remote[k] \subseteq what)
        THEN Step(e, "push", Retried(exec[e])) /\ UNCHANGED remote
        ELSE Step(e, "push", To(e, "create")) /\ remote' = Branched(remote, k, what)
     /\ UNCHANGED <<config, local, prs>> /\ NoFault

\* createPullRequest; GitHub refuses a second one for the head, and one without commits.
Creatable(k) == remote[k] # {} /\ \A x \in prs : x.head # k
\* appendPreCommitWarningToBody
Warns(e) == exec[e].checks.status = "failed"
PullRequest(e) == [head |-> exec[e].branch, by |-> e, holds |-> remote[exec[e].branch],
                   warns |-> Warns(e)]
Create(e) ==
  /\ exec[e].pc = "create"
  /\ IF Creatable(exec[e].branch)
     THEN Step(e, "create", To(e, "store")) /\ prs' = prs \cup {PullRequest(e)}
     ELSE Step(e, "create", Retried(exec[e])) /\ UNCHANGED prs
  /\ UNCHANGED <<config, local, remote>> /\ NoFault
ReplyLost(e) ==
  /\ exec[e].pc = "create" /\ Creatable(exec[e].branch) /\ Fault("reply")
  /\ Step(e, "create", [Retried(exec[e]) EXCEPT !.told = FALSE])
  /\ prs' = prs \cup {PullRequest(e)}
  /\ UNCHANGED <<config, local, remote>>

Store(e) ==
  /\ Step(e, "store", [To(e, "clean") EXCEPT !.status = "published"])
  /\ Elsewhere

\* The catch block.
Fail(e) ==
  /\ Step(e, "fail", [To(e, "clean") EXCEPT !.status = "failed"])
  /\ Elsewhere

-----------------------------------------------------------------------------
(* The clean-up, in the finally block or before a retry (pc "strict").     *)

\* Mutant: the uncommitted changes stay.
ResetKeeping(w) == [w EXCEPT !.head = Default, !.has = Branched(@, Default, {})]
\* fetch, checkout, reset --hard, clean
Reset(w) == [w EXCEPT !.head = Default, !.has = Branched(@, Default, {}), !.dirty = {}]

\* branch -D, which refuses the branch checked out
Deleted(w, k) == IF k = NoBranch \/ k = w.head THEN w
                 ELSE [w EXCEPT !.has = Restrict(@, DOMAIN w.has \ {k})]

AfterCleanup(pc) == IF pc = "strict" THEN "nodiff" ELSE "over"

CheckoutDefaultAndClean(e) ==
  /\ exec[e].pc \in {"clean", "strict"}
  /\ exec' = [exec EXCEPT ![e] = To(e, AfterCleanup(exec[e].pc))]
  /\ local' = Deleted(Reset(local), exec[e].branch)
  /\ UNCHANGED <<config, remote, prs>> /\ NoFault
\* It fails at its first command, and is only logged.
CleanupFails(e) ==
  /\ exec[e].pc \in {"clean", "strict"} /\ Fault("git")
  /\ exec' = [exec EXCEPT ![e] = [To(e, AfterCleanup(exec[e].pc)) EXCEPT !.left = TRUE]]
  /\ local' = Deleted(local, exec[e].branch)
  /\ UNCHANGED <<config, remote, prs>>

\* handleStrictNoDiff: another attempt, or the end.  Then the outcome, without a
\* second clean-up (branchCleanupHandled): the next CLI may be at work already.
NoDiff(e) ==
  /\ Step(e, "nodiff",
       IF exec[e].attempt < MaxAttempts
       THEN [To(e, "cli") EXCEPT !.attempt = @ + 1, !.status = "pending", !.made = FALSE,
                                 !.branch = NoBranch, !.tries = 0, !.checks = Unchecked]
       ELSE [To(e, "over") EXCEPT !.status = "no_changes",
                                  !.branch = NoBranch])
  /\ Elsewhere
DispatchRefused(e) ==
  /\ exec[e].attempt < MaxAttempts /\ Fault("queue")
  /\ Step(e, "nodiff", [To(e, "over") EXCEPT !.status = "failed"])
  /\ UNCHANGED <<config, local, remote, prs>>

-----------------------------------------------------------------------------
(* Faults.                                                                 *)

CommandFails(e) ==
  /\ exec[e].pc \in {"branch", "checkout", "report", "changes", "commit"} /\ Fault("git")
  /\ exec' = [exec EXCEPT ![e] = To(e, "fail")]
  /\ UNCHANGED <<config, local, remote, prs>>
AttemptFails(e) ==
  /\ \/ exec[e].pc = "push" /\ Fault("git")
     \/ exec[e].pc = "create" /\ Fault("github")
  /\ exec' = [exec EXCEPT ![e] = Retried(exec[e])]
  /\ UNCHANGED <<config, local, remote, prs>>
\* The pull request exists and the row cannot be told; or failAutomation throws out of
\* the catch block, and finalizeCompletedExecution writes the failure.
StatementFails(e) ==
  /\ exec[e].pc \in {"store", "fail"} /\ Fault("database")
  /\ exec' = [exec EXCEPT ![e] =
       IF exec[e].pc = "store" THEN [To(e, "fail") EXCEPT !.told = FALSE]
       ELSE [To(e, "clean") EXCEPT !.status = "failed"]]
  /\ UNCHANGED <<config, local, remote, prs>>
\* updateCheckProfile, resetCheckProfile, or the user's settings.
ChangeChecks(c) ==
  /\ Fault("settings")
  /\ c # config /\ c.legacy = config.legacy /\ c.language = config.language
  /\ config' = c
  /\ exec' = [e \in Execs |-> [exec[e] EXCEPT !.calm = FALSE]]
  /\ UNCHANGED <<local, remote, prs>>
\* recoverOrphans starts again what was running; what was finalizing stays as it is.
Crash ==
  /\ ActiveExecs # {} /\ Fault("crash")
  /\ exec' = [e \in Execs |->
       IF e \notin ActiveExecs THEN exec[e]
       ELSE IF exec[e].pc = "cli" THEN [To(e, "idle") EXCEPT !.made = FALSE, !.left = TRUE]
       ELSE [To(e, "dead") EXCEPT !.left = TRUE]]
  /\ UNCHANGED <<config, local, remote, prs>>

HandlerStep(e) ==
  \/ Begin(e) \/ NotToPublish(e)
  \/ ResolveBranch(e) \/ Checkout(e) \/ WriteReport(e) \/ HasChanges(e) \/ Check(e)
  \/ Commit(e) \/ Push(e) \/ Create(e) \/ Store(e) \/ Fail(e)
  \/ CheckoutDefaultAndClean(e) \/ NoDiff(e)

Next ==
  \/ \E e \in Execs :
       \/ StartCli(e) \/ Work(e) \/ HandlerStep(e)
       \/ ProfileUnread(e) \/ ReplyLost(e) \/ DispatchRefused(e)
       \/ CleanupFails(e) \/ CommandFails(e) \/ AttemptFails(e) \/ StatementFails(e)
  \/ \E c \in Configs : ChangeChecks(c)
  \/ Crash

\* Commands and requests have timeouts; so has the CLI.
Fairness == \A e \in Execs : WF_vars(HandlerStep(e))

Spec == Init /\ [][Next]_vars /\ Fairness

-----------------------------------------------------------------------------
(* Properties.                                                             *)

Changes == {Code(e) : e \in Execs} \cup {Report(e) : e \in Execs}
Pcs == {"idle", "cli", "branch", "checkout", "report", "changes", "strict", "check", "commit",
        "push", "create", "store", "fail", "clean", "nodiff"} \cup Over

\* Type invariant.
TypeOK ==
  /\ \A e \in Execs : /\ exec[e].pc \in Pcs /\ exec[e].tries \in 0..RetryCount
                      /\ exec[e].attempt \in 1..MaxAttempts
                      /\ exec[e].branch \in Branches \cup {NoBranch}
  /\ local.head \in DOMAIN local.has /\ local.dirty \subseteq Changes
  /\ local.has \in [DOMAIN local.has -> SUBSET Changes]
  /\ DOMAIN remote \subseteq 0..MaxBranches /\ remote[Default] = {}
  /\ events \in 0..MaxEvents

\* An execution opens one pull request at most, over all retries, and no two share a
\* branch, even when they share the working copy.
OnePullRequestEach ==
  \A x, y \in prs : x # y => x.by # y.by /\ x.head # y.head

\* The pull request of an execution that had the working copy to itself, after
\* executions that had been through their clean-up, holds exactly what it made,
\* whatever failed on the way.
OwnChangesOnly ==
  \A x \in prs : exec[x.by].alone =>
    LET e == x.by
    IN x.holds = (IF exec[e].made THEN {Code(e)} ELSE {})
                   \cup (IF exec[e].mode = "plan" \/ ~exec[e].made THEN {Report(e)} ELSE {})

\* The row tells what became of the pull request, unless GitHub's answer or the
\* statement that stores it was lost.
RowTellsPullRequest ==
  \A e \in Execs : exec[e].pc = "over" /\ exec[e].told =>
    (exec[e].status = "published" <=> \E x \in prs : x.by = e)

\* What the configuration calls for, said without the resolver: the valid profile that
\* comes first, and the presets it asks for.
Called(c) ==
  LET first == IF Normalized(c.override) # {} THEN Normalized(c.override) ELSE c.default
      presets == {x \in Presets : \E p \in first : p.enabled
                     /\ \E i \in DOMAIN p.steps : p.steps[i].preset = x /\ p.steps[i].on}
  IN [presets |-> IF first = {} /\ c.legacy # "" THEN {"legacy"} ELSE presets,
      block |-> IF first = {} THEN c.legacy # "" ELSE \E p \in first : p.mode = "block"]

\* Code that is no by-product of a plan, of an execution that had the working copy to
\* itself and whose configuration was not changed during its publication, has passed
\* every check the configuration calls for, or its pull request says that it has not.
\* The latter only where the configuration does not block, or could not be read.
CheckedCode ==
  \A x \in prs : exec[x.by].alone /\ exec[x.by].calm /\ exec[x.by].mode # "plan"
                  /\ Code(x.by) \in x.holds =>
    LET called == Called(config)
        result == exec[x.by].checks
    IN \/ called.presets = result.passed /\ ~x.warns
       \/ x.warns /\ (called.block => result = Unread)

\* A publication that has begun ends.
PublicationEnds ==
  \A e \in Execs : exec[e].pc = "branch" ~> exec[e].pc \in Over \cup {"cli", "idle"}
=============================================================================
