------------------------- MODULE PublicationProofs -------------------------
(***************************************************************************)
(* Proofs about Publication, for any number of executions that share the   *)
(* working copy, of branches, retries and attempts, for any configurations *)
(* of the checks, any faults and any number of them.                       *)
(***************************************************************************)
EXTENDS Publication, WellFoundedInduction, TLAPS

-----------------------------------------------------------------------------
(* Types.                                                                  *)

Overrides == {{}} \cup {c.override : c \in Configs}
AllChecks ==
  {Unchecked, Unread}
    \cup UNION {Results(Resolved(o, c.default, c.legacy), c.legacy, c.language) :
                  o \in Overrides, c \in Configs}
ExecState ==
  [mode : Modes, pc : Pcs, attempt : 1..MaxAttempts, made : BOOLEAN, branch : 0..MaxBranches,
   tries : 0..RetryCount,
   status : {"pending", "publishing", "not_applicable", "failed", "published", "no_changes"},
   override : Overrides, checks : AllChecks,
   alone : BOOLEAN, left : BOOLEAN, told : BOOLEAN, calm : BOOLEAN]
\* What branches hold, by branch.
Holding(has) ==
  /\ has \in [DOMAIN has -> SUBSET Changes]
  /\ DOMAIN has \subseteq 0..MaxBranches /\ Default \in DOMAIN has
Holdings == UNION {[d -> SUBSET Changes] : d \in {d \in SUBSET (0..MaxBranches) : Default \in d}}
WorkingCopy(w) ==
  /\ w \in [head : 0..MaxBranches, has : Holdings, dirty : SUBSET Changes]
  /\ w.head \in DOMAIN w.has
PullRequests == [head : Branches, by : Execs, holds : SUBSET Changes, warns : BOOLEAN]
OnBranch == {"checkout", "report", "changes", "check", "commit", "push", "create", "store"}
PublicationTypes ==
  /\ exec \in [Execs -> ExecState] /\ config \in Configs
  /\ WorkingCopy(local) /\ Holding(remote) /\ prs \subseteq PullRequests /\ events \in Nat
  /\ \A e \in Execs : /\ exec[e].pc \in OnBranch => exec[e].branch \in Branches
                      /\ exec[e].pc = "create" => exec[e].branch \in DOMAIN remote

-----------------------------------------------------------------------------
(* The strengthened invariants.                                            *)

Before == {"idle", "cli", "branch", "checkout", "report", "changes", "strict", "check", "commit",
           "nodiff"}
Trying == {"push", "create"}
Opened(e) == \E x \in prs : x.by = e

\* An execution that has opened a pull request does not come back to where it would choose
\* another branch, and tries again for the one it has.
TriesForItsOwn ==
  \A x \in prs : /\ exec[x.by].pc \notin Before
                 /\ exec[x.by].pc \in Trying \cup {"store"} => exec[x.by].branch = x.head

\* What the row has been told, wherever the execution is.
Told ==
  \A e \in Execs :
    LET x == exec[e] IN
    /\ x.pc \notin {"clean", "over", "dead"} => x.status # "published"
    /\ x.pc \in Before => ~Opened(e)
    /\ x.pc = "store" => Opened(e)
    /\ x.pc \in Trying \cup {"fail"} /\ x.told => ~Opened(e)
    /\ x.pc \in {"clean", "over"} /\ x.told => (x.status = "published" <=> Opened(e))

\* The changes an execution that is alone makes.
Made(e) ==
  (IF exec[e].made THEN {Code(e)} ELSE {})
    \cup (IF exec[e].mode = "plan" \/ ~exec[e].made THEN {Report(e)} ELSE {})
Uncommitted(e) == IF exec[e].made THEN {Code(e)} ELSE {}
AtWork == {e \in Execs : exec[e].pc \notin {"idle", "nodiff"} \cup Over}
NothingHere == local.has[local.head] = {} /\ local.dirty = {}

\* Between executions that were cleaned up after, the working copy is clean; and one that is
\* (again) to begin has made nothing.
CleanBetween ==
  /\ AtWork = {} /\ (\A e \in Execs : ~exec[e].left) => NothingHere
  /\ \A e \in Execs : exec[e].pc = "idle" => ~exec[e].made

\* What the working copy and the branch at the remote hold, of an execution that is alone.
HoldsOf(e) ==
  LET x == exec[e] IN
  /\ x.pc \in Before => local.has[local.head] = {}
  /\ x.pc \in {"cli", "branch", "checkout", "changes", "strict", "check", "nodiff"} =>
       local.dirty = Uncommitted(e)
  /\ x.pc = "report" => local.dirty = Uncommitted(e) /\ (x.mode = "plan" \/ ~x.made)
  /\ x.pc \in {"strict", "nodiff"} => ~x.made
  /\ x.pc \in {"changes", "check", "strict", "nodiff"} => x.mode # "plan"
  /\ x.pc = "check" => x.made
  /\ x.pc = "commit" => local.dirty = Made(e)
  /\ x.pc \in {"push", "create"} => local.has[local.head] = Made(e)
  /\ x.pc = "create" => remote[x.branch] = Made(e)
HoldsItsOwn ==
  \A e \in ActiveExecs : exec[e].alone => ActiveExecs = {e} /\ HoldsOf(e)

\* The checks that code of an execution has been through, while the configuration is what
\* it was when the publication began.
WentThrough(e) ==
  \E r \in Results(Resolved(config.override, config.default, config.legacy),
                   config.legacy, config.language) : exec[e].checks = r
PassedOf(e) ==
  LET x == exec[e] IN
  /\ x.calm /\ x.pc \in {"branch", "checkout", "report", "changes", "check"} =>
       x.override = config.override
  /\ x.calm /\ x.alone /\ x.made /\ x.mode # "plan"
       /\ (x.pc \in Trying \cup {"commit", "store"} \/ Opened(e)) =>
       ~Blocks(x.checks) /\ (WentThrough(e) \/ x.checks = Unread)
PassedOrWarns ==
  /\ \A e \in Execs : PassedOf(e)
  /\ \A y \in prs : y.warns <=> Warns(y.by)

-----------------------------------------------------------------------------
(* What a step does to the execution that takes it.                        *)

Fields == {"mode", "pc", "attempt", "made", "branch", "tries", "status", "override", "checks",
           "alone", "left", "told", "calm"}
\* y is x but for the fields F, and e becomes y.
But(x, y, F) == \A f \in Fields \ F : y[f] = x[f]
Becomes(e, y, F) == /\ y \in ExecState /\ But(exec[e], y, F)
                    /\ exec' = [exec EXCEPT ![e] = y]

\* The bounds are numbers; branches are numbers, and the default branch is none of them.
LEMMA Bounds ==
  /\ MaxBranches \in Nat /\ MaxAttempts \in Nat \ {0} /\ RetryCount \in Nat \ {0} /\ MaxEvents \in Nat
  /\ 0 \in 0..MaxBranches /\ 1 \in 1..MaxAttempts /\ 0 \in 0..RetryCount /\ 1 \in 0..RetryCount
  /\ Branches \subseteq 0..MaxBranches /\ 0 \notin Branches /\ Branches \subseteq Nat
  /\ {} \in Overrides /\ \A c \in Configs : c.override \in Overrides
  /\ Unchecked \in AllChecks /\ Unread \in AllChecks
<1>1. MaxBranches \in Nat /\ MaxAttempts \in Nat \ {0} /\ RetryCount \in Nat \ {0} /\ MaxEvents \in Nat
  BY PublicationAssumption
<1>. QED
  BY <1>1 DEF Overrides, AllChecks, Branches

\* Only the place changes.
LEMMA ToFacts ==
  ASSUME PublicationTypes, NEW e \in Execs, NEW pc \in Pcs
  PROVE  To(e, pc) \in ExecState /\ To(e, pc).pc = pc /\ But(exec[e], To(e, pc), {"pc"})
<1>1. exec[e] \in ExecState
  BY DEF PublicationTypes
<1>. QED
  BY <1>1 DEF ExecState, But, Fields, To

\* Another attempt, or none.
LEMMA RetriedFacts ==
  ASSUME NEW x \in ExecState
  PROVE  LET y == Retried(x)
         IN y \in ExecState /\ y.pc \in {"push", "fail"} /\ But(x, y, {"pc", "tries"})
<1>1. CASE x.tries < RetryCount
  <2>1. x.tries + 1 \in 0..RetryCount
    BY <1>1, Bounds DEF ExecState
  <2>. QED
    BY <1>1, <2>1 DEF Retried, ExecState, But, Fields, Pcs
<1>2. CASE ~(x.tries < RetryCount)
  BY <1>2 DEF Retried, ExecState, But, Fields, Pcs
<1>. QED
  BY <1>1, <1>2

\* The first free branch is a branch.
LEMMA FirstIsThere ==
  ASSUME NEW S \in SUBSET Branches, S # {}
  PROVE  (CHOOSE k \in S : \A j \in S : k <= j) \in Branches
<1>. DEFINE R == OpToRel(<, Nat)
<1>1. S \subseteq Nat
  BY Bounds
<1>2. PICK k \in S : \A j \in S : ~(<<j, k>> \in R)
  <2>1. IsWellFoundedOn(R, Nat)
    BY NatLessThanWellFounded
  <2>. HIDE DEF R
  <2>. QED
    BY <1>1, <2>1, WFMin
<1>3. \A j \in S : ~(j < k)
  BY <1>1, <1>2 DEF OpToRel
<1>4. \A j \in S : k <= j
  BY <1>1, <1>3
<1>. QED
  BY <1>4

\* Begin reads the override of the repository.
LEMMA BeginMoves ==
  ASSUME PublicationTypes, NEW e \in Execs, Begin(e)
  PROVE  /\ Becomes(e, exec'[e], {"pc", "status", "branch", "override", "calm"})
         /\ exec'[e].pc = "branch" /\ exec'[e].status = "publishing"
         /\ exec'[e].override = config.override
<1>. DEFINE x == exec[e]
            y == [To(e, "branch") EXCEPT !.status = "publishing", !.branch = NoBranch,
                                         !.override = config.override, !.calm = TRUE]
<1>1. x \in ExecState /\ exec' = [exec EXCEPT ![e] = y] /\ exec'[e] = y
  BY DEF PublicationTypes, Begin
<1>2. config.override \in Overrides
  BY Bounds DEF PublicationTypes
<1>3. /\ y \in ExecState /\ But(x, y, {"pc", "status", "branch", "override", "calm"})
      /\ y.pc = "branch" /\ y.status = "publishing" /\ y.override = config.override
  BY <1>1, <1>2, Bounds DEF ExecState, But, Fields, To, NoBranch, Pcs
<1>. QED
  BY <1>1, <1>3 DEF Becomes
\* What is not published leaves the working copy as it is.
LEMMA NotToPublishMoves ==
  ASSUME PublicationTypes, NEW e \in Execs, NotToPublish(e)
  PROVE  /\ Becomes(e, exec'[e], {"pc", "status", "left"})
         /\ exec'[e].pc = "over" /\ exec'[e].status # "published" /\ exec'[e].left
<1>1. PICK s \in {"not_applicable", "failed"} :
        exec' = [exec EXCEPT ![e] = [To(e, "over") EXCEPT !.status = s, !.left = TRUE]]
  BY DEF NotToPublish
<1>. DEFINE x == exec[e]
            y == [To(e, "over") EXCEPT !.status = s, !.left = TRUE]
<1>2. x \in ExecState /\ exec'[e] = y
  BY <1>1 DEF PublicationTypes
<1>3. /\ y \in ExecState /\ But(x, y, {"pc", "status", "left"})
      /\ y.pc = "over" /\ y.status # "published" /\ y.left
  BY <1>2 DEF ExecState, But, Fields, To, Pcs, Over
<1>. QED
  BY <1>1, <1>2, <1>3 DEF Becomes
\* ResolveAvailableBranchName finds a branch, or fails.
LEMMA ResolveBranchMoves ==
  ASSUME PublicationTypes, NEW e \in Execs, ResolveBranch(e)
  PROVE  \/ Becomes(e, exec'[e], {"pc"}) /\ exec'[e].pc = "fail"
         \/ /\ Becomes(e, exec'[e], {"pc", "branch"})
            /\ exec'[e].pc = "checkout" /\ exec'[e].branch \in Branches
<1>. DEFINE free == Branches \ DOMAIN remote
            k == CHOOSE k \in free : \A j \in free : k <= j
            x == exec[e]
            y == [To(e, "checkout") EXCEPT !.branch = k]
<1>1. x \in ExecState
  BY DEF PublicationTypes
<1>2. CASE free = {}
  <2>1. exec' = [exec EXCEPT ![e] = To(e, "fail")]
    BY <1>2 DEF ResolveBranch, Step
  <2>. QED
    BY <2>1, ToFacts DEF Becomes, PublicationTypes, Pcs
<1>3. CASE free # {}
  <2>1. exec' = [exec EXCEPT ![e] = y]
    BY <1>3 DEF ResolveBranch, Step
  <2>2. k \in Branches /\ k \in 0..MaxBranches
    BY <1>3, FirstIsThere, Bounds
  <2>. HIDE DEF k
  <2>3. y \in ExecState /\ But(x, y, {"pc", "branch"}) /\ y.pc = "checkout" /\ y.branch = k
    BY <1>1, <2>2 DEF ExecState, But, Fields, To, Pcs
  <2>. QED
    BY <2>1, <2>2, <2>3 DEF Becomes, PublicationTypes
<1>. QED
  BY <1>2, <1>3

\* A step that goes somewhere and changes nothing else of the execution.
LEMMA GoesTo ==
  ASSUME PublicationTypes, NEW e \in Execs, NEW pc \in Pcs, exec' = [exec EXCEPT ![e] = To(e, pc)]
  PROVE  Becomes(e, exec'[e], {"pc"}) /\ exec'[e].pc = pc
  BY ToFacts DEF Becomes, PublicationTypes
\* An attempt that failed is tried again, or is the last.
LEMMA TriesAgain ==
  ASSUME PublicationTypes, NEW e \in Execs, exec' = [exec EXCEPT ![e] = Retried(exec[e])]
  PROVE  Becomes(e, exec'[e], {"pc", "tries"}) /\ exec'[e].pc \in {"push", "fail"}
<1>1. exec[e] \in ExecState /\ exec'[e] = Retried(exec[e])
  BY DEF PublicationTypes
<1>. QED
  BY <1>1, RetriedFacts DEF Becomes

\* The CLI works.
LEMMA WorkMoves ==
  ASSUME PublicationTypes, NEW e \in Execs, Work(e)
  PROVE  Becomes(e, exec'[e], {"made"}) /\ exec'[e].made
<1>. DEFINE x == exec[e]
            y == [x EXCEPT !.made = TRUE]
<1>1. x \in ExecState /\ exec' = [exec EXCEPT ![e] = y] /\ exec'[e] = y
  BY DEF PublicationTypes, Work, Step
<1>2. y \in ExecState /\ But(x, y, {"made"}) /\ y.made
  BY <1>1 DEF ExecState, But, Fields
<1>. QED
  BY <1>1, <1>2 DEF Becomes

\* The steps that only go on.
LEMMA PlainMoves ==
  ASSUME PublicationTypes, NEW e \in Execs
  PROVE  /\ Checkout(e) => /\ Becomes(e, exec'[e], {"pc"})
                           /\ exec'[e].pc =
                                IF exec[e].branch \in DOMAIN local.has THEN "fail"
                                ELSE IF exec[e].mode = "plan" THEN "report" ELSE "changes"
         /\ WriteReport(e) => Becomes(e, exec'[e], {"pc"}) /\ exec'[e].pc = "commit"
         /\ HasChanges(e) => /\ Becomes(e, exec'[e], {"pc"})
                             /\ exec'[e].pc = IF local.dirty # {} THEN "check"
                                              ELSE WithoutDiff(exec[e].mode)
         /\ CommandFails(e) => Becomes(e, exec'[e], {"pc"}) /\ exec'[e].pc = "fail"
         /\ CheckoutDefaultAndClean(e) => /\ Becomes(e, exec'[e], {"pc"})
                                          /\ exec'[e].pc = AfterCleanup(exec[e].pc)
         /\ AttemptFails(e) => /\ Becomes(e, exec'[e], {"pc", "tries"})
                               /\ exec'[e].pc \in {"push", "fail"}
<1>1. \A pc : /\ WithoutDiff(pc) \in Pcs /\ WithoutDiff(pc) \in {"strict", "report"}
              /\ AfterCleanup(pc) \in Pcs
  BY DEF WithoutDiff, AfterCleanup, Pcs, Over
<1>2. {"fail", "report", "changes", "commit", "check"} \subseteq Pcs
  BY DEF Pcs
<1>3. Checkout(e) => exec' = [exec EXCEPT ![e] = To(e,
                                IF exec[e].branch \in DOMAIN local.has THEN "fail"
                                ELSE IF exec[e].mode = "plan" THEN "report" ELSE "changes")]
  BY DEF Checkout, Step
<1>4. WriteReport(e) => exec' = [exec EXCEPT ![e] = To(e, "commit")]
  BY DEF WriteReport, Step
<1>5. HasChanges(e) => exec' = [exec EXCEPT ![e] =
                                  To(e, IF local.dirty # {} THEN "check" ELSE WithoutDiff(exec[e].mode))]
  BY DEF HasChanges, Step
<1>6. CommandFails(e) => exec' = [exec EXCEPT ![e] = To(e, "fail")]
  BY DEF CommandFails
<1>7. CheckoutDefaultAndClean(e) => exec' = [exec EXCEPT ![e] = To(e, AfterCleanup(exec[e].pc))]
  BY DEF CheckoutDefaultAndClean
<1>8. AttemptFails(e) => exec' = [exec EXCEPT ![e] = Retried(exec[e])]
  BY DEF AttemptFails
<1>. QED
  BY <1>1, <1>2, <1>3, <1>4, <1>5, <1>6, <1>7, <1>8, GoesTo, TriesAgain

\* The checks let the commit go on, or block it.
LEMMA ChecksMove ==
  ASSUME PublicationTypes, NEW e \in Execs, NEW r \in AllChecks, AfterChecks(e, r)
  PROVE  /\ Becomes(e, exec'[e], {"pc", "checks", "override"})
         /\ exec'[e].pc = (IF Blocks(r) THEN "fail" ELSE "commit") /\ exec'[e].checks = r
<1>. DEFINE x == exec[e]
            y == [To(e, IF Blocks(r) THEN "fail" ELSE "commit") EXCEPT !.checks = r, !.override = {}]
<1>1. x \in ExecState /\ exec' = [exec EXCEPT ![e] = y] /\ exec'[e] = y
  BY DEF PublicationTypes, AfterChecks, Step
<1>2. /\ y \in ExecState /\ But(x, y, {"pc", "checks", "override"})
      /\ y.pc = (IF Blocks(r) THEN "fail" ELSE "commit") /\ y.checks = r
  BY <1>1, Bounds DEF ExecState, But, Fields, To, Pcs
<1>. QED
  BY <1>1, <1>2 DEF Becomes
\* A commit needs uncommitted changes.
LEMMA CommitMoves ==
  ASSUME PublicationTypes, NEW e \in Execs, Commit(e)
  PROVE  \/ local.dirty = {} /\ Becomes(e, exec'[e], {"pc"}) /\ exec'[e].pc = "fail"
         \/ /\ local.dirty # {} /\ Becomes(e, exec'[e], {"pc", "tries"}) /\ exec'[e].pc = "push"
<1>1. CASE local.dirty = {}
  <2>1. exec' = [exec EXCEPT ![e] = To(e, "fail")]
    BY <1>1 DEF Commit, Step
  <2>. QED
    BY <1>1, <2>1, GoesTo DEF Pcs
<1>2. CASE local.dirty # {}
  <2>. DEFINE x == exec[e]
              y == [To(e, "push") EXCEPT !.tries = 1]
  <2>1. x \in ExecState /\ exec' = [exec EXCEPT ![e] = y] /\ exec'[e] = y
    BY <1>2 DEF PublicationTypes, Commit, Step
  <2>2. y \in ExecState /\ But(x, y, {"pc", "tries"}) /\ y.pc = "push"
    BY <2>1, Bounds DEF ExecState, But, Fields, To, Pcs
  <2>. QED
    BY <1>2, <2>1, <2>2 DEF Becomes
<1>. QED
  BY <1>1, <1>2

Refused(e) ==
  LET k == exec[e].branch IN k \in DOMAIN remote /\ ~(remote[k] \subseteq local.has[local.head])
\* The push goes forward, or is refused.
LEMMA PushMoves ==
  ASSUME PublicationTypes, NEW e \in Execs, Push(e)
  PROVE  \/ /\ Refused(e) /\ Becomes(e, exec'[e], {"pc", "tries"})
            /\ exec'[e].pc \in {"push", "fail"} /\ UNCHANGED remote
         \/ /\ ~Refused(e) /\ Becomes(e, exec'[e], {"pc"}) /\ exec'[e].pc = "create"
            /\ remote' = Branched(remote, exec[e].branch, local.has[local.head])
<1>1. CASE Refused(e)
  <2>1. exec' = [exec EXCEPT ![e] = Retried(exec[e])] /\ UNCHANGED remote
    BY <1>1 DEF Push, Step, Refused
  <2>. QED
    BY <1>1, <2>1, TriesAgain
<1>2. CASE ~Refused(e)
  <2>1. /\ exec' = [exec EXCEPT ![e] = To(e, "create")]
        /\ remote' = Branched(remote, exec[e].branch, local.has[local.head])
    BY <1>2 DEF Push, Step, Refused
  <2>. QED
    BY <1>2, <2>1, GoesTo DEF Pcs
<1>. QED
  BY <1>1, <1>2
\* The pull request is created, or GitHub refuses.
LEMMA CreateMoves ==
  ASSUME PublicationTypes, NEW e \in Execs, Create(e)
  PROVE  \/ /\ Creatable(exec[e].branch) /\ Becomes(e, exec'[e], {"pc"}) /\ exec'[e].pc = "store"
            /\ prs' = prs \cup {PullRequest(e)}
         \/ /\ Becomes(e, exec'[e], {"pc", "tries"}) /\ exec'[e].pc \in {"push", "fail"}
            /\ UNCHANGED prs
<1>1. CASE Creatable(exec[e].branch)
  <2>1. exec' = [exec EXCEPT ![e] = To(e, "store")] /\ prs' = prs \cup {PullRequest(e)}
    BY <1>1 DEF Create, Step
  <2>. QED
    BY <1>1, <2>1, GoesTo DEF Pcs
<1>2. CASE ~Creatable(exec[e].branch)
  <2>1. exec' = [exec EXCEPT ![e] = Retried(exec[e])] /\ UNCHANGED prs
    BY <1>2 DEF Create, Step
  <2>. QED
    BY <2>1, TriesAgain
<1>. QED
  BY <1>1, <1>2
\* The pull request is created and the answer is lost.
LEMMA ReplyLostMoves ==
  ASSUME PublicationTypes, NEW e \in Execs, ReplyLost(e)
  PROVE  /\ Creatable(exec[e].branch) /\ Becomes(e, exec'[e], {"pc", "tries", "told"})
         /\ exec'[e].pc \in {"push", "fail"} /\ ~exec'[e].told /\ prs' = prs \cup {PullRequest(e)}
<1>. DEFINE x == exec[e]
            z == Retried(x)
            y == [z EXCEPT !.told = FALSE]
<1>1. x \in ExecState /\ exec' = [exec EXCEPT ![e] = y] /\ exec'[e] = y
  BY DEF PublicationTypes, ReplyLost, Step
<1>2. z \in ExecState /\ z.pc \in {"push", "fail"} /\ But(x, z, {"pc", "tries"})
  BY <1>1, RetriedFacts
<1>3. y \in ExecState /\ y.pc \in {"push", "fail"} /\ But(x, y, {"pc", "tries", "told"}) /\ ~y.told
  <2>. HIDE DEF z
  <2>. QED
    BY <1>2 DEF ExecState, But, Fields
<1>. QED
  BY <1>1, <1>3 DEF Becomes, ReplyLost

\* The steps that write the row.
LEMMA StoreMoves ==
  ASSUME PublicationTypes, NEW e \in Execs, Store(e)
  PROVE  /\ Becomes(e, exec'[e], {"pc", "status"})
         /\ exec'[e].pc = "clean" /\ exec'[e].status = "published"
<1>. DEFINE x == exec[e]
            y == [To(e, "clean") EXCEPT !.status = "published"]
<1>1. x \in ExecState /\ exec' = [exec EXCEPT ![e] = y] /\ exec'[e] = y
  BY DEF PublicationTypes, Store, Step
<1>2. /\ y \in ExecState /\ But(x, y, {"pc", "status"}) /\ y.pc = "clean" /\ y.status = "published"
  BY <1>1 DEF ExecState, But, Fields, To, Pcs
<1>. QED
  BY <1>1, <1>2 DEF Becomes
\* A failure is written to the row, or the row cannot be told.
LEMMA FailMoves ==
  ASSUME PublicationTypes, NEW e \in Execs, Fail(e) \/ StatementFails(e) \/ DispatchRefused(e)
  PROVE  \/ /\ exec[e].pc = "fail" /\ Becomes(e, exec'[e], {"pc", "status"})
            /\ exec'[e].pc = "clean" /\ exec'[e].status = "failed"
         \/ /\ exec[e].pc = "store" /\ Becomes(e, exec'[e], {"pc", "told"})
            /\ exec'[e].pc = "fail" /\ ~exec'[e].told
         \/ /\ exec[e].pc = "nodiff" /\ Becomes(e, exec'[e], {"pc", "status"})
            /\ exec'[e].pc = "over" /\ exec'[e].status = "failed"
<1>. DEFINE x == exec[e]
            y == [To(e, "clean") EXCEPT !.status = "failed"]
            z == [To(e, "fail") EXCEPT !.told = FALSE]
            w == [To(e, "over") EXCEPT !.status = "failed"]
<1>1. x \in ExecState /\ exec \in [Execs -> ExecState]
  BY DEF PublicationTypes
<1>2. /\ y \in ExecState /\ But(x, y, {"pc", "status"}) /\ y.pc = "clean" /\ y.status = "failed"
      /\ z \in ExecState /\ But(x, z, {"pc", "told"}) /\ z.pc = "fail" /\ ~z.told
      /\ w \in ExecState /\ But(x, w, {"pc", "status"}) /\ w.pc = "over" /\ w.status = "failed"
  BY <1>1 DEF ExecState, But, Fields, To, Pcs, Over
<1>3. \/ x.pc = "fail" /\ exec' = [exec EXCEPT ![e] = y]
      \/ x.pc = "store" /\ exec' = [exec EXCEPT ![e] = z]
      \/ x.pc = "nodiff" /\ exec' = [exec EXCEPT ![e] = w]
  BY DEF Fail, StatementFails, DispatchRefused, Step
<1>. HIDE DEF y, z, w
<1>. QED
  BY <1>1, <1>2, <1>3 DEF Becomes
\* A clean-up that fails is known to have left the working copy.
LEMMA CleanupFailsMoves ==
  ASSUME PublicationTypes, NEW e \in Execs, CleanupFails(e)
  PROVE  /\ Becomes(e, exec'[e], {"pc", "left"})
         /\ exec'[e].pc = AfterCleanup(exec[e].pc) /\ exec'[e].left
<1>. DEFINE x == exec[e]
            y == [To(e, AfterCleanup(x.pc)) EXCEPT !.left = TRUE]
<1>1. x \in ExecState /\ exec' = [exec EXCEPT ![e] = y] /\ exec'[e] = y
  BY DEF PublicationTypes, CleanupFails
<1>2. AfterCleanup(x.pc) \in Pcs
  BY DEF AfterCleanup, Pcs, Over
<1>3. y \in ExecState /\ But(x, y, {"pc", "left"}) /\ y.pc = AfterCleanup(x.pc) /\ y.left
  BY <1>1, <1>2 DEF ExecState, But, Fields, To
<1>. QED
  BY <1>1, <1>3 DEF Becomes
\* A strict execution without a diff tries again, or ends.
LEMMA NoDiffMoves ==
  ASSUME PublicationTypes, NEW e \in Execs, NoDiff(e)
  PROVE  \/ /\ Becomes(e, exec'[e], {"pc", "attempt", "status", "made", "branch", "tries", "checks"})
            /\ exec'[e].pc = "cli" /\ exec'[e].status = "pending" /\ ~exec'[e].made
         \/ /\ Becomes(e, exec'[e], {"pc", "status", "branch"})
            /\ exec'[e].pc = "over" /\ exec'[e].status = "no_changes"
<1>. DEFINE x == exec[e]
            y == [To(e, "cli") EXCEPT !.attempt = @ + 1, !.status = "pending", !.made = FALSE,
                                      !.branch = NoBranch, !.tries = 0, !.checks = Unchecked]
            w == [To(e, "over") EXCEPT !.status = "no_changes", !.branch = NoBranch]
<1>1. x \in ExecState /\ exec \in [Execs -> ExecState]
  BY DEF PublicationTypes
<1>2. CASE x.attempt < MaxAttempts
  <2>1. exec' = [exec EXCEPT ![e] = y]
    BY <1>2 DEF NoDiff, Step
  <2>2. x.attempt + 1 \in 1..MaxAttempts
    BY <1>1, <1>2, Bounds DEF ExecState
  <2>3. /\ y \in ExecState /\ y.pc = "cli" /\ y.status = "pending" /\ ~y.made
        /\ But(x, y, {"pc", "attempt", "status", "made", "branch", "tries", "checks"})
    BY <1>1, <2>2, Bounds DEF ExecState, But, Fields, To, Pcs, NoBranch
  <2>. HIDE DEF y
  <2>. QED
    BY <1>1, <2>1, <2>3 DEF Becomes
<1>3. CASE ~(x.attempt < MaxAttempts)
  <2>1. exec' = [exec EXCEPT ![e] = w]
    BY <1>3 DEF NoDiff, Step
  <2>2. w \in ExecState /\ w.pc = "over" /\ w.status = "no_changes" /\ But(x, w, {"pc", "status", "branch"})
    BY <1>1, Bounds DEF ExecState, But, Fields, To, Pcs, NoBranch, Over
  <2>. HIDE DEF w
  <2>. QED
    BY <1>1, <2>1, <2>2 DEF Becomes
<1>. QED
  BY <1>2, <1>3

\* The steps that touch every execution.
LEMMA StartCliMoves ==
  ASSUME PublicationTypes, NEW e \in Execs, StartCli(e)
  PROVE  /\ exec' \in [Execs -> ExecState]
         /\ But(exec[e], exec'[e], {"pc", "alone"}) /\ exec'[e].pc = "cli"
         /\ exec'[e].alone <=> ActiveExecs = {} /\ \A g \in Execs : ~exec[g].left
         /\ \A f \in Execs \ {e} : /\ But(exec[f], exec'[f], {"alone"})
                                   /\ exec'[f].alone <=> exec[f].alone /\ f \notin ActiveExecs
<1>. DEFINE free == ActiveExecs = {} /\ \A g \in Execs : ~exec[g].left
            y == [To(e, "cli") EXCEPT !.alone = free]
            z(f) == [exec[f] EXCEPT !.alone = exec[f].alone /\ f \notin ActiveExecs]
<1>1. \A f \in Execs : exec[f] \in ExecState
  BY DEF PublicationTypes
<1>2. exec' = [f \in Execs |-> IF f = e THEN y ELSE z(f)]
  BY DEF StartCli
<1>. HIDE DEF free
<1>3. free \in BOOLEAN
  BY DEF free
<1>4. y \in ExecState /\ But(exec[e], y, {"pc", "alone"}) /\ y.pc = "cli" /\ y.alone = free
  <2>1. exec[e] \in ExecState
    BY <1>1
  <2>. QED
    BY <1>3, <2>1 DEF ExecState, But, Fields, To, Pcs
<1>5. ASSUME NEW f \in Execs
      PROVE  z(f) \in ExecState /\ But(exec[f], z(f), {"alone"})
             /\ (z(f).alone <=> exec[f].alone /\ f \notin ActiveExecs)
  <2>1. exec[f] \in ExecState
    BY <1>1
  <2>. QED
    BY <2>1 DEF ExecState, But, Fields
<1>. HIDE DEF y, z
<1>. QED
  BY <1>2, <1>4, <1>5 DEF free
\* The user changes the configuration: nobody is calm any more.
LEMMA ChangeChecksMoves ==
  ASSUME PublicationTypes, NEW c \in Configs, ChangeChecks(c)
  PROVE  /\ exec' \in [Execs -> ExecState]
         /\ \A f \in Execs : But(exec[f], exec'[f], {"calm"}) /\ ~exec'[f].calm
<1>1. \A f \in Execs : exec[f] \in ExecState
  BY DEF PublicationTypes
<1>. DEFINE y(f) == [exec[f] EXCEPT !.calm = FALSE]
<1>2. ASSUME NEW f \in Execs
      PROVE  y(f) \in ExecState /\ But(exec[f], y(f), {"calm"}) /\ ~y(f).calm
  <2>1. exec[f] \in ExecState
    BY <1>1
  <2>. QED
    BY <2>1 DEF ExecState, But, Fields
<1>3. exec' = [f \in Execs |-> y(f)]
  BY DEF ChangeChecks
<1>. HIDE DEF y
<1>. QED
  BY <1>2, <1>3
\* The worker ends: a CLI will be started again, the rest stays as it is.
LEMMA CrashMoves ==
  ASSUME PublicationTypes, Crash
  PROVE  /\ exec' \in [Execs -> ExecState]
         /\ \A f \in Execs :
              \/ f \notin ActiveExecs /\ exec'[f] = exec[f]
              \/ /\ exec[f].pc = "cli" /\ But(exec[f], exec'[f], {"pc", "made", "left"})
                 /\ exec'[f].pc = "idle" /\ exec'[f].left
              \/ /\ f \in ActiveExecs /\ But(exec[f], exec'[f], {"pc", "left"})
                 /\ exec'[f].pc = "dead" /\ exec'[f].left
<1>. DEFINE y(f) == [To(f, "idle") EXCEPT !.made = FALSE, !.left = TRUE]
            z(f) == [To(f, "dead") EXCEPT !.left = TRUE]
<1>1. \A f \in Execs : exec[f] \in ExecState
  BY DEF PublicationTypes
<1>2. exec' = [f \in Execs |-> IF f \notin ActiveExecs THEN exec[f]
                               ELSE IF exec[f].pc = "cli" THEN y(f) ELSE z(f)]
  BY DEF Crash
<1>3. ASSUME NEW f \in Execs
      PROVE  y(f) \in ExecState /\ But(exec[f], y(f), {"pc", "made", "left"})
             /\ y(f).pc = "idle" /\ y(f).left
  <2>1. exec[f] \in ExecState
    BY <1>1
  <2>. QED
    BY <2>1 DEF ExecState, But, Fields, To, Pcs
<1>4. ASSUME NEW f \in Execs
      PROVE  z(f) \in ExecState /\ But(exec[f], z(f), {"pc", "left"})
             /\ z(f).pc = "dead" /\ z(f).left
  <2>1. exec[f] \in ExecState
    BY <1>1
  <2>. QED
    BY <2>1 DEF ExecState, But, Fields, To, Pcs, Over
<1>. HIDE DEF y, z
<1>. QED
  BY <1>1, <1>2, <1>3, <1>4

-----------------------------------------------------------------------------
(* What a step does to the working copy and to the remote.                 *)

\* What Branched changes, and what it keeps.
LEMMA BranchedFacts ==
  ASSUME NEW has, Holding(has), NEW k \in 0..MaxBranches, NEW what \in SUBSET Changes
  PROVE  /\ Holding(Branched(has, k, what)) /\ Branched(has, k, what)[k] = what
         /\ DOMAIN Branched(has, k, what) = DOMAIN has \cup {k}
         /\ \A j \in DOMAIN has \ {k} : Branched(has, k, what)[j] = has[j]
<1>. DEFINE b == Branched(has, k, what)
<1>1. DOMAIN b = DOMAIN has \cup {k} /\ \A j \in DOMAIN b : b[j] = IF j = k THEN what ELSE has[j]
  BY DEF Branched
<1>2. \A j \in DOMAIN has : has[j] \in SUBSET Changes
  BY DEF Holding
<1>3. b \in [DOMAIN has \cup {k} -> SUBSET Changes]
  BY <1>2 DEF Branched
<1>. QED
  BY <1>1, <1>3 DEF Holding

\* The two ways to say what branches hold.
LEMMA HoldingIs ==
  ASSUME NEW has
  PROVE  Holding(has) <=> has \in Holdings
<1>1. ASSUME Holding(has) PROVE has \in Holdings
  <2>1. DOMAIN has \in {d \in SUBSET (0..MaxBranches) : Default \in d}
    BY <1>1 DEF Holding
  <2>. QED
    BY <1>1, <2>1 DEF Holding, Holdings
<1>2. ASSUME has \in Holdings PROVE Holding(has)
  <2>1. PICK d \in SUBSET (0..MaxBranches) : Default \in d /\ has \in [d -> SUBSET Changes]
    BY <1>2 DEF Holdings
  <2>. QED
    BY <2>1 DEF Holding
<1>. QED
  BY <1>1, <1>2

\* The parts of a working copy.
Copies == [head : 0..MaxBranches, has : Holdings, dirty : SUBSET Changes]
\* What a working copy has.
LEMMA CopyHas ==
  ASSUME NEW w, WorkingCopy(w)
  PROVE  /\ Holding(w.has) /\ w.head \in DOMAIN w.has /\ w.head \in 0..MaxBranches
         /\ w.dirty \in SUBSET Changes /\ w.has[w.head] \in SUBSET Changes /\ w \in Copies
<1>1. w.has \in Holdings /\ w.head \in DOMAIN w.has /\ w \in Copies
  BY DEF WorkingCopy, Copies
<1>2. Holding(w.has)
  BY <1>1, HoldingIs
<1>. QED
  BY <1>1, <1>2 DEF Copies, Holding
\* Branch k of a working copy is made to hold something.
LEMMA BranchOfCopy ==
  ASSUME NEW w, WorkingCopy(w), NEW k \in 0..MaxBranches, NEW what \in SUBSET Changes
  PROVE  LET b == Branched(w.has, k, what) IN b \in Holdings /\ b[k] = what /\ k \in DOMAIN b
<1>. DEFINE has == w.has
            b == Branched(has, k, what)
<1>1. Holding(has)
  BY CopyHas
<1>. HIDE DEF has
<1>4. Holding(b) /\ b[k] = what /\ DOMAIN b = DOMAIN has \cup {k}
  BY <1>1, BranchedFacts
<1>2. Holding(b) /\ b[k] = what /\ k \in DOMAIN b
  BY <1>4
<1>. HIDE DEF b
<1>3. b \in Holdings
  BY <1>2, HoldingIs
<1>. QED
  BY <1>2, <1>3 DEF b, has

\* Checkout -b takes the commits of the branch checked out, and what is uncommitted.
LEMMA CheckoutFacts ==
  ASSUME NEW w, WorkingCopy(w), NEW k \in 0..MaxBranches
  PROVE  LET v == [w EXCEPT !.head = k, !.has = Branched(w.has, k, w.has[w.head])]
         IN WorkingCopy(v) /\ v.dirty = w.dirty /\ v.has[v.head] = w.has[w.head]
<1>. DEFINE b == Branched(w.has, k, w.has[w.head])
            v == [w EXCEPT !.head = k, !.has = b]
<1>1. w \in Copies /\ b \in Holdings /\ b[k] = w.has[w.head] /\ k \in DOMAIN b
  BY CopyHas, BranchOfCopy
<1>2. v \in Copies /\ v.head = k /\ v.has = b /\ v.dirty = w.dirty
  <2>. HIDE DEF b
  <2>. QED
    BY <1>1 DEF Copies
<1>. QED
  BY <1>1, <1>2 DEF WorkingCopy, Copies
\* A change in the files is uncommitted.
LEMMA DirtyFacts ==
  ASSUME NEW w, WorkingCopy(w), NEW c \in SUBSET Changes
  PROVE  LET v == [w EXCEPT !.dirty = @ \cup c]
         IN WorkingCopy(v) /\ v.dirty = w.dirty \cup c /\ v.has[v.head] = w.has[w.head]
<1>1. w \in Copies /\ w.head \in DOMAIN w.has
  BY CopyHas
<1>. QED
  BY <1>1 DEF WorkingCopy, Copies
\* A commit puts what is uncommitted on the branch checked out.
LEMMA CommittedFacts ==
  ASSUME NEW w, WorkingCopy(w)
  PROVE  LET v == Committed(w)
         IN WorkingCopy(v) /\ v.dirty = {} /\ v.has[v.head] = w.has[w.head] \cup w.dirty
<1>. DEFINE what == w.has[w.head] \cup w.dirty
            b == Branched(w.has, w.head, what)
            v == [w EXCEPT !.has = b, !.dirty = {}]
<1>1. w \in Copies /\ what \in SUBSET Changes /\ w.head \in 0..MaxBranches
  BY CopyHas
<1>2. b \in Holdings /\ b[w.head] = what /\ w.head \in DOMAIN b
  <2>. HIDE DEF what
  <2>. QED
    BY <1>1, BranchOfCopy
<1>3. v \in Copies /\ v.head = w.head /\ v.has = b /\ v.dirty = {}
  <2>. HIDE DEF b
  <2>. QED
    BY <1>1, <1>2 DEF Copies
<1>. QED
  BY <1>2, <1>3 DEF WorkingCopy, Copies, Committed
\* The clean-up: whatever it deletes is not the branch checked out.
LEMMA DeletedFacts ==
  ASSUME NEW w, WorkingCopy(w), NEW k \in 0..MaxBranches
  PROVE  LET v == Deleted(w, k)
         IN WorkingCopy(v) /\ v.dirty = w.dirty /\ v.has[v.head] = w.has[w.head]
<1>1. CASE k = NoBranch \/ k = w.head
  BY <1>1 DEF Deleted
<1>2. CASE k # NoBranch /\ k # w.head
  <2>. DEFINE b == Restrict(w.has, DOMAIN w.has \ {k})
              v == [w EXCEPT !.has = b]
  <2>1. b = [j \in DOMAIN w.has \ {k} |-> w.has[j]]
    BY DEF Restrict
  <2>2. Holding(w.has) /\ w \in Copies /\ w.head \in DOMAIN w.has
    BY CopyHas
  <2>3. Holding(b) /\ w.head \in DOMAIN b /\ b[w.head] = w.has[w.head]
    BY <1>2, <2>1, <2>2 DEF Holding, Default, NoBranch
  <2>4. b \in Holdings
    BY <2>3, HoldingIs
  <2>. HIDE DEF b
  <2>5. v \in Copies /\ v.head = w.head /\ v.has = b /\ v.dirty = w.dirty
    BY <2>2, <2>4 DEF Copies
  <2>6. Deleted(w, k) = v
    BY <1>2 DEF Deleted, b
  <2>. QED
    BY <2>3, <2>5, <2>6 DEF WorkingCopy, Copies
<1>. QED
  BY <1>1, <1>2
\* After the reset nothing is here.
LEMMA ResetFacts ==
  ASSUME NEW w, WorkingCopy(w)
  PROVE  LET v == Reset(w) IN WorkingCopy(v) /\ v.dirty = {} /\ v.has[v.head] = {}
<1>. DEFINE b == Branched(w.has, Default, {})
            v == [w EXCEPT !.head = Default, !.has = b, !.dirty = {}]
<1>1. Default \in 0..MaxBranches /\ w \in Copies
  BY Bounds, CopyHas DEF Default
<1>2. b \in Holdings /\ b[Default] = {} /\ Default \in DOMAIN b
  BY <1>1, BranchOfCopy
<1>3. v \in Copies /\ v.head = Default /\ v.has = b /\ v.dirty = {}
  <2>. HIDE DEF b
  <2>. QED
    BY <1>1, <1>2 DEF Copies
<1>. QED
  BY <1>2, <1>3 DEF WorkingCopy, Copies, Reset

\* What is checked out holds: what the commits of its branch do.
Here == local.has[local.head]
\* What each step does to the working copy.
LEMMA LocalMoves ==
  ASSUME WorkingCopy(local), NEW e \in Execs, exec[e].branch \in 0..MaxBranches
  PROVE  /\ Work(e) => WorkingCopy(local') /\ local'.dirty = local.dirty \cup {Code(e)} /\ Here' = Here
         /\ WriteReport(e) =>
              WorkingCopy(local') /\ local'.dirty = local.dirty \cup {Report(e)} /\ Here' = Here
         /\ Checkout(e) => WorkingCopy(local') /\ local'.dirty = local.dirty /\ Here' = Here
         /\ Commit(e) => /\ WorkingCopy(local')
                         /\ local.dirty # {} => local'.dirty = {} /\ Here' = Here \cup local.dirty
         /\ CheckoutDefaultAndClean(e) => WorkingCopy(local') /\ local'.dirty = {} /\ Here' = {}
         /\ CleanupFails(e) => WorkingCopy(local') /\ local'.dirty = local.dirty /\ Here' = Here
<1>1. ASSUME NEW c \in SUBSET Changes, local' = [local EXCEPT !.dirty = @ \cup c]
      PROVE  WorkingCopy(local') /\ local'.dirty = local.dirty \cup c /\ Here' = Here
  BY <1>1, DirtyFacts DEF Here
<1>2. {Code(e)} \in SUBSET Changes /\ {Report(e)} \in SUBSET Changes
  BY DEF Changes
<1>3. Work(e) => local' = [local EXCEPT !.dirty = @ \cup {Code(e)}]
  BY DEF Work
<1>4. WriteReport(e) => local' = [local EXCEPT !.dirty = @ \cup {Report(e)}]
  BY DEF WriteReport
<1>5. ASSUME Checkout(e)
      PROVE  WorkingCopy(local') /\ local'.dirty = local.dirty /\ Here' = Here
  <2>. DEFINE k == exec[e].branch
  <2>1. \/ local' = local
        \/ local' = [local EXCEPT !.head = k, !.has = Branched(local.has, k, local.has[local.head])]
    BY <1>5 DEF Checkout
  <2>2. k \in 0..MaxBranches
    OBVIOUS
  <2>. HIDE DEF k
  <2>. DEFINE v == [local EXCEPT !.head = k, !.has = Branched(local.has, k, local.has[local.head])]
  <2>3. WorkingCopy(v) /\ v.dirty = local.dirty /\ v.has[v.head] = local.has[local.head]
    BY <2>2, CheckoutFacts
  <2>4. local' = local \/ local' = v
    BY <2>1
  <2>. HIDE DEF v
  <2>. QED
    BY <2>3, <2>4 DEF Here
<1>6. ASSUME Commit(e)
      PROVE  /\ WorkingCopy(local')
             /\ local.dirty # {} => local'.dirty = {} /\ Here' = Here \cup local.dirty
  <2>1. IF local.dirty = {} THEN local' = local ELSE local' = Committed(local)
    BY <1>6 DEF Commit
  <2>. QED
    BY <2>1, CommittedFacts DEF Here
<1>7. ASSUME CheckoutDefaultAndClean(e)
      PROVE  WorkingCopy(local') /\ local'.dirty = {} /\ Here' = {}
  <2>1. local' = Deleted(Reset(local), exec[e].branch)
    BY <1>7 DEF CheckoutDefaultAndClean
  <2>2. WorkingCopy(Reset(local)) /\ Reset(local).dirty = {} /\ Reset(local).has[Reset(local).head] = {}
    BY ResetFacts
  <2>. QED
    BY <2>1, <2>2, DeletedFacts DEF Here
<1>8. ASSUME CleanupFails(e)
      PROVE  WorkingCopy(local') /\ local'.dirty = local.dirty /\ Here' = Here
  <2>1. local' = Deleted(local, exec[e].branch)
    BY <1>8 DEF CleanupFails
  <2>. QED
    BY <2>1, DeletedFacts DEF Here
<1>. QED
  BY <1>1, <1>2, <1>3, <1>4, <1>5, <1>6, <1>7, <1>8

\* The push makes the branch hold what is checked out.
LEMMA PushedFacts ==
  ASSUME PublicationTypes, NEW e \in Execs, Push(e), ~Refused(e)
  PROVE  /\ Holding(remote') /\ DOMAIN remote' = DOMAIN remote \cup {exec[e].branch}
         /\ remote'[exec[e].branch] = Here
         /\ \A j \in DOMAIN remote \ {exec[e].branch} : remote'[j] = remote[j]
<1>1. Here \in SUBSET Changes /\ Holding(remote) /\ exec[e].branch \in 0..MaxBranches
  BY CopyHas DEF PublicationTypes, Here, ExecState
<1>2. remote' = Branched(remote, exec[e].branch, Here)
  BY PushMoves DEF Here
<1>. HIDE DEF Here
<1>. QED
  BY <1>1, <1>2, BranchedFacts

-----------------------------------------------------------------------------
(* The types.                                                              *)

\* The steps that change nothing but the execution that takes them.
Inner(e) ==
  \/ Begin(e) \/ NotToPublish(e) \/ ResolveBranch(e) \/ HasChanges(e) \/ Store(e) \/ Fail(e)
  \/ NoDiff(e) \/ CommandFails(e) \/ AttemptFails(e) \/ StatementFails(e) \/ DispatchRefused(e)
\* They leave everything else.
LEMMA InnerLeaves ==
  ASSUME NEW e \in Execs, Inner(e)
  PROVE  UNCHANGED <<config, local, remote, prs>> /\ events' \in {events, events + 1}
  BY DEF Inner, Begin, NotToPublish, ResolveBranch, HasChanges, Store, Fail, NoDiff, CommandFails,
         AttemptFails, StatementFails, DispatchRefused, Elsewhere, NoFault, Fault
\* Types, but for those of the executions.
RestTypes ==
  config \in Configs /\ WorkingCopy(local) /\ Holding(remote) /\ prs \subseteq PullRequests /\ events \in Nat
OneTypes(e) == /\ exec[e].pc \in OnBranch => exec[e].branch \in Branches
               /\ exec[e].pc = "create" => exec[e].branch \in DOMAIN remote
\* They keep the types ...
LEMMA InnerTyped ==
  ASSUME PublicationTypes, NEW e \in Execs, Inner(e)
  PROVE  PublicationTypes'
<1>1. RestTypes' /\ remote' = remote
  BY InnerLeaves DEF RestTypes, PublicationTypes
<1>2. OneTypes(e) /\ exec \in [Execs -> ExecState]
  BY DEF PublicationTypes, OneTypes
<1>3. \E F \in SUBSET Fields : Becomes(e, exec'[e], F)
  BY BeginMoves, NotToPublishMoves, ResolveBranchMoves, PlainMoves, StoreMoves, FailMoves,
     NoDiffMoves DEF Inner, Fields
<1>4. OneTypes(e)'
  <2>1. CASE Begin(e)
    BY <2>1, BeginMoves DEF OneTypes, OnBranch
  <2>2. CASE NotToPublish(e)
    BY <2>2, NotToPublishMoves DEF OneTypes, OnBranch
  <2>3. CASE ResolveBranch(e)
    BY <2>3, ResolveBranchMoves DEF OneTypes, OnBranch
  <2>4. CASE HasChanges(e)
    BY <1>2, <2>4, PlainMoves DEF OneTypes, OnBranch, HasChanges, Step, Becomes, But, Fields, WithoutDiff
  <2>5. CASE Store(e)
    BY <2>5, StoreMoves DEF OneTypes, OnBranch
  <2>6. CASE Fail(e) \/ StatementFails(e) \/ DispatchRefused(e)
    BY <2>6, FailMoves DEF OneTypes, OnBranch
  <2>7. CASE NoDiff(e)
    BY <2>7, NoDiffMoves DEF OneTypes, OnBranch
  <2>8. CASE CommandFails(e)
    BY <2>8, PlainMoves DEF OneTypes, OnBranch
  <2>9. CASE AttemptFails(e)
    BY <1>2, <2>9, PlainMoves DEF OneTypes, OnBranch, AttemptFails, Becomes, But, Fields
  <2>. QED
    BY <2>1, <2>2, <2>3, <2>4, <2>5, <2>6, <2>7, <2>8, <2>9 DEF Inner
<1>. QED
  BY <1>1, <1>2, <1>3, <1>4 DEF PublicationTypes, RestTypes, OneTypes, Becomes

\* The result of the checks, whether the configuration could be read or not.
LEMMA CheckIs ==
  ASSUME PublicationTypes, NEW e \in Execs, Check(e) \/ ProfileUnread(e)
  PROVE  \E r \in AllChecks :
           /\ AfterChecks(e, r) /\ UNCHANGED <<config, local, remote, prs>>
           /\ events' \in {events, events + 1} /\ exec[e].pc = "check"
           /\ \/ r = Unread
              \/ r \in Results(Resolved(exec[e].override, config.default, config.legacy),
                               config.legacy, config.language)
<1>. DEFINE S(o, c) == Results(Resolved(o, c.default, c.legacy), c.legacy, c.language)
<1>1. exec[e].override \in Overrides /\ config \in Configs
  BY DEF PublicationTypes, ExecState
<1>2. S(exec[e].override, config) \subseteq AllChecks
  BY <1>1 DEF AllChecks
<1>3. CASE Check(e)
  <2>1. /\ \E r \in S(exec[e].override, config) : AfterChecks(e, r)
        /\ UNCHANGED <<config, local, remote, prs, events>>
    BY <1>3 DEF Check, Elsewhere, NoFault
  <2>. HIDE DEF S
  <2>2. PICK r \in S(exec[e].override, config) : AfterChecks(e, r)
    BY <2>1
  <2>3. r \in AllChecks /\ exec[e].pc = "check"
    BY <1>2, <2>2 DEF AfterChecks, Step
  <2>. QED
    BY <2>1, <2>2, <2>3 DEF S
<1>4. CASE ProfileUnread(e)
  BY <1>4, Bounds DEF ProfileUnread, Fault, AfterChecks, Step
<1>. QED
  BY <1>3, <1>4
\* ... and so do the checks.
LEMMA CheckTyped ==
  ASSUME PublicationTypes, NEW e \in Execs, Check(e) \/ ProfileUnread(e)
  PROVE  PublicationTypes'
<1>1. PICK r \in AllChecks :
        /\ AfterChecks(e, r) /\ UNCHANGED <<config, local, remote, prs>>
        /\ events' \in {events, events + 1} /\ exec[e].pc = "check"
  BY CheckIs
<1>2. /\ Becomes(e, exec'[e], {"pc", "checks", "override"}) /\ exec'[e].pc \in {"fail", "commit"}
  BY <1>1, ChecksMove
<1>3. OneTypes(e)'
  BY <1>1, <1>2 DEF PublicationTypes, OneTypes, OnBranch, Becomes, But, Fields
<1>. QED
  BY <1>1, <1>2, <1>3 DEF PublicationTypes, OneTypes, Becomes

\* The steps that change the working copy.
LEMMA LocalTyped ==
  ASSUME PublicationTypes, NEW e \in Execs,
         Work(e) \/ Checkout(e) \/ WriteReport(e) \/ Commit(e) \/ CheckoutDefaultAndClean(e)
           \/ CleanupFails(e)
  PROVE  PublicationTypes'
<1>1. exec[e] \in ExecState /\ exec \in [Execs -> ExecState] /\ WorkingCopy(local) /\ OneTypes(e)
      /\ exec[e].branch \in 0..MaxBranches
  BY DEF PublicationTypes, OneTypes, ExecState
<1>2. UNCHANGED <<config, remote, prs>> /\ events' \in {events, events + 1}
  BY DEF Work, Checkout, WriteReport, Commit, CheckoutDefaultAndClean, CleanupFails, NoFault, Fault
<1>4. WorkingCopy(local')
  BY <1>1, LocalMoves
<1>5. (\E F \in SUBSET Fields : Becomes(e, exec'[e], F)) /\ OneTypes(e)'
  <2>1. CASE Work(e)
    BY <1>1, <1>2, <2>1, WorkMoves DEF OneTypes, OnBranch, Becomes, But, Fields
  <2>2. CASE Checkout(e)
    BY <1>1, <1>2, <2>2, PlainMoves DEF OneTypes, OnBranch, Becomes, But, Fields, Checkout, Step
  <2>3. CASE WriteReport(e)
    BY <1>1, <1>2, <2>3, PlainMoves DEF OneTypes, OnBranch, Becomes, But, Fields, WriteReport, Step
  <2>4. CASE Commit(e)
    BY <1>1, <1>2, <2>4, CommitMoves DEF OneTypes, OnBranch, Becomes, But, Fields, Commit, Step
  <2>5. CASE CheckoutDefaultAndClean(e)
    BY <1>1, <1>2, <2>5, PlainMoves DEF OneTypes, OnBranch, Fields, AfterCleanup
  <2>6. CASE CleanupFails(e)
    BY <1>1, <1>2, <2>6, CleanupFailsMoves DEF OneTypes, OnBranch, Fields, AfterCleanup
  <2>. QED
    BY <2>1, <2>2, <2>3, <2>4, <2>5, <2>6
<1>. QED
  BY <1>1, <1>2, <1>4, <1>5 DEF PublicationTypes, OneTypes, Becomes

\* The steps that change the remote or the pull requests.
LEMMA RemoteTyped ==
  ASSUME PublicationTypes, NEW e \in Execs, Push(e) \/ Create(e) \/ ReplyLost(e)
  PROVE  PublicationTypes' /\ DOMAIN remote \subseteq DOMAIN remote'
<1>1. exec[e] \in ExecState /\ exec \in [Execs -> ExecState] /\ OneTypes(e) /\ Holding(remote)
      /\ prs \subseteq PullRequests
  BY DEF PublicationTypes, OneTypes
<1>2. UNCHANGED <<config, local>> /\ events' \in {events, events + 1}
  BY DEF Push, Create, ReplyLost, NoFault, Fault
<1>3. ASSUME Push(e)
      PROVE  Holding(remote') /\ DOMAIN remote' = DOMAIN remote \cup (IF Refused(e) THEN {} ELSE {exec[e].branch})
  <2>1. CASE Refused(e)
    BY <1>1, <1>3, <2>1, PushMoves
  <2>2. CASE ~Refused(e)
    BY <1>3, <2>2, PushedFacts
  <2>. QED
    BY <2>1, <2>2
<1>4. ASSUME Create(e) \/ ReplyLost(e)
      PROVE  prs' \subseteq PullRequests
  <2>1. exec[e].branch \in DOMAIN remote /\ exec[e].branch \in Branches
    BY <1>1, <1>4 DEF OneTypes, OnBranch, Create, ReplyLost
  <2>2. remote[exec[e].branch] \in SUBSET Changes /\ Warns(e) \in BOOLEAN
    BY <1>1, <2>1 DEF Holding, Warns
  <2>3. PullRequest(e) \in PullRequests
    BY <2>1, <2>2 DEF PullRequest, PullRequests
  <2>. QED
    BY <1>1, <1>4, <2>3 DEF Create, ReplyLost
<1>5. (\E F \in SUBSET Fields : Becomes(e, exec'[e], F)) /\ OneTypes(e)'
  <2>1. CASE Push(e)
    BY <1>1, <1>3, <2>1, PushMoves DEF OneTypes, OnBranch, Becomes, But, Fields, Push, Step
  <2>2. CASE Create(e)
    BY <1>1, <2>2, CreateMoves DEF OneTypes, OnBranch, Becomes, But, Fields, Create
  <2>3. CASE ReplyLost(e)
    BY <1>1, <2>3, ReplyLostMoves DEF OneTypes, OnBranch, Becomes, But, Fields, ReplyLost
  <2>. QED
    BY <2>1, <2>2, <2>3
<1>6. Holding(remote') /\ DOMAIN remote \subseteq DOMAIN remote' /\ prs' \subseteq PullRequests
  BY <1>1, <1>3, <1>4 DEF Push, Create, ReplyLost
<1>. QED
  BY <1>1, <1>2, <1>5, <1>6 DEF PublicationTypes, OneTypes, Becomes

\* The steps of all executions.
LEMMA AllTyped ==
  ASSUME PublicationTypes,
         (\E e \in Execs : StartCli(e)) \/ (\E c \in Configs : ChangeChecks(c)) \/ Crash
  PROVE  PublicationTypes'
<1>1. UNCHANGED <<local, remote, prs>> /\ events' \in {events, events + 1} /\ config' \in Configs
  BY DEF StartCli, ChangeChecks, Crash, Elsewhere, NoFault, Fault, PublicationTypes
<1>2. exec' \in [Execs -> ExecState] /\ \A f \in Execs : OneTypes(f)'
  <2>1. ASSUME NEW e \in Execs, StartCli(e)
        PROVE  exec' \in [Execs -> ExecState] /\ \A f \in Execs : OneTypes(f)'
    BY <1>1, <2>1, StartCliMoves DEF OneTypes, OnBranch, But, Fields, PublicationTypes
  <2>2. ASSUME NEW c \in Configs, ChangeChecks(c)
        PROVE  exec' \in [Execs -> ExecState] /\ \A f \in Execs : OneTypes(f)'
    BY <1>1, <2>2, ChangeChecksMoves DEF OneTypes, OnBranch, But, Fields, PublicationTypes
  <2>3. CASE Crash
    BY <1>1, <2>3, CrashMoves DEF OneTypes, OnBranch, PublicationTypes
  <2>. QED
    BY <2>1, <2>2, <2>3
<1>. QED
  BY <1>1, <1>2 DEF PublicationTypes, OneTypes

\* Types are kept.
LEMMA TypesKept ==
  ASSUME PublicationTypes, [Next]_vars
  PROVE  PublicationTypes'
<1>1. ASSUME NEW e \in Execs, Inner(e)
      PROVE  PublicationTypes'
  BY <1>1, InnerTyped
<1>2. ASSUME NEW e \in Execs, Work(e) \/ Checkout(e) \/ WriteReport(e) \/ Commit(e)
                                \/ CheckoutDefaultAndClean(e) \/ CleanupFails(e)
      PROVE  PublicationTypes'
  BY <1>2, LocalTyped
<1>3. ASSUME NEW e \in Execs, Check(e) \/ ProfileUnread(e)
      PROVE  PublicationTypes'
  BY <1>3, CheckTyped
<1>4. ASSUME NEW e \in Execs, Push(e) \/ Create(e) \/ ReplyLost(e)
      PROVE  PublicationTypes'
  BY <1>4, RemoteTyped
<1>5. CASE (\E e \in Execs : StartCli(e)) \/ (\E c \in Configs : ChangeChecks(c)) \/ Crash
  BY <1>5, AllTyped
<1>6. CASE UNCHANGED vars
  BY <1>6 DEF vars, PublicationTypes, WorkingCopy, Holding
<1>. QED
  BY <1>1, <1>2, <1>3, <1>4, <1>5, <1>6 DEF Next, HandlerStep, Inner

\* They hold at first.
LEMMA TypesAtFirst == Init => PublicationTypes
<1>. SUFFICES ASSUME Init PROVE PublicationTypes
  OBVIOUS
<1>. DEFINE none == [k \in {Default} |-> {}]
            first(k) == [mode |-> k, pc |-> "idle", attempt |-> 1, made |-> FALSE,
                         branch |-> NoBranch, tries |-> 0, status |-> "pending",
                         override |-> {}, checks |-> Unchecked,
                         alone |-> FALSE, left |-> FALSE, told |-> TRUE, calm |-> FALSE]
<1>1. ASSUME NEW k \in Modes
      PROVE  first(k) \in ExecState /\ first(k).pc = "idle"
  BY Bounds DEF ExecState, NoBranch, Pcs
<1>2. PICK m \in [Execs -> Modes] : exec = [e \in Execs |-> first(m[e])]
  BY DEF Init
<1>. HIDE DEF first
<1>3. exec \in [Execs -> ExecState] /\ \A e \in Execs : exec[e].pc = "idle"
  BY <1>1, <1>2
<1>4. Holding(none) /\ none[Default] = {}
  BY Bounds DEF Holding, Default
<1>5. none \in Holdings /\ Default \in DOMAIN none /\ Default \in 0..MaxBranches
  BY <1>4, HoldingIs, Bounds DEF Default
<1>6. local = [head |-> Default, has |-> none, dirty |-> {}] /\ remote = none
      /\ config \in FirstConfigs /\ prs = {} /\ events = 0
  BY DEF Init
<1>. HIDE DEF none
<1>7. WorkingCopy(local)
  BY <1>5, <1>6 DEF WorkingCopy
<1>. QED
  BY <1>3, <1>4, <1>6, <1>7, PublicationAssumption DEF PublicationTypes, OnBranch

\* The steps of one execution, of all.
OwnStep(e) ==
  \/ Inner(e) \/ Work(e) \/ Checkout(e) \/ WriteReport(e) \/ Commit(e)
  \/ CheckoutDefaultAndClean(e) \/ CleanupFails(e) \/ Check(e) \/ ProfileUnread(e)
  \/ Push(e) \/ Create(e) \/ ReplyLost(e)
\* A step is one of an execution, or of all.
LEMMA StepIs ==
  ASSUME [Next]_vars
  PROVE  \/ \E e \in Execs : OwnStep(e)
         \/ \E e \in Execs : StartCli(e)
         \/ \E c \in Configs : ChangeChecks(c)
         \/ Crash
         \/ UNCHANGED vars
  BY DEF Next, HandlerStep, OwnStep, Inner

\* The bounds of the model, and the default branch at the remote: nothing is pushed to it.
Bounded == remote[Default] = {} /\ events \in 0..MaxEvents
\* Faults are counted up to MaxEvents, and a push goes to a branch of its own.
LEMMA BoundsKept ==
  ASSUME PublicationTypes, Bounded, [Next]_vars
  PROVE  Bounded'
<1>1. events' \in 0..MaxEvents
  <2>. DEFINE Q == events' = events \/ (events < MaxEvents /\ events' = events + 1)
  <2>1. ASSUME NEW e \in Execs, Inner(e)
        PROVE  Q
    BY <2>1 DEF Inner, Begin, NotToPublish, ResolveBranch, HasChanges, Store, Fail, NoDiff,
                CommandFails, AttemptFails, StatementFails, DispatchRefused, Elsewhere, NoFault, Fault
  <2>2. ASSUME NEW e \in Execs, OwnStep(e), ~Inner(e)
        PROVE  Q
    BY <2>2 DEF OwnStep, Work, Checkout, WriteReport, Commit, CheckoutDefaultAndClean, CleanupFails,
                Check, ProfileUnread, Push, Create, ReplyLost, Elsewhere, NoFault, Fault
  <2>3. (\E e \in Execs : StartCli(e)) \/ (\E c \in Configs : ChangeChecks(c)) \/ Crash
          \/ UNCHANGED vars => Q
    BY DEF StartCli, ChangeChecks, Crash, Elsewhere, NoFault, Fault, vars
  <2>4. Q
    BY <2>1, <2>2, <2>3, StepIs
  <2>. QED
    BY <2>4, Bounds DEF Bounded
<1>2. ASSUME NEW e \in Execs, Push(e)
      PROVE  remote'[Default] = remote[Default]
  <2>1. CASE Refused(e)
    BY <1>2, <2>1, PushMoves
  <2>2. CASE ~Refused(e)
    <3>1. exec[e].branch # Default /\ Default \in DOMAIN remote
      BY <1>2, Bounds DEF PublicationTypes, OnBranch, Push, Step, Default, Holding
    <3>. QED
      BY <1>2, <2>2, <3>1, PushedFacts
  <2>. QED
    BY <2>1, <2>2
<1>3. remote' = remote \/ \E e \in Execs : Push(e)
  <2>1. ASSUME NEW e \in Execs, OwnStep(e)
        PROVE  remote' = remote \/ Push(e)
    BY <2>1, InnerLeaves, CheckIs DEF OwnStep, Work, Checkout, WriteReport, Commit,
       CheckoutDefaultAndClean, CleanupFails, Create, ReplyLost
  <2>. QED
    BY <2>1, StepIs DEF StartCli, ChangeChecks, Crash, Elsewhere, vars
<1>. QED
  BY <1>1, <1>2, <1>3 DEF Bounded

\* The types, and the bounds with them, are an inductive invariant.
TypesInv == PublicationTypes /\ Bounded
\* Types and bounds, at first ...
LEMMA TypesInvAtFirst == Init => TypesInv
<1>1. Init => remote[Default] = {} /\ events = 0
  BY DEF Init
<1>2. 0 \in 0..MaxEvents
  BY Bounds
<1>. QED
  BY <1>1, <1>2, TypesAtFirst DEF TypesInv, Bounded
\* ... and from then on.
LEMMA TypesInvKept == TypesInv /\ [Next]_vars => TypesInv'
  BY TypesKept, BoundsKept DEF TypesInv

\* Every state has the types of the module: the working copy is on a branch it has, what
\* it holds are changes of executions, an execution that pushes is on a branch of its own,
\* attempts and retries are within their bounds, and nothing is ever pushed to the default
\* branch.
THEOREM PublicationTypesHold == Spec => [](TypesInv /\ TypeOK)
<1>3. TypesInv => TypeOK
  <2>. SUFFICES ASSUME TypesInv PROVE TypeOK
    OBVIOUS
  <2>1. \A e \in Execs : /\ exec[e].pc \in Pcs /\ exec[e].tries \in 0..RetryCount
                         /\ exec[e].attempt \in 1..MaxAttempts
                         /\ exec[e].branch \in Branches \cup {NoBranch}
    BY Bounds DEF TypesInv, PublicationTypes, ExecState, Branches, NoBranch
  <2>2. /\ local.head \in DOMAIN local.has /\ local.dirty \subseteq Changes
        /\ local.has \in [DOMAIN local.has -> SUBSET Changes]
    BY CopyHas DEF TypesInv, PublicationTypes, Holding
  <2>. QED
    BY <2>1, <2>2 DEF TypesInv, PublicationTypes, Holding, Bounded, TypeOK
<1>. QED
  BY TypesInvAtFirst, TypesInvKept, <1>3, PTL DEF Spec

-----------------------------------------------------------------------------
(* No execution comes back from its first attempt to publish.              *)

\* What an execution cannot change any more.
Settled(f) ==
  /\ exec'[f].pc \notin Before
  /\ But(exec[f], exec'[f], Fields \ {"branch", "made", "mode", "checks"})
  /\ exec'[f].pc \in Trying \cup {"store"} => exec[f].pc \in Trying \cup {"store"}
  /\ exec'[f].alone => exec[f].alone
  /\ exec'[f].calm => exec[f].calm /\ config' = config
\* The steps that change the execution only, past its commit ...
LEMMA InnerForward ==
  ASSUME PublicationTypes, NEW e \in Execs, Inner(e), exec[e].pc \notin Before
  PROVE  Settled(e)
<1>1. Store(e) \/ Fail(e) \/ AttemptFails(e) \/ StatementFails(e)
  BY DEF Inner, Before, Begin, NotToPublish, ResolveBranch, HasChanges, NoDiff, CommandFails,
         DispatchRefused, Step
<1>2. config' = config
  BY InnerLeaves
<1>3. CASE Store(e)
  BY <1>2, <1>3, StoreMoves DEF Settled, Becomes, But, Fields, Before, Trying
<1>4. CASE Fail(e) \/ StatementFails(e)
  BY <1>2, <1>4, FailMoves DEF Settled, Becomes, But, Fields, Before, Trying
<1>5. CASE AttemptFails(e)
  BY <1>2, <1>5, PlainMoves DEF Settled, Becomes, But, Fields, Before, Trying, AttemptFails
<1>. QED
  BY <1>1, <1>3, <1>4, <1>5
\* ... and the others.
LEMMA OuterForward ==
  ASSUME PublicationTypes, NEW e \in Execs, exec[e].pc \notin Before,
         Push(e) \/ Create(e) \/ ReplyLost(e) \/ CheckoutDefaultAndClean(e) \/ CleanupFails(e)
  PROVE  Settled(e)
<1>1. config' = config
  BY DEF Push, Create, ReplyLost, CheckoutDefaultAndClean, CleanupFails
<1>2. CASE Push(e)
  BY <1>1, <1>2, PushMoves DEF Settled, Becomes, But, Fields, Before, Trying, Push, Step
<1>3. CASE Create(e)
  BY <1>1, <1>3, CreateMoves DEF Settled, Becomes, But, Fields, Before, Trying, Create
<1>4. CASE ReplyLost(e)
  BY <1>1, <1>4, ReplyLostMoves DEF Settled, Becomes, But, Fields, Before, Trying, ReplyLost
<1>5. CASE CheckoutDefaultAndClean(e)
  <2>1. exec'[e].pc = "over" /\ Becomes(e, exec'[e], {"pc"})
    BY <1>5, PlainMoves DEF CheckoutDefaultAndClean, AfterCleanup, Before
  <2>. QED
    BY <1>1, <2>1 DEF Settled, Becomes, But, Fields, Before, Trying
<1>6. CASE CleanupFails(e)
  <2>1. exec'[e].pc = "over" /\ Becomes(e, exec'[e], {"pc", "left"})
    BY <1>6, CleanupFailsMoves DEF CleanupFails, AfterCleanup, Before
  <2>. QED
    BY <1>1, <2>1 DEF Settled, Becomes, But, Fields, Before, Trying
<1>. QED
  BY <1>2, <1>3, <1>4, <1>5, <1>6
\* A step of one execution leaves the others as they are.
LEMMA OthersStay ==
  ASSUME PublicationTypes, NEW e \in Execs, OwnStep(e)
  PROVE  /\ config' = config /\ exec' = [exec EXCEPT ![e] = exec'[e]] /\ exec'[e] \in ExecState
         /\ \A f \in Execs \ {e} : exec'[f] = exec[f]
<1>1. config' = config
  BY InnerLeaves, CheckIs DEF OwnStep, Work, Checkout, WriteReport, Commit, CheckoutDefaultAndClean,
     CleanupFails, Push, Create, ReplyLost
<1>2. exec \in [Execs -> ExecState] /\ exec' \in [Execs -> ExecState]
  BY InnerTyped, LocalTyped, CheckTyped, RemoteTyped DEF OwnStep, PublicationTypes
<1>3. \E y : exec' = [exec EXCEPT ![e] = y]
  <2>1. ASSUME Inner(e) PROVE \E y : exec' = [exec EXCEPT ![e] = y]
    BY <2>1, BeginMoves, NotToPublishMoves, ResolveBranchMoves, PlainMoves, StoreMoves, FailMoves,
       NoDiffMoves DEF Inner, Becomes
  <2>2. ASSUME Check(e) \/ ProfileUnread(e) PROVE \E y : exec' = [exec EXCEPT ![e] = y]
    BY <2>2, CheckIs DEF AfterChecks, Step
  <2>3. CASE Work(e) \/ Checkout(e) \/ WriteReport(e) \/ Commit(e) \/ CheckoutDefaultAndClean(e)
               \/ CleanupFails(e) \/ Push(e) \/ Create(e) \/ ReplyLost(e)
    BY <2>3, WorkMoves, PlainMoves, CommitMoves, CleanupFailsMoves, PushMoves, CreateMoves,
       ReplyLostMoves DEF Becomes
  <2>. QED
    BY <2>1, <2>2, <2>3 DEF OwnStep
<1>. QED
  BY <1>1, <1>2, <1>3
\* An execution past its checks and its commit stays past them: neither what it made nor
\* what its checks said nor its branch changes any more.
LEMMA Forward ==
  ASSUME PublicationTypes, [Next]_vars, NEW f \in Execs, exec[f].pc \notin Before
  PROVE  Settled(f)
<1>1. ASSUME NEW e \in Execs, OwnStep(e), e # f
      PROVE  Settled(f)
  BY <1>1, OthersStay DEF Settled, But, Fields
<1>2. ASSUME OwnStep(f)
      PROVE  Settled(f)
  <2>1. Inner(f) \/ Push(f) \/ Create(f) \/ ReplyLost(f) \/ CheckoutDefaultAndClean(f) \/ CleanupFails(f)
    <3>1. ~(Work(f) \/ Checkout(f) \/ WriteReport(f) \/ Commit(f))
      BY DEF Work, Checkout, WriteReport, Commit, Step, Before
    <3>2. ~(Check(f) \/ ProfileUnread(f))
      BY CheckIs DEF Before
    <3>. QED
      BY <1>2, <3>1, <3>2 DEF OwnStep
  <2>. QED
    BY <2>1, InnerForward, OuterForward
<1>3. ASSUME NEW e \in Execs, StartCli(e)
      PROVE  Settled(f)
  <2>1. e # f /\ config' = config
    BY <1>3 DEF StartCli, Before, Elsewhere
  <2>. QED
    BY <1>3, <2>1, StartCliMoves DEF Settled, But, Fields
<1>4. ASSUME NEW c \in Configs, ChangeChecks(c)
      PROVE  Settled(f)
  BY <1>4, ChangeChecksMoves DEF Settled, But, Fields
<1>5. CASE Crash
  <2>1. config' = config
    BY <1>5 DEF Crash
  <2>2. exec[f].pc # "cli"
    BY DEF Before
  <2>. QED
    BY <1>5, <2>1, <2>2, CrashMoves DEF Settled, But, Fields, Before, Trying
<1>6. CASE UNCHANGED vars
  BY <1>6 DEF vars, Settled, But, Fields
<1>. QED
  BY <1>1, <1>2, <1>3, <1>4, <1>5, <1>6, StepIs

\* A pull request is opened in one way: by an execution that is at that, for its branch,
\* when its branch has none; and the row is told, or is known not to have been.
Opens(e) ==
  /\ exec[e].pc = "create" /\ Creatable(exec[e].branch)
  /\ Becomes(e, exec'[e], {"pc", "tries", "told"})
  /\ \/ exec'[e].pc = "store"
     \/ exec'[e].pc \in {"push", "fail"} /\ ~exec'[e].told
  /\ prs' = prs \cup {PullRequest(e)}
\* No other step opens or closes one.
LEMMA PullRequestsGrow ==
  ASSUME PublicationTypes, [Next]_vars
  PROVE  prs' = prs \/ \E e \in Execs : Opens(e)
<1>1. ASSUME NEW e \in Execs, OwnStep(e), ~(Create(e) \/ ReplyLost(e))
      PROVE  prs' = prs
  BY <1>1, InnerLeaves, CheckIs DEF OwnStep, Work, Checkout, WriteReport, Commit,
     CheckoutDefaultAndClean, CleanupFails, Push
<1>2. ASSUME NEW e \in Execs, Create(e)
      PROVE  prs' = prs \/ Opens(e)
  BY <1>2, CreateMoves DEF Opens, Create, Becomes, But, Fields
<1>3. ASSUME NEW e \in Execs, ReplyLost(e)
      PROVE  Opens(e)
  BY <1>3, ReplyLostMoves DEF Opens, ReplyLost
<1>. QED
  BY <1>1, <1>2, <1>3, StepIs DEF StartCli, ChangeChecks, Crash, Elsewhere, vars

-----------------------------------------------------------------------------
(* One pull request each.                                                  *)

\* By Forward, and by what opening a pull request does.
LEMMA TriesKept ==
  ASSUME PublicationTypes, PublicationTypes', TriesForItsOwn, [Next]_vars
  PROVE  TriesForItsOwn'
<1>1. ASSUME NEW x \in prs
      PROVE  /\ exec'[x.by].pc \notin Before
             /\ exec'[x.by].pc \in Trying \cup {"store"} => exec'[x.by].branch = x.head
  <2>1. x.by \in Execs
    BY DEF PublicationTypes, PullRequests
  <2>2. /\ exec[x.by].pc \notin Before
        /\ exec[x.by].pc \in Trying \cup {"store"} => exec[x.by].branch = x.head
    BY DEF TriesForItsOwn
  <2>3. Settled(x.by)
    BY <2>1, <2>2, Forward
  <2>. QED
    BY <2>2, <2>3 DEF Settled, But, Fields
<1>2. ASSUME NEW e \in Execs, Opens(e)
      PROVE  exec'[e].pc \notin Before /\ exec'[e].branch = exec[e].branch
  BY <1>2 DEF Opens, Becomes, But, Fields, Before
<1>3. \A e \in Execs : PullRequest(e).by = e /\ PullRequest(e).head = exec[e].branch
  BY DEF PullRequest
<1>4. CASE prs' = prs
  BY <1>1, <1>4 DEF TriesForItsOwn
<1>5. ASSUME NEW e \in Execs, Opens(e)
      PROVE  TriesForItsOwn'
  BY <1>1, <1>2, <1>3, <1>5 DEF TriesForItsOwn, Opens
<1>. QED
  BY <1>4, <1>5, PullRequestsGrow

\* What makes it inductive: an execution tries again for the branch it has opened a pull
\* request of, and GitHub refuses that.
OnePullRequestInv == TypesInv /\ TriesForItsOwn /\ OnePullRequestEach

\* An execution opens one pull request at most, over all attempts and retries, lost answers
\* of GitHub and restarts of the worker, and no branch gets two, however many executions
\* share the working copy.
THEOREM OnePullRequestEachHolds == Spec => []OnePullRequestEach
<1>1. Init => OnePullRequestInv
  <2>1. Init => prs = {}
    BY DEF Init
  <2>. QED
    BY <2>1, TypesInvAtFirst DEF OnePullRequestInv, TriesForItsOwn, OnePullRequestEach
<1>2. OnePullRequestInv /\ [Next]_vars => OnePullRequestInv'
  <2>. SUFFICES ASSUME OnePullRequestInv, [Next]_vars PROVE OnePullRequestInv'
    OBVIOUS
  <2>1. TypesInv' /\ TriesForItsOwn'
    BY TypesInvKept, TriesKept DEF OnePullRequestInv, TypesInv
  <2>2. ASSUME NEW e \in Execs, Opens(e)
        PROVE  OnePullRequestEach'
    <3>1. \A y \in prs : y.by # e /\ y.head # exec[e].branch
      BY <2>2 DEF OnePullRequestInv, TriesForItsOwn, Opens, Creatable, Trying
    <3>2. PullRequest(e).by = e /\ PullRequest(e).head = exec[e].branch
      BY DEF PullRequest
    <3>. QED
      BY <2>2, <3>1, <3>2 DEF OnePullRequestInv, OnePullRequestEach, Opens
  <2>3. OnePullRequestEach'
    <3>1. CASE prs' = prs
      BY <3>1 DEF OnePullRequestInv, OnePullRequestEach
    <3>. QED
      BY <2>2, <3>1, PullRequestsGrow DEF OnePullRequestInv, TypesInv
  <2>. QED
    BY <2>1, <2>3 DEF OnePullRequestInv
<1>3. OnePullRequestInv => OnePullRequestEach
  BY DEF OnePullRequestInv
<1>. QED
  BY <1>1, <1>2, <1>3, PTL DEF Spec

-----------------------------------------------------------------------------
(* What the row tells.                                                     *)

\* Told, of one execution.
ToldOf(e) ==
  /\ exec[e].pc \notin {"clean", "over", "dead"} => exec[e].status # "published"
  /\ exec[e].pc \in Before => ~Opened(e)
  /\ exec[e].pc = "store" => Opened(e)
  /\ exec[e].pc \in Trying \cup {"fail"} /\ exec[e].told => ~Opened(e)
  /\ exec[e].pc \in {"clean", "over"} /\ exec[e].told => (exec[e].status = "published" <=> Opened(e))
\* Told is what ToldOf says of each.
LEMMA ToldOfEach == Told <=> \A e \in Execs : ToldOf(e)
  BY DEF Told, ToldOf

\* The steps that open nothing.
LEMMA InnerTold ==
  ASSUME PublicationTypes, NEW e \in Execs, Inner(e), ToldOf(e), Opened(e)' <=> Opened(e)
  PROVE  ToldOf(e)'
<1>1. CASE Begin(e)
  BY <1>1, BeginMoves DEF ToldOf, Begin, Becomes, But, Fields, Before, Trying
<1>2. CASE NotToPublish(e)
  BY <1>2, NotToPublishMoves DEF ToldOf, NotToPublish, Becomes, But, Fields, Before, Trying
<1>3. CASE ResolveBranch(e)
  BY <1>3, ResolveBranchMoves DEF ToldOf, ResolveBranch, Step, Becomes, But, Fields, Before, Trying
<1>4. CASE HasChanges(e)
  BY <1>4, PlainMoves DEF ToldOf, HasChanges, Step, WithoutDiff, Becomes, But, Fields, Before, Trying
<1>5. CASE Store(e)
  BY <1>5, StoreMoves DEF ToldOf, Store, Step, Becomes, But, Fields, Before, Trying
<1>6. CASE Fail(e) \/ StatementFails(e) \/ DispatchRefused(e)
  BY <1>6, FailMoves DEF ToldOf, Becomes, But, Fields, Before, Trying
<1>7. CASE NoDiff(e)
  BY <1>7, NoDiffMoves DEF ToldOf, NoDiff, Step, Becomes, But, Fields, Before, Trying
<1>8. CASE CommandFails(e)
  BY <1>8, PlainMoves DEF ToldOf, CommandFails, Becomes, But, Fields, Before, Trying
<1>9. CASE AttemptFails(e)
  BY <1>9, PlainMoves DEF ToldOf, AttemptFails, Becomes, But, Fields, Before, Trying
<1>. QED
  BY <1>1, <1>2, <1>3, <1>4, <1>5, <1>6, <1>7, <1>8, <1>9 DEF Inner
\* The steps that change the working copy or the remote.
LEMMA OuterTold ==
  ASSUME PublicationTypes, NEW e \in Execs, OwnStep(e), ~Inner(e), ~Create(e), ~ReplyLost(e),
         ToldOf(e), Opened(e)' <=> Opened(e)
  PROVE  ToldOf(e)'
<1>1. CASE Work(e)
  BY <1>1, WorkMoves DEF ToldOf, Becomes, But, Fields
<1>2. CASE Checkout(e) \/ WriteReport(e)
  BY <1>2, PlainMoves DEF ToldOf, Checkout, WriteReport, Step, Becomes, But, Fields, Before, Trying
<1>3. CASE Commit(e)
  BY <1>3, CommitMoves DEF ToldOf, Commit, Step, Becomes, But, Fields, Before, Trying
<1>4. CASE CheckoutDefaultAndClean(e)
  <2>1. /\ exec'[e].pc = IF exec[e].pc = "strict" THEN "nodiff" ELSE "over"
        /\ exec[e].pc \in {"strict", "clean"} /\ Becomes(e, exec'[e], {"pc"})
    BY <1>4, PlainMoves DEF CheckoutDefaultAndClean, AfterCleanup
  <2>. QED
    BY <2>1 DEF ToldOf, Becomes, But, Fields, Before, Trying
<1>5. CASE CleanupFails(e)
  <2>1. /\ exec'[e].pc = IF exec[e].pc = "strict" THEN "nodiff" ELSE "over"
        /\ exec[e].pc \in {"strict", "clean"} /\ Becomes(e, exec'[e], {"pc", "left"})
    BY <1>5, CleanupFailsMoves DEF CleanupFails, AfterCleanup
  <2>. QED
    BY <2>1 DEF ToldOf, Becomes, But, Fields, Before, Trying
<1>6. CASE Check(e) \/ ProfileUnread(e)
  <2>1. PICK r \in AllChecks : AfterChecks(e, r) /\ exec[e].pc = "check"
    BY <1>6, CheckIs
  <2>2. Becomes(e, exec'[e], {"pc", "checks", "override"}) /\ exec'[e].pc \in {"fail", "commit"}
    BY <2>1, ChecksMove
  <2>. QED
    BY <2>1, <2>2 DEF ToldOf, Becomes, But, Fields, Before, Trying
<1>7. CASE Push(e)
  BY <1>7, PushMoves DEF ToldOf, Push, Step, Becomes, But, Fields, Before, Trying
<1>. QED
  BY <1>1, <1>2, <1>3, <1>4, <1>5, <1>6, <1>7 DEF OwnStep
\* A pull request that is opened is told, or known not to have been.
LEMMA ToldKept ==
  ASSUME PublicationTypes, Told, [Next]_vars
  PROVE  Told'
<1>. SUFFICES ASSUME NEW f \in Execs PROVE ToldOf(f)'
  BY ToldOfEach DEF Told, ToldOf
<1>0. ToldOf(f)
  BY ToldOfEach
<1>1. ASSUME NEW e \in Execs, Opens(e)
      PROVE  ToldOf(f)'
  <2>1. CASE f = e
    <3>0. PullRequest(e) \in prs' /\ PullRequest(e).by = e
      BY <1>1 DEF Opens, PullRequest
    <3>1. Opened(f)'
      BY <2>1, <3>0 DEF Opened
    <3>2. exec'[f].status # "published" /\ exec'[f].pc \in {"store", "push", "fail"}
          /\ (exec'[f].pc \in {"push", "fail"} => ~exec'[f].told)
      BY <1>0, <1>1, <2>1 DEF ToldOf, Opens, Becomes, But, Fields
    <3>. QED
      BY <3>1, <3>2 DEF ToldOf, Before, Trying
  <2>2. CASE f # e
    <3>1. Opened(f)' <=> Opened(f)
      BY <1>1, <2>2 DEF Opens, Opened, PullRequest
    <3>2. exec'[f] = exec[f]
      BY <1>1, <2>2 DEF Opens, Becomes, PublicationTypes
    <3>. QED
      BY <1>0, <3>1, <3>2 DEF ToldOf
  <2>. QED
    BY <2>1, <2>2
<1>2. ASSUME prs' = prs
      PROVE  ToldOf(f)'
  <2>0. Opened(f)' <=> Opened(f)
    BY <1>2 DEF Opened
  <2>1. ASSUME NEW e \in Execs, OwnStep(e), e # f
        PROVE  ToldOf(f)'
    BY <1>0, <2>0, <2>1, OthersStay DEF ToldOf
  <2>2. ASSUME OwnStep(f), ~Create(f), ~ReplyLost(f)
        PROVE  ToldOf(f)'
    BY <1>0, <2>0, <2>2, InnerTold, OuterTold
  <2>3. ASSUME Create(f) \/ ReplyLost(f)
        PROVE  ToldOf(f)'
    <3>1. PullRequest(f).head = exec[f].branch
      BY DEF PullRequest
    <3>2. ~Creatable(exec[f].branch) \/ PullRequest(f) \notin prs
      BY <3>1 DEF Creatable
    <3>3. Becomes(f, exec'[f], {"pc", "tries"}) /\ exec'[f].pc \in {"push", "fail"}
      BY <1>2, <2>3, <3>2, CreateMoves, ReplyLostMoves
    <3>4. exec[f].pc = "create"
      BY <2>3 DEF Create, ReplyLost
    <3>. QED
      BY <1>0, <2>0, <3>3, <3>4 DEF ToldOf, Becomes, But, Fields, Before, Trying
  <2>4. ASSUME NEW e \in Execs, StartCli(e)
        PROVE  ToldOf(f)'
    <3>1. exec[e].pc = "idle"
      BY <2>4 DEF StartCli
    <3>. QED
      BY <1>0, <2>0, <2>4, <3>1, StartCliMoves DEF ToldOf, But, Fields, Before, Trying
  <2>5. ASSUME NEW c \in Configs, ChangeChecks(c)
        PROVE  ToldOf(f)'
    BY <1>0, <2>0, <2>5, ChangeChecksMoves DEF ToldOf, But, Fields
  <2>6. CASE Crash
    BY <1>0, <2>0, <2>6, CrashMoves DEF ToldOf, But, Fields, Before, Trying
  <2>7. CASE UNCHANGED vars
    BY <1>0, <2>7 DEF vars, ToldOf, Opened
  <2>. QED
    BY <2>1, <2>2, <2>3, <2>4, <2>5, <2>6, <2>7, StepIs
<1>. QED
  BY <1>1, <1>2, PullRequestsGrow

ToldInv == TypesInv /\ Told
\* What the row has been told is inductive with the types.
LEMMA ToldInvHolds == Spec => []ToldInv
<1>1. Init => ToldInv
  <2>1. Init => prs = {} /\ \A e \in Execs : exec[e].pc = "idle" /\ exec[e].status = "pending"
    BY DEF Init
  <2>. QED
    BY <2>1, TypesInvAtFirst DEF ToldInv, Told, Opened, Trying
<1>2. ToldInv /\ [Next]_vars => ToldInv'
  BY TypesInvKept, ToldKept DEF ToldInv, TypesInv
<1>. QED
  BY <1>1, <1>2, PTL DEF Spec

\* The row of a publication that is over says "published" exactly when its pull request
\* exists, whatever failed in between, unless the answer of GitHub or the statement that
\* stores it was lost: no retry opens a pull request that the row denies.
THEOREM RowTellsPullRequestHolds == Spec => []RowTellsPullRequest
<1>1. ToldInv => RowTellsPullRequest
  BY DEF ToldInv, Told, RowTellsPullRequest, Opened
<1>. QED
  BY <1>1, ToldInvHolds, PTL

-----------------------------------------------------------------------------
(* What the working copy holds.                                            *)

\* Only a handler at work takes a step of its own, and none changes how it was created or
\* whether it was alone.
LEMMA OwnStepFacts ==
  ASSUME PublicationTypes, NEW e \in Execs, OwnStep(e)
  PROVE  /\ exec[e].pc \notin Over \cup {"idle"} /\ exec'[e].pc # "idle"
         /\ exec'[e].mode = exec[e].mode /\ exec'[e].alone = exec[e].alone
<1>1. CASE Begin(e)
  <2>1. exec[e].pc = "cli"
    BY <1>1 DEF Begin
  <2>. QED
    BY <1>1, <2>1, BeginMoves DEF Becomes, But, Fields, Over
<1>2. CASE NotToPublish(e)
  BY <1>2, NotToPublishMoves DEF NotToPublish, Becomes, But, Fields, Over
<1>3. CASE ResolveBranch(e)
  BY <1>3, ResolveBranchMoves DEF ResolveBranch, Step, Becomes, But, Fields, Over
<1>4. CASE HasChanges(e) \/ WriteReport(e) \/ Checkout(e) \/ CommandFails(e) \/ AttemptFails(e)
  BY <1>4, PlainMoves DEF HasChanges, WriteReport, Checkout, CommandFails, AttemptFails, Step,
     WithoutDiff, Becomes, But, Fields, Over
<1>5. CASE Store(e)
  BY <1>5, StoreMoves DEF Store, Step, Becomes, But, Fields, Over
<1>6. CASE Fail(e) \/ StatementFails(e) \/ DispatchRefused(e)
  BY <1>6, FailMoves DEF Becomes, But, Fields, Over
<1>7. CASE NoDiff(e)
  <2>1. exec[e].pc = "nodiff"
    BY <1>7 DEF NoDiff, Step
  <2>. QED
    BY <1>7, <2>1, NoDiffMoves DEF Becomes, But, Fields, Over
<1>8. CASE Work(e)
  BY <1>8, WorkMoves DEF Work, Step, Becomes, But, Fields, Over
<1>9. CASE Commit(e)
  BY <1>9, CommitMoves DEF Commit, Step, Becomes, But, Fields, Over
<1>10. CASE CheckoutDefaultAndClean(e)
  <2>1. exec[e].pc \in {"strict", "clean"} /\ AfterCleanup(exec[e].pc) \in {"nodiff", "over"}
    BY <1>10 DEF CheckoutDefaultAndClean, AfterCleanup
  <2>. QED
    BY <1>10, <2>1, PlainMoves DEF Becomes, But, Fields, Over
<1>11. CASE CleanupFails(e)
  <2>1. exec[e].pc \in {"strict", "clean"} /\ AfterCleanup(exec[e].pc) \in {"nodiff", "over"}
    BY <1>11 DEF CleanupFails, AfterCleanup
  <2>. QED
    BY <1>11, <2>1, CleanupFailsMoves DEF Becomes, But, Fields, Over
<1>12. CASE Check(e) \/ ProfileUnread(e)
  <2>1. PICK r \in AllChecks : AfterChecks(e, r) /\ exec[e].pc = "check"
    BY <1>12, CheckIs
  <2>2. Becomes(e, exec'[e], {"pc", "checks", "override"}) /\ exec'[e].pc \in {"fail", "commit"}
    BY <2>1, ChecksMove
  <2>. QED
    BY <2>1, <2>2 DEF Becomes, But, Fields, Over
<1>13. CASE Push(e)
  BY <1>13, PushMoves DEF Push, Step, Becomes, But, Fields, Over
<1>14. CASE Create(e)
  BY <1>14, CreateMoves DEF Create, Becomes, But, Fields, Over
<1>15. CASE ReplyLost(e)
  BY <1>15, ReplyLostMoves DEF ReplyLost, Becomes, But, Fields, Over
<1>. QED
  BY <1>1, <1>2, <1>3, <1>4, <1>5, <1>6, <1>7, <1>8, <1>9, <1>10, <1>11, <1>12, <1>13, <1>14, <1>15
     DEF OwnStep, Inner

\* An execution leaves the working copy clean, or is known to have left it as it was.
LEMMA CleansUp ==
  ASSUME PublicationTypes, NEW e \in Execs, OwnStep(e), exec'[e].pc \in {"idle", "nodiff"} \cup Over
  PROVE  \/ CheckoutDefaultAndClean(e)
         \/ exec'[e].left
         \/ exec[e].pc = "nodiff" /\ local' = local /\ exec'[e].left = exec[e].left
<1>1. CASE NotToPublish(e) \/ CleanupFails(e)
  BY <1>1, NotToPublishMoves, CleanupFailsMoves
<1>2. CASE NoDiff(e)
  <2>1. exec[e].pc = "nodiff"
    BY <1>2 DEF NoDiff, Step
  <2>2. local' = local
    BY <1>2, InnerLeaves DEF Inner
  <2>3. exec'[e].left = exec[e].left
    BY <1>2, NoDiffMoves DEF Becomes, But, Fields
  <2>. QED
    BY <2>1, <2>2, <2>3
<1>3. CASE DispatchRefused(e)
  <2>1. exec[e].pc = "nodiff"
    BY <1>3 DEF DispatchRefused, Step
  <2>2. local' = local
    BY <1>3, InnerLeaves DEF Inner
  <2>3. exec'[e].left = exec[e].left
    BY <1>3, <2>1, FailMoves DEF Becomes, But, Fields
  <2>. QED
    BY <2>1, <2>2, <2>3
<1>4. CASE Work(e)
  BY <1>4, WorkMoves DEF Work, Step, Becomes, But, Fields, Over
<1>5. CASE Begin(e) \/ ResolveBranch(e) \/ HasChanges(e) \/ Store(e) \/ CommandFails(e) \/ AttemptFails(e)
  BY <1>5, BeginMoves, ResolveBranchMoves, PlainMoves, StoreMoves DEF WithoutDiff, Over
<1>6. CASE Fail(e) \/ StatementFails(e)
  BY <1>6, FailMoves DEF Over, Fail, StatementFails, Step
<1>7. CASE Checkout(e) \/ WriteReport(e) \/ Commit(e)
  BY <1>7, PlainMoves, CommitMoves DEF Over
<1>8. CASE Check(e) \/ ProfileUnread(e)
  BY <1>8, CheckIs, ChecksMove DEF Over
<1>9. CASE Push(e) \/ Create(e) \/ ReplyLost(e)
  BY <1>9, PushMoves, CreateMoves, ReplyLostMoves DEF Over
<1>. QED
  BY <1>1, <1>2, <1>3, <1>4, <1>5, <1>6, <1>7, <1>8, <1>9 DEF OwnStep, Inner
\* The last one at work has cleaned up, or is known to have left something.
LEMMA CleanKept ==
  ASSUME PublicationTypes, CleanBetween, [Next]_vars
  PROVE  CleanBetween'
<1>1. \A e \in Execs : exec[e].pc = "idle" => ~exec[e].made
  BY DEF CleanBetween
<1>2. AtWork = {} /\ (\A e \in Execs : ~exec[e].left) => Here = {} /\ local.dirty = {}
  BY DEF CleanBetween, NothingHere, Here
<1>. SUFFICES /\ \A e \in Execs : exec'[e].pc = "idle" => ~exec'[e].made
              /\ AtWork' = {} /\ (\A e \in Execs : ~exec'[e].left) => Here' = {} /\ local'.dirty = {}
  BY DEF CleanBetween, NothingHere, Here
<1>3. ASSUME NEW e \in Execs, OwnStep(e)
      PROVE  /\ \A f \in Execs : exec'[f].pc = "idle" => ~exec'[f].made
             /\ AtWork' = {} /\ (\A f \in Execs : ~exec'[f].left) => Here' = {} /\ local'.dirty = {}
  <2>1. \A f \in Execs \ {e} : exec'[f] = exec[f]
    BY <1>3, OthersStay
  <2>2. \A f \in Execs : exec'[f].pc = "idle" => ~exec'[f].made
    BY <1>1, <1>3, <2>1, OwnStepFacts
  <2>3. ASSUME AtWork' = {}, \A f \in Execs : ~exec'[f].left
        PROVE  Here' = {} /\ local'.dirty = {}
    <3>1. exec'[e].pc \in {"idle", "nodiff"} \cup Over
      BY <2>3 DEF AtWork
    <3>2. CASE CheckoutDefaultAndClean(e)
      BY <3>2, LocalMoves DEF PublicationTypes, ExecState
    <3>3. CASE exec[e].pc = "nodiff" /\ local' = local /\ exec'[e].left = exec[e].left
      <4>1. AtWork = {} /\ \A f \in Execs : ~exec[f].left
        BY <2>1, <2>3, <3>3 DEF AtWork
      <4>. QED
        BY <1>2, <3>3, <4>1 DEF Here
    <3>. QED
      BY <1>3, <2>3, <3>1, <3>2, <3>3, CleansUp
  <2>. QED
    BY <2>2, <2>3
<1>4. ASSUME NEW e \in Execs, StartCli(e)
      PROVE  /\ \A f \in Execs : exec'[f].pc = "idle" => ~exec'[f].made
             /\ AtWork' # {}
  BY <1>1, <1>4, StartCliMoves DEF AtWork, But, Fields, Over
<1>5. ASSUME NEW c \in Configs, ChangeChecks(c)
      PROVE  /\ \A f \in Execs : exec'[f].pc = "idle" => ~exec'[f].made
             /\ AtWork' = AtWork /\ local' = local /\ \A f \in Execs : exec'[f].left = exec[f].left
  <2>1. \A f \in Execs : /\ exec'[f].pc = exec[f].pc /\ exec'[f].made = exec[f].made
                         /\ exec'[f].left = exec[f].left
    BY <1>5, ChangeChecksMoves DEF But, Fields
  <2>2. local' = local
    BY <1>5 DEF ChangeChecks
  <2>. QED
    BY <1>1, <2>1, <2>2 DEF AtWork
<1>6. ASSUME Crash
      PROVE  /\ \A f \in Execs : exec'[f].pc = "idle" => ~exec'[f].made
             /\ \E f \in Execs : exec'[f].left
  <2>1. exec' = [f \in Execs |->
          IF f \notin ActiveExecs THEN exec[f]
          ELSE IF exec[f].pc = "cli" THEN [To(f, "idle") EXCEPT !.made = FALSE, !.left = TRUE]
          ELSE [To(f, "dead") EXCEPT !.left = TRUE]]
    BY <1>6 DEF Crash
  <2>2. \A f \in Execs : exec[f] \in ExecState
    BY DEF PublicationTypes
  <2>3. ASSUME NEW f \in Execs, exec'[f].pc = "idle"
        PROVE  ~exec'[f].made
    <3>1. exec[f] \in ExecState
      BY <2>2
    <3>. QED
      BY <1>1, <2>1, <2>3, <3>1 DEF To, ExecState
  <2>4. PICK f \in Execs : f \in ActiveExecs
    BY <1>6 DEF Crash, ActiveExecs
  <2>5. exec'[f].left
    BY <1>6, <2>4, CrashMoves
  <2>. QED
    BY <2>3, <2>5
<1>7. CASE UNCHANGED vars
  BY <1>1, <1>2, <1>7 DEF vars, AtWork, Here
<1>. QED
  BY <1>2, <1>3, <1>4, <1>5, <1>6, <1>7, StepIs DEF Here

\* The steps of a handler that change neither the working copy nor the remote.
LEMMA InnerHolds ==
  ASSUME PublicationTypes, NEW e \in Execs, Inner(e), HoldsOf(e)
  PROVE  HoldsOf(e)'
<1>0. local' = local /\ remote' = remote
  BY InnerLeaves
<1>1. CASE Begin(e)
  <2>1. exec[e].pc = "cli"
    BY <1>1 DEF Begin
  <2>. QED
    BY <1>0, <1>1, <2>1, BeginMoves DEF HoldsOf, Uncommitted, Becomes, But, Fields, Before
<1>2. CASE NotToPublish(e)
  BY <1>2, NotToPublishMoves DEF HoldsOf, Before
<1>3. CASE ResolveBranch(e)
  <2>1. exec[e].pc = "branch"
    BY <1>3 DEF ResolveBranch, Step
  <2>. QED
    BY <1>0, <1>3, <2>1, ResolveBranchMoves DEF HoldsOf, Uncommitted, Becomes, But, Fields, Before
<1>4. CASE HasChanges(e)
  <2>1. exec[e].pc = "changes"
    BY <1>4 DEF HasChanges, Step
  <2>2. exec'[e].made = exec[e].made /\ exec'[e].mode = exec[e].mode
    BY <1>4, PlainMoves DEF Becomes, But, Fields
  <2>3. exec'[e].pc = IF local.dirty # {} THEN "check"
                      ELSE IF exec[e].mode = "strict" THEN "strict" ELSE "report"
    BY <1>4, PlainMoves DEF WithoutDiff
  <2>4. /\ local.has[local.head] = {} /\ local.dirty = Uncommitted(e) /\ exec[e].mode # "plan"
    BY <2>1 DEF HoldsOf, Before
  <2>5. local.dirty # {} <=> exec[e].made
    BY <2>4 DEF Uncommitted
  <2>. QED
    BY <1>0, <2>2, <2>3, <2>4, <2>5 DEF HoldsOf, Uncommitted, Before
<1>5. CASE Store(e)
  BY <1>5, StoreMoves DEF HoldsOf, Before
<1>6. CASE Fail(e) \/ StatementFails(e) \/ DispatchRefused(e)
  BY <1>6, FailMoves DEF HoldsOf, Before
<1>7. CASE NoDiff(e)
  <2>1. exec[e].pc = "nodiff"
    BY <1>7 DEF NoDiff, Step
  <2>. QED
    BY <1>0, <1>7, <2>1, NoDiffMoves DEF HoldsOf, Uncommitted, Before
<1>8. CASE CommandFails(e)
  BY <1>8, PlainMoves DEF HoldsOf, Before
<1>9. CASE AttemptFails(e)
  <2>1. exec[e].pc \in {"push", "create"}
    BY <1>9 DEF AttemptFails
  <2>. QED
    BY <1>0, <1>9, <2>1, PlainMoves DEF HoldsOf, Made, Becomes, But, Fields, Before
<1>. QED
  BY <1>1, <1>2, <1>3, <1>4, <1>5, <1>6, <1>7, <1>8, <1>9 DEF Inner

\* The steps that change the one or the other.
LEMMA OuterHolds ==
  ASSUME PublicationTypes, NEW e \in Execs, OwnStep(e), ~Inner(e), HoldsOf(e)
  PROVE  HoldsOf(e)'
<1>0. WorkingCopy(local) /\ exec[e].branch \in 0..MaxBranches /\ exec[e] \in ExecState
  BY DEF PublicationTypes, ExecState
<1>1. CASE Work(e)
  <2>1. exec[e].pc = "cli" /\ exec'[e].pc = "cli" /\ exec'[e].made
    BY <1>1, WorkMoves DEF Work, Step, Becomes, But, Fields
  <2>2. Here = {} /\ local.dirty \subseteq {Code(e)}
    BY <2>1 DEF HoldsOf, Uncommitted, Here, Before
  <2>3. Here' = {} /\ local'.dirty = {Code(e)}
    BY <1>0, <1>1, <2>2, LocalMoves
  <2>. QED
    BY <2>1, <2>3 DEF HoldsOf, Uncommitted, Here
<1>2. CASE Checkout(e)
  <2>1. exec[e].pc = "checkout"
    BY <1>2 DEF Checkout, Step
  <2>2. /\ exec'[e].pc \in {"fail", "report", "changes"}
        /\ exec'[e].pc = "report" => exec[e].mode = "plan"
        /\ exec'[e].pc = "changes" => exec[e].mode # "plan"
        /\ exec'[e].made = exec[e].made /\ exec'[e].mode = exec[e].mode
    BY <1>2, PlainMoves DEF Becomes, But, Fields
  <2>3. Here = {} /\ local.dirty = Uncommitted(e)
    BY <2>1 DEF HoldsOf, Here, Before
  <2>4. Here' = Here /\ local'.dirty = local.dirty
    BY <1>0, <1>2, LocalMoves
  <2>. QED
    BY <2>2, <2>3, <2>4 DEF HoldsOf, Uncommitted, Here, Before
<1>3. CASE WriteReport(e)
  <2>1. exec[e].pc = "report"
    BY <1>3 DEF WriteReport, Step
  <2>2. exec'[e].pc = "commit" /\ exec'[e].made = exec[e].made /\ exec'[e].mode = exec[e].mode
    BY <1>3, PlainMoves DEF Becomes, But, Fields
  <2>3. Here = {} /\ local.dirty = Uncommitted(e) /\ (exec[e].mode = "plan" \/ ~exec[e].made)
    BY <2>1 DEF HoldsOf, Here, Before
  <2>4. Here' = Here /\ local'.dirty = local.dirty \cup {Report(e)}
    BY <1>0, <1>3, LocalMoves
  <2>5. local'.dirty = Made(e)'
    BY <2>2, <2>3, <2>4 DEF Made, Uncommitted
  <2>. QED
    BY <2>2, <2>3, <2>4, <2>5 DEF HoldsOf, Here, Before
<1>4. CASE Commit(e)
  <2>1. exec[e].pc = "commit"
    BY <1>4 DEF Commit, Step
  <2>2. Here = {} /\ local.dirty = Made(e)
    BY <2>1 DEF HoldsOf, Here, Before
  <2>3. CASE local.dirty = {}
    BY <1>4, <2>3, CommitMoves DEF HoldsOf, Before
  <2>4. CASE local.dirty # {}
    <3>1. exec'[e].pc = "push" /\ exec'[e].made = exec[e].made /\ exec'[e].mode = exec[e].mode
      BY <1>4, <2>4, CommitMoves DEF Becomes, But, Fields
    <3>2. Here' = Here \cup local.dirty
      BY <1>0, <1>4, <2>4, LocalMoves
    <3>3. Here' = Made(e)'
      BY <2>2, <3>1, <3>2 DEF Made
    <3>. QED
      BY <3>1, <3>3 DEF HoldsOf, Here, Before
  <2>. QED
    BY <2>3, <2>4
<1>5. CASE CheckoutDefaultAndClean(e) \/ CleanupFails(e)
  <2>1. /\ exec[e].pc \in {"clean", "strict"}
        /\ exec'[e].pc = IF exec[e].pc = "strict" THEN "nodiff" ELSE "over"
    BY <1>5, PlainMoves, CleanupFailsMoves DEF CheckoutDefaultAndClean, CleanupFails, AfterCleanup
  <2>2. exec'[e].made = exec[e].made /\ exec'[e].mode = exec[e].mode
    BY <1>5, PlainMoves, CleanupFailsMoves DEF Becomes, But, Fields
  <2>3. CASE exec[e].pc = "clean"
    BY <2>1, <2>3 DEF HoldsOf, Before
  <2>4. CASE exec[e].pc = "strict"
    <3>1. Here = {} /\ local.dirty = {} /\ ~exec[e].made /\ exec[e].mode # "plan"
      BY <2>4 DEF HoldsOf, Uncommitted, Here, Before
    <3>2. Here' = {} /\ local'.dirty = {}
      BY <1>0, <1>5, <3>1, LocalMoves
    <3>. QED
      BY <2>1, <2>2, <2>4, <3>1, <3>2 DEF HoldsOf, Uncommitted, Here, Before
  <2>. QED
    BY <2>1, <2>3, <2>4
<1>6. CASE Check(e) \/ ProfileUnread(e)
  <2>1. PICK r \in AllChecks : /\ AfterChecks(e, r) /\ exec[e].pc = "check"
                               /\ UNCHANGED <<config, local, remote, prs>>
    BY <1>6, CheckIs
  <2>2. Becomes(e, exec'[e], {"pc", "checks", "override"}) /\ exec'[e].pc \in {"fail", "commit"}
    BY <2>1, ChecksMove
  <2>3. Here = {} /\ local.dirty = Uncommitted(e) /\ exec[e].made /\ exec[e].mode # "plan"
    BY <2>1 DEF HoldsOf, Here, Before
  <2>4. local.dirty = Made(e)' /\ exec'[e].mode = exec[e].mode
    BY <2>2, <2>3 DEF Made, Uncommitted, Becomes, But, Fields
  <2>. QED
    BY <2>1, <2>2, <2>3, <2>4 DEF HoldsOf, Here, Before
<1>7. CASE Push(e)
  <2>1. exec[e].pc = "push" /\ local' = local
    BY <1>7 DEF Push, Step
  <2>2. Here = Made(e)
    BY <2>1 DEF HoldsOf, Here
  <2>3. exec'[e].made = exec[e].made /\ exec'[e].mode = exec[e].mode /\ exec'[e].branch = exec[e].branch
    BY <1>7, PushMoves DEF Becomes, But, Fields
  <2>4. Here' = Made(e)'
    BY <2>1, <2>2, <2>3 DEF Made, Here
  <2>5. CASE Refused(e)
    BY <1>7, <2>4, <2>5, PushMoves DEF HoldsOf, Here, Before
  <2>6. CASE ~Refused(e)
    <3>1. remote'[exec[e].branch] = Here /\ exec'[e].pc = "create"
      BY <1>7, <2>6, PushedFacts, PushMoves
    <3>. QED
      BY <2>1, <2>3, <2>4, <3>1 DEF HoldsOf, Here, Before
  <2>. QED
    BY <2>5, <2>6
<1>8. CASE Create(e) \/ ReplyLost(e)
  <2>1. exec[e].pc = "create" /\ local' = local
    BY <1>8 DEF Create, ReplyLost
  <2>2. /\ exec'[e].pc \in {"store", "push", "fail"}
        /\ exec'[e].made = exec[e].made /\ exec'[e].mode = exec[e].mode
    BY <1>8, CreateMoves, ReplyLostMoves DEF Becomes, But, Fields
  <2>3. Here = Made(e)
    BY <2>1 DEF HoldsOf, Here
  <2>4. Here' = Made(e)'
    BY <2>1, <2>2, <2>3 DEF Made, Here
  <2>. QED
    BY <2>2, <2>4 DEF HoldsOf, Here, Before
<1>. QED
  BY <1>1, <1>2, <1>3, <1>4, <1>5, <1>6, <1>7, <1>8 DEF OwnStep

\* An execution is alone until another begins, and what it finds is clean.
LEMMA HoldsKept ==
  ASSUME PublicationTypes, CleanBetween, HoldsItsOwn, [Next]_vars
  PROVE  HoldsItsOwn'
<1>. SUFFICES ASSUME NEW f \in Execs, exec'[f].pc \notin Over \cup {"idle"}, exec'[f].alone
              PROVE  /\ \A g \in Execs \ {f} : exec'[g].pc \in Over \cup {"idle"}
                     /\ HoldsOf(f)'
  BY DEF HoldsItsOwn, ActiveExecs
<1>0. exec[f].pc \notin Over \cup {"idle"} /\ exec[f].alone =>
        (\A g \in Execs \ {f} : exec[g].pc \in Over \cup {"idle"}) /\ HoldsOf(f)
  BY DEF HoldsItsOwn, ActiveExecs
<1>1. ASSUME NEW e \in Execs, OwnStep(e)
      PROVE  /\ \A g \in Execs \ {f} : exec'[g].pc \in Over \cup {"idle"}
             /\ HoldsOf(f)'
  <2>1. /\ exec[e].pc \notin Over \cup {"idle"} /\ exec'[e].alone = exec[e].alone
        /\ \A g \in Execs \ {e} : exec'[g] = exec[g]
    BY <1>1, OwnStepFacts, OthersStay
  <2>2. e = f
    BY <1>0, <2>1
  <2>3. HoldsOf(f) /\ \A g \in Execs \ {f} : exec'[g].pc \in Over \cup {"idle"}
    BY <1>0, <2>1, <2>2
  <2>. QED
    BY <1>1, <2>2, <2>3, InnerHolds, OuterHolds
<1>2. ASSUME NEW e \in Execs, StartCli(e)
      PROVE  /\ \A g \in Execs \ {f} : exec'[g].pc \in Over \cup {"idle"}
             /\ HoldsOf(f)'
  <2>0. exec[e].pc = "idle"
    BY <1>2 DEF StartCli
  <2>1. exec'[e].pc = "cli" /\ exec'[e].made = exec[e].made
    BY <1>2, StartCliMoves DEF But, Fields
  <2>a. \A g \in Execs \ {e} : exec'[g].pc = exec[g].pc
    BY <1>2, StartCliMoves DEF But, Fields
  <2>b. \A g \in Execs \ {e} : exec'[g].alone => g \notin ActiveExecs
    BY <1>2, StartCliMoves
  <2>2. e = f
    BY <2>a, <2>b DEF ActiveExecs
  <2>3. ActiveExecs = {} /\ \A g \in Execs : ~exec[g].left
    BY <1>2, <2>2, StartCliMoves
  <2>4. AtWork = {}
    BY <2>3 DEF AtWork, ActiveExecs
  <2>5. local.has[local.head] = {} /\ local.dirty = {} /\ ~exec[f].made
    BY <2>0, <2>2, <2>3, <2>4 DEF CleanBetween, NothingHere
  <2>6. local' = local
    BY <1>2 DEF StartCli, Elsewhere
  <2>7. HoldsOf(f)'
    BY <2>1, <2>2, <2>5, <2>6 DEF HoldsOf, Uncommitted
  <2>8. \A g \in Execs \ {f} : exec'[g].pc \in Over \cup {"idle"}
    BY <2>a, <2>2, <2>3 DEF ActiveExecs
  <2>. QED
    BY <2>7, <2>8
<1>3. ASSUME NEW c \in Configs, ChangeChecks(c)
      PROVE  /\ \A g \in Execs \ {f} : exec'[g].pc \in Over \cup {"idle"}
             /\ HoldsOf(f)'
  <2>1. \A g \in Execs : But(exec[g], exec'[g], {"calm"})
    BY <1>3, ChangeChecksMoves
  <2>2. \A g \in Execs : /\ exec'[g].pc = exec[g].pc /\ exec'[g].alone = exec[g].alone
                         /\ exec'[g].made = exec[g].made /\ exec'[g].mode = exec[g].mode
                         /\ exec'[g].branch = exec[g].branch
    BY <2>1 DEF But, Fields
  <2>3. local' = local /\ remote' = remote
    BY <1>3 DEF ChangeChecks
  <2>. QED
    BY <1>0, <2>2, <2>3 DEF HoldsOf, Uncommitted, Made
<1>4. CASE Crash
  BY <1>4, CrashMoves DEF ActiveExecs, Over
<1>5. CASE UNCHANGED vars
  BY <1>0, <1>5 DEF vars, HoldsOf, Uncommitted, Made
<1>. QED
  BY <1>1, <1>2, <1>3, <1>4, <1>5, StepIs

\* The pull request of an execution that had the working copy to itself.
HoldsMade == \A x \in prs : exec[x.by].alone => x.holds = Made(x.by)
\* It was opened with what the branch held, and the execution makes nothing any more.
LEMMA HoldsMadeKept ==
  ASSUME PublicationTypes, TriesForItsOwn, HoldsItsOwn, HoldsMade, [Next]_vars
  PROVE  HoldsMade'
<1>1. ASSUME NEW x \in prs, exec'[x.by].alone
      PROVE  x.holds = Made(x.by)'
  <2>1. x.by \in Execs /\ exec[x.by].pc \notin Before
    BY DEF PublicationTypes, PullRequests, TriesForItsOwn
  <2>2. Settled(x.by)
    BY <2>1, Forward
  <2>3. x.holds = Made(x.by)
    BY <1>1, <2>2 DEF Settled, HoldsMade
  <2>4. exec'[x.by].made = exec[x.by].made /\ exec'[x.by].mode = exec[x.by].mode
    BY <2>2 DEF Settled, But, Fields
  <2>. QED
    BY <2>3, <2>4 DEF Made
<1>2. ASSUME NEW e \in Execs, Opens(e), exec'[e].alone
      PROVE  PullRequest(e).holds = Made(e)'
  <2>1. /\ exec[e].pc = "create" /\ exec'[e].alone = exec[e].alone
        /\ exec'[e].made = exec[e].made /\ exec'[e].mode = exec[e].mode
    BY <1>2 DEF Opens, Becomes, But, Fields
  <2>2. e \in ActiveExecs
    BY <2>1 DEF ActiveExecs, Over
  <2>3. remote[exec[e].branch] = Made(e)
    BY <1>2, <2>1, <2>2 DEF HoldsItsOwn, HoldsOf
  <2>4. PullRequest(e).holds = remote[exec[e].branch]
    BY DEF PullRequest
  <2>. QED
    BY <2>1, <2>3, <2>4 DEF Made
<1>3. \A e \in Execs : PullRequest(e).by = e
  BY DEF PullRequest
<1>4. ASSUME NEW e \in Execs, Opens(e)
      PROVE  HoldsMade'
  BY <1>1, <1>2, <1>3, <1>4 DEF HoldsMade, Opens
<1>5. CASE prs' = prs
  BY <1>1, <1>5 DEF HoldsMade
<1>. QED
  BY <1>4, <1>5, PullRequestsGrow

\* What makes it inductive: where the working copy is clean, and what it and the branch hold
\* at each step of the execution that is alone in it.
HoldsInv == TypesInv /\ TriesForItsOwn /\ CleanBetween /\ HoldsItsOwn /\ HoldsMade
\* The working copy is clean at first ...
LEMMA HoldsInvAtFirst == Init => HoldsInv
<1>. SUFFICES ASSUME Init PROVE HoldsInv
  OBVIOUS
<1>1. \A e \in Execs : exec[e].pc = "idle" /\ ~exec[e].made
  BY DEF Init
<1>2. prs = {} /\ local.dirty = {} /\ local.head = Default /\ local.has = [k \in {Default} |-> {}]
  BY DEF Init
<1>3. NothingHere
  BY <1>2 DEF NothingHere
<1>. QED
  BY <1>1, <1>2, <1>3, TypesInvAtFirst
     DEF HoldsInv, TriesForItsOwn, CleanBetween, HoldsItsOwn, HoldsMade, ActiveExecs
\* ... and each part is kept by the ones before it.
LEMMA HoldsInvKept == HoldsInv /\ [Next]_vars => HoldsInv'
  BY TypesInvKept, TriesKept, CleanKept, HoldsKept, HoldsMadeKept DEF HoldsInv, TypesInv

\* The pull request of an execution that had the working copy to itself, after executions
\* that had been through their clean-up, holds exactly what it made: neither the changes
\* another left uncommitted, nor a commit of another, whatever failed on the way.
THEOREM OwnChangesOnlyHolds == Spec => []OwnChangesOnly
<1>1. HoldsInv => OwnChangesOnly
  BY DEF HoldsInv, HoldsMade, Made, OwnChangesOnly
<1>. QED
  BY <1>1, HoldsInvAtFirst, HoldsInvKept, PTL DEF Spec

-----------------------------------------------------------------------------
(* What the checks have said.                                              *)

\* A configuration has one valid override and one default at most, with presets it knows.
LEMMA ConfigFacts ==
  ASSUME NEW c \in Configs
  PROVE  /\ \A p, q \in Normalized(c.override) : p = q
         /\ \A p, q \in c.default : p = q
         /\ \A p \in Normalized(c.override) \cup c.default :
              \A i \in DOMAIN p.steps : p.steps[i].preset \in Presets
<1>1. /\ \A p \in c.override \cup c.default : RawProfile(p)
      /\ \A p, q \in c.override : p = q
      /\ \A p, q \in c.default : p = q
      /\ c.default = Normalized(c.default)
  BY PublicationAssumption
<1>2. ASSUME NEW raw, \A p \in raw : RawProfile(p), NEW n \in Normalized(raw)
      PROVE  /\ \A i \in DOMAIN n.steps : n.steps[i].preset \in Presets
             /\ \E p \in raw : n = [p EXCEPT !.mode = IF p.mode = "unset" THEN DefaultMode ELSE p.mode]
  <2>1. PICK p \in raw : /\ n = [p EXCEPT !.mode = IF p.mode = "unset" THEN DefaultMode ELSE p.mode]
                         /\ ValidSteps(p.steps)
    BY <1>2 DEF Normalized
  <2>2. n.steps = p.steps
    BY <1>2, <2>1 DEF RawProfile
  <2>. QED
    BY <2>1, <2>2 DEF ValidSteps
<1>3. \A p, q \in Normalized(c.override) : p = q
  BY <1>1, <1>2
<1>. QED
  BY <1>1, <1>2, <1>3

\* The outcomes of no check, of the command and of a profile.
LEMMA SkippedIs ==
  ASSUME NEW m
  PROVE  Skipped(m).status = "skipped" /\ Skipped(m).passed = {}
  BY DEF Skipped, Result
\* The command of the environment blocks when it fails.
LEMMA LegacyIs ==
  ASSUME NEW l, NEW r \in LegacyResults(l), ~Blocks(r)
  PROVE  r.passed = {"legacy"} /\ r.status = "passed"
<1>1. r = [status |-> "failed", mode |-> "block", passed |-> {}]
        \/ r = [status |-> "passed", mode |-> "block", passed |-> {"legacy"}]
  BY DEF LegacyResults, Result
<1>2. ~(r.status = "failed" /\ r.mode = "block")
  BY DEF Blocks
<1>. QED
  BY <1>1, <1>2
\* A profile whose commands run passes all of them, or fails in its own mode.
LEMMA ProfileIs ==
  ASSUME NEW p, NEW language, NEW r \in ProfileResults(p, language), p.enabled, EnabledSteps(p) # {}
  PROVE  \/ r.status = "failed" /\ r.mode = p.mode
         \/ r.status = "passed" /\ r.passed = PresetsAt(p, EnabledSteps(p))
<1>1. r \in {Result("failed", p.mode, {})} \cup Sequential(p)
  BY DEF ProfileResults
<1>2. \/ \E s : r = Result("failed", p.mode, s)
      \/ r = Result("passed", p.mode, PresetsAt(p, EnabledSteps(p)))
  BY <1>1 DEF Sequential
<1>. QED
  BY <1>2 DEF Result
\* A check that does not block says that everything called for has passed, or that something
\* has failed that must not block.
LEMMA ChecksSay ==
  ASSUME NEW c \in Configs,
         NEW r \in Results(Resolved(c.override, c.default, c.legacy), c.legacy, c.language),
         ~Blocks(r)
  PROVE  IF r.status = "failed" THEN ~Called(c).block ELSE Called(c).presets = r.passed
<1>. DEFINE first == IF Normalized(c.override) # {} THEN Normalized(c.override) ELSE c.default
            presets == {x \in Presets : \E p \in first : p.enabled
                         /\ \E i \in DOMAIN p.steps : p.steps[i].preset = x /\ p.steps[i].on}
<1>1. /\ Called(c).presets = IF first = {} /\ c.legacy # "" THEN {"legacy"} ELSE presets
      /\ Called(c).block = IF first = {} THEN c.legacy # "" ELSE \E p \in first : p.mode = "block"
  BY DEF Called
<1>2. CASE first = {}
  <2>1. presets = {}
    BY <1>2
  <2>2. Resolved(c.override, c.default, c.legacy).source = IF c.legacy # "" THEN "legacy_env" ELSE "none"
    BY <1>2 DEF Resolved
  <2>3. r \in IF c.legacy # "" THEN LegacyResults(c.legacy) ELSE {Skipped(DefaultMode)}
    BY <2>2 DEF Results
  <2>. HIDE DEF first, presets
  <2>4. CASE c.legacy # ""
    <3>1. r.passed = {"legacy"} /\ r.status = "passed"
      BY <2>3, <2>4, LegacyIs
    <3>. QED
      BY <1>1, <1>2, <2>4, <3>1
  <2>5. CASE c.legacy = ""
    <3>1. r.passed = {} /\ r.status = "skipped"
      BY <2>3, <2>5, SkippedIs
    <3>. QED
      BY <1>1, <1>2, <2>1, <2>5, <3>1
  <2>. QED
    BY <2>4, <2>5
<1>3. CASE first # {}
  <2>1. \E p \in first : r \in ProfileResults(p, c.language)
    BY <1>3 DEF Resolved, Results
  <2>2. PICK p \in first : r \in ProfileResults(p, c.language)
    BY <2>1
  <2>3. first = {p} /\ \A i \in DOMAIN p.steps : p.steps[i].preset \in Presets
    BY <2>2, ConfigFacts
  <2>4. presets = IF p.enabled THEN PresetsAt(p, EnabledSteps(p)) ELSE {}
    BY <2>3 DEF PresetsAt, EnabledSteps
  <2>. HIDE DEF first, presets
  <2>5. Called(c).presets = presets
    BY <1>1, <1>3
  <2>8. ASSUME p.mode # "block" PROVE ~Called(c).block
    BY <1>1, <1>3, <2>3, <2>8
  <2>6. CASE ~p.enabled \/ EnabledSteps(p) = {}
    <3>1. r.status = "skipped" /\ r.passed = {}
      BY <2>2, <2>6, SkippedIs DEF ProfileResults
    <3>2. presets = {}
      BY <2>4, <2>6 DEF PresetsAt
    <3>. QED
      BY <2>5, <3>1, <3>2
  <2>7. CASE p.enabled /\ EnabledSteps(p) # {}
    <3>1. \/ r.status = "failed" /\ r.mode = p.mode
          \/ r.status = "passed" /\ r.passed = PresetsAt(p, EnabledSteps(p))
      BY <2>2, <2>7, ProfileIs
    <3>. QED
      BY <2>4, <2>5, <2>7, <2>8, <3>1 DEF Blocks
  <2>. QED
    BY <2>6, <2>7
<1>. QED
  BY <1>2, <1>3

\* There is one way to a commit, but for plans and for what has no diff: through the checks.
LEMMA ReachesCommit ==
  ASSUME PublicationTypes, NEW e \in Execs, OwnStep(e), exec[e].pc \in Before,
         exec'[e].pc \in Trying \cup {"commit", "store"}
  PROVE  WriteReport(e) \/ Commit(e) \/ Check(e) \/ ProfileUnread(e)
<1>1. ~(Begin(e) \/ NotToPublish(e) \/ ResolveBranch(e) \/ CommandFails(e) \/ Store(e) \/ NoDiff(e))
  BY BeginMoves, NotToPublishMoves, ResolveBranchMoves, PlainMoves, StoreMoves, NoDiffMoves
     DEF Trying, Store, Step, Before
<1>2. ~(HasChanges(e) \/ Checkout(e))
  BY PlainMoves DEF WithoutDiff, Trying
<1>3. ~(Fail(e) \/ StatementFails(e) \/ DispatchRefused(e))
  BY FailMoves DEF Trying, Before
<1>4. ~Work(e)
  BY WorkMoves DEF Work, Step, Becomes, But, Fields, Trying
<1>5. ~(Push(e) \/ Create(e) \/ ReplyLost(e) \/ AttemptFails(e))
  BY DEF Push, Create, ReplyLost, AttemptFails, Step, Before
<1>6. ~(CheckoutDefaultAndClean(e) \/ CleanupFails(e))
  BY PlainMoves, CleanupFailsMoves DEF AfterCleanup, Trying
<1>. QED
  BY <1>1, <1>2, <1>3, <1>4, <1>5, <1>6 DEF OwnStep, Inner
\* The override is the one of the configuration until the checks run, unless the
\* configuration is changed.
LEMMA OverrideStays ==
  ASSUME PublicationTypes, NEW e \in Execs, OwnStep(e),
         exec'[e].pc \in {"branch", "checkout", "report", "changes", "check"}
  PROVE  \/ exec'[e].override = config.override
         \/ /\ exec[e].pc \in {"branch", "checkout", "report", "changes", "check"}
            /\ exec'[e].override = exec[e].override /\ exec'[e].calm = exec[e].calm
<1>1. CASE Begin(e)
  BY <1>1, BeginMoves
<1>2. CASE ResolveBranch(e)
  BY <1>2, ResolveBranchMoves DEF ResolveBranch, Step, Becomes, But, Fields
<1>3. CASE Checkout(e) \/ HasChanges(e)
  BY <1>3, PlainMoves DEF Checkout, HasChanges, Step, Becomes, But, Fields
<1>4. ~(NotToPublish(e) \/ WriteReport(e) \/ CommandFails(e) \/ AttemptFails(e) \/ Store(e) \/ NoDiff(e))
  BY NotToPublishMoves, PlainMoves, StoreMoves, NoDiffMoves
<1>5. ~(Fail(e) \/ StatementFails(e) \/ DispatchRefused(e))
  BY FailMoves
<1>6. ~Work(e)
  BY WorkMoves DEF Work, Step, Becomes, But, Fields
<1>7. ~(Push(e) \/ Create(e) \/ ReplyLost(e) \/ Commit(e))
  BY PushMoves, CreateMoves, ReplyLostMoves, CommitMoves
<1>8. ~(CheckoutDefaultAndClean(e) \/ CleanupFails(e))
  BY PlainMoves, CleanupFailsMoves DEF AfterCleanup
<1>9. ~(Check(e) \/ ProfileUnread(e))
  BY CheckIs, ChecksMove
<1>. QED
  BY <1>1, <1>2, <1>3, <1>4, <1>5, <1>6, <1>7, <1>8, <1>9 DEF OwnStep, Inner

\* What an execution has been through stays as it was said: past the commit, by Forward;
\* before, on the way to it.
LEMMA PassedLater ==
  ASSUME PublicationTypes, NEW f \in Execs, PassedOf(f), [Next]_vars, exec[f].pc \notin Before
  PROVE  PassedOf(f)'
<1>1. Settled(f)
  BY Forward
<1>2. /\ exec'[f].pc \notin Before /\ exec'[f].checks = exec[f].checks
      /\ exec'[f].made = exec[f].made /\ exec'[f].mode = exec[f].mode
      /\ exec'[f].pc \in Trying \cup {"store"} => exec[f].pc \in Trying \cup {"store"}
      /\ exec'[f].alone => exec[f].alone
      /\ exec'[f].calm => exec[f].calm /\ config' = config
  BY <1>1 DEF Settled, But, Fields
<1>3. Opened(f)' => Opened(f) \/ exec[f].pc \in Trying
  <2>1. ASSUME NEW e \in Execs, Opens(e), Opened(f)'
        PROVE  Opened(f) \/ exec[f].pc \in Trying
    BY <2>1 DEF Opens, Opened, PullRequest, Trying
  <2>2. prs' = prs => (Opened(f)' => Opened(f))
    BY DEF Opened
  <2>. QED
    BY <2>1, <2>2, PullRequestsGrow
<1>4. config' = config /\ WentThrough(f) => WentThrough(f)'
  BY <1>2 DEF WentThrough
<1>. QED
  BY <1>2, <1>3, <1>4 DEF PassedOf, Before
\* On the way to the commit: only the checks lead there, with the override read at first.
LEMMA PassedBefore ==
  ASSUME PublicationTypes, HoldsItsOwn, TriesForItsOwn, NEW f \in Execs, PassedOf(f), OwnStep(f),
         exec[f].pc \in Before
  PROVE  PassedOf(f)'
<1>1. ~Opened(f)'
  <2>1. ~Opened(f)
    BY DEF Opened, TriesForItsOwn
  <2>2. ~Opens(f)
    BY DEF Opens, Before
  <2>3. ASSUME NEW e \in Execs, Opens(e), e # f
        PROVE  ~Opened(f)'
    BY <2>1, <2>3 DEF Opens, Opened, PullRequest
  <2>4. [Next]_vars
    BY DEF OwnStep, Inner, Next, HandlerStep
  <2>. QED
    BY <2>1, <2>2, <2>3, <2>4, PullRequestsGrow DEF Opened
<1>2. /\ config' = config /\ exec'[f].alone = exec[f].alone /\ exec'[f].mode = exec[f].mode
      /\ exec[f].pc \notin Over \cup {"idle"}
  BY OthersStay, OwnStepFacts
<1>3. exec'[f].calm /\ exec'[f].pc \in {"branch", "checkout", "report", "changes", "check"} =>
        exec'[f].override = config'.override
  BY <1>2, OverrideStays DEF PassedOf
<1>4. ASSUME exec'[f].calm, exec'[f].alone, exec'[f].made, exec'[f].mode # "plan",
             exec'[f].pc \in Trying \cup {"commit", "store"}
      PROVE  ~Blocks(exec'[f].checks) /\ (WentThrough(f)' \/ exec'[f].checks = Unread)
  <2>1. WriteReport(f) \/ Commit(f) \/ Check(f) \/ ProfileUnread(f)
    BY <1>4, ReachesCommit
  <2>2. ~WriteReport(f)
    <3>1. f \in ActiveExecs /\ exec[f].alone /\ exec[f].mode # "plan"
      BY <1>2, <1>4 DEF ActiveExecs
    <3>2. exec[f].pc = "report" => ~exec[f].made
      BY <3>1 DEF HoldsItsOwn, HoldsOf
    <3>3. WriteReport(f) => exec[f].pc = "report" /\ exec'[f].made = exec[f].made
      BY PlainMoves DEF WriteReport, Step, Becomes, But, Fields
    <3>. QED
      BY <1>4, <3>2, <3>3
  <2>3. CASE Commit(f)
    <3>1. exec[f].pc = "commit"
      BY <2>3 DEF Commit, Step
    <3>2. /\ exec'[f].checks = exec[f].checks /\ exec'[f].made = exec[f].made
          /\ exec'[f].calm = exec[f].calm
      BY <2>3, CommitMoves DEF Becomes, But, Fields
    <3>3. ~Blocks(exec[f].checks) /\ (WentThrough(f) \/ exec[f].checks = Unread)
      BY <1>2, <1>4, <3>1, <3>2 DEF PassedOf
    <3>. QED
      BY <1>2, <3>2, <3>3 DEF WentThrough
  <2>4. CASE Check(f) \/ ProfileUnread(f)
    <3>1. PICK r \in AllChecks :
            /\ AfterChecks(f, r) /\ exec[f].pc = "check"
            /\ \/ r = Unread
               \/ r \in Results(Resolved(exec[f].override, config.default, config.legacy),
                                config.legacy, config.language)
      BY <2>4, CheckIs
    <3>2. /\ exec'[f].checks = r /\ exec'[f].pc = (IF Blocks(r) THEN "fail" ELSE "commit")
          /\ exec'[f].calm = exec[f].calm
      BY <3>1, ChecksMove DEF Becomes, But, Fields
    <3>3. ~Blocks(r)
      BY <1>4, <3>2 DEF Trying
    <3>4. exec[f].override = config.override
      BY <1>4, <3>1, <3>2 DEF PassedOf
    <3>. QED
      BY <1>2, <3>1, <3>2, <3>3, <3>4 DEF WentThrough
  <2>. QED
    BY <2>1, <2>2, <2>3, <2>4
<1>. QED
  BY <1>1, <1>3, <1>4 DEF PassedOf
\* Neither another execution nor the user changes what the checks of this one have said.
LEMMA PassedKept ==
  ASSUME PublicationTypes, HoldsItsOwn, TriesForItsOwn, PassedOrWarns, [Next]_vars
  PROVE  PassedOrWarns'
<1>1. ASSUME NEW f \in Execs
      PROVE  PassedOf(f)'
  <2>0. PassedOf(f)
    BY DEF PassedOrWarns
  <2>1. CASE exec[f].pc \notin Before
    BY <2>0, <2>1, PassedLater
  <2>2. CASE exec[f].pc \in Before
    <3>0. ~Opened(f)
      BY <2>2 DEF Opened, TriesForItsOwn
    <3>1. CASE OwnStep(f)
      BY <2>0, <2>2, <3>1, PassedBefore
    <3>2. ASSUME NEW e \in Execs, OwnStep(e), e # f
          PROVE  PassedOf(f)'
      <4>1. exec'[f] = exec[f] /\ config' = config
        BY <3>2, OthersStay
      <4>2. ASSUME NEW g \in Execs, Opens(g)
            PROVE  ~Opened(f)'
        <5>1. g # f
          BY <2>2, <4>2 DEF Opens, Before
        <5>. QED
          BY <3>0, <4>2, <5>1 DEF Opens, Opened, PullRequest
      <4>3. ~Opened(f)'
        BY <3>0, <4>2, PullRequestsGrow DEF Opened
      <4>. QED
        BY <2>0, <4>1, <4>3 DEF PassedOf, WentThrough
    <3>3. ASSUME NEW e \in Execs, StartCli(e)
          PROVE  PassedOf(f)'
      <4>1. prs' = prs /\ config' = config /\ exec[e].pc = "idle"
        BY <3>3 DEF StartCli, Elsewhere
      <4>2. ~Opened(f)'
        BY <3>0, <4>1 DEF Opened
      <4>3. CASE e = f
        BY <3>3, <4>2, <4>3, StartCliMoves DEF PassedOf, Trying
      <4>4. CASE e # f
        <5>1. But(exec[f], exec'[f], {"alone"}) /\ (exec'[f].alone => exec[f].alone)
          BY <3>3, <4>4, StartCliMoves
        <5>. QED
          BY <2>0, <4>1, <4>2, <5>1 DEF PassedOf, WentThrough, But, Fields
      <4>. QED
        BY <4>3, <4>4
    <3>4. ASSUME NEW c \in Configs, ChangeChecks(c)
          PROVE  PassedOf(f)'
      BY <3>4, ChangeChecksMoves DEF PassedOf
    <3>5. CASE Crash
      <4>1. prs' = prs /\ config' = config
        BY <3>5 DEF Crash
      <4>2. ~Opened(f)'
        BY <3>0, <4>1 DEF Opened
      <4>3. exec'[f] = exec[f] \/ exec'[f].pc \in {"idle", "dead"}
        BY <3>5, CrashMoves
      <4>. QED
        BY <2>0, <4>1, <4>2, <4>3 DEF PassedOf, WentThrough, Trying
    <3>6. CASE UNCHANGED vars
      BY <2>0, <3>6 DEF vars, PassedOf, WentThrough, Opened
    <3>. QED
      BY <3>1, <3>2, <3>3, <3>4, <3>5, <3>6, StepIs
  <2>. QED
    BY <2>1, <2>2
<1>2. ASSUME NEW x \in prs
      PROVE  x.warns <=> Warns(x.by)'
  <2>1. x.by \in Execs /\ exec[x.by].pc \notin Before
    BY DEF PublicationTypes, PullRequests, TriesForItsOwn
  <2>2. exec'[x.by].checks = exec[x.by].checks
    BY <2>1, Forward DEF Settled, But, Fields
  <2>. QED
    BY <2>2 DEF PassedOrWarns, Warns
<1>3. ASSUME NEW e \in Execs, Opens(e)
      PROVE  /\ PullRequest(e).by = e
             /\ PullRequest(e).warns <=> Warns(e)'
  <2>1. exec'[e].checks = exec[e].checks
    BY <1>3 DEF Opens, Becomes, But, Fields
  <2>2. PullRequest(e).by = e /\ PullRequest(e).warns = Warns(e)
    BY DEF PullRequest
  <2>3. Warns(e)' = Warns(e)
    BY <2>1 DEF Warns
  <2>. QED
    BY <2>2, <2>3
<1>4. ASSUME NEW e \in Execs, Opens(e)
      PROVE  \A y \in prs' : y.warns <=> Warns(y.by)'
  <2>1. \A y \in prs' : y \in prs \/ y = PullRequest(e)
    BY <1>4 DEF Opens
  <2>. QED
    BY <1>2, <1>3, <1>4, <2>1
<1>5. \A y \in prs' : y.warns <=> Warns(y.by)'
  BY <1>2, <1>4, PullRequestsGrow
<1>. QED
  BY <1>1, <1>5 DEF PassedOrWarns

\* What makes it inductive: only code of an execution that is alone has a diff that is
\* checked to be its own.
CheckedInv == HoldsInv /\ PassedOrWarns
\* The checks, with what the working copy holds, are an inductive invariant.
LEMMA CheckedInvHolds == Spec => []CheckedInv
<1>1. Init => CheckedInv
  <2>1. Init => prs = {} /\ \A e \in Execs : exec[e].pc = "idle"
    BY DEF Init
  <2>. QED
    BY <2>1, HoldsInvAtFirst DEF CheckedInv, PassedOrWarns, PassedOf, Opened, Trying
<1>2. CheckedInv /\ [Next]_vars => CheckedInv'
  BY HoldsInvKept, PassedKept DEF CheckedInv, HoldsInv, TypesInv
<1>. QED
  BY <1>1, <1>2, PTL DEF Spec

\* Code that is published of an execution that had the working copy to itself, and whose
\* configuration was not changed during its publication, has passed every check the
\* configuration calls for, or its pull request says that it has not; the latter only where
\* the configuration does not block, or could not be read: for every configuration of
\* override, default, command and language, and every outcome of the checks.
THEOREM CheckedCodeHolds == Spec => []CheckedCode
<1>1. ASSUME CheckedInv, NEW x \in prs, exec[x.by].alone, exec[x.by].calm,
             exec[x.by].mode # "plan", Code(x.by) \in x.holds
      PROVE  \/ Called(config).presets = exec[x.by].checks.passed /\ ~x.warns
             \/ x.warns /\ (Called(config).block => exec[x.by].checks = Unread)
  <2>1. x.by \in Execs /\ config \in Configs
    BY <1>1 DEF CheckedInv, HoldsInv, TypesInv, PublicationTypes, PullRequests
  <2>2. exec[x.by].made
    <3>1. x.holds = Made(x.by)
      BY <1>1 DEF CheckedInv, HoldsInv, HoldsMade
    <3>2. Code(x.by) # Report(x.by)
      BY DEF Code, Report
    <3>. QED
      BY <1>1, <3>1, <3>2 DEF Made
  <2>3. ~Blocks(exec[x.by].checks) /\ (WentThrough(x.by) \/ exec[x.by].checks = Unread)
    BY <1>1, <2>1, <2>2 DEF CheckedInv, PassedOrWarns, PassedOf, Opened
  <2>4. x.warns <=> exec[x.by].checks.status = "failed"
    BY <1>1 DEF CheckedInv, PassedOrWarns, Warns
  <2>5. CASE exec[x.by].checks = Unread
    BY <2>4, <2>5 DEF Unread, Result
  <2>6. CASE WentThrough(x.by)
    <3>1. exec[x.by].checks \in Results(Resolved(config.override, config.default, config.legacy),
                                        config.legacy, config.language)
      BY <2>6 DEF WentThrough
    <3>2. IF exec[x.by].checks.status = "failed" THEN ~Called(config).block
          ELSE Called(config).presets = exec[x.by].checks.passed
      BY <2>1, <2>3, <3>1, ChecksSay
    <3>. QED
      BY <2>4, <3>2
  <2>. QED
    BY <2>3, <2>5, <2>6
<1>2. CheckedInv => CheckedCode
  BY <1>1 DEF CheckedCode
<1>. QED
  BY <1>2, CheckedInvHolds, PTL
=============================================================================
