--------------------------- MODULE AutomationRules ---------------------------
(***************************************************************************)
(* What an automation rule says: how it comes out of the requests that     *)
(* create and change it, which rules are refused, which tasks it matches,  *)
(* and which changes of it the drafts have to follow.                      *)
(*                                                                         *)
(* A title is the set of the phrases it contains, in lower case; an empty  *)
(* set of phrases or statuses is the filter that was not given.            *)
(***************************************************************************)
EXTENDS Naturals, Sequences, FiniteSets, TLC

Null == "null"

Providers == {"manual", "asana", "jira"}
Statuses == {"open", "in_progress", "done", "closed", "unknown"}     \* TaskItemStatus
Modes == {"suggest", "draft"}
Actions == {"fix", "feature", "plan"}
ScopeTypes == {"asana_workspace", "asana_project", "jira_project"}

-----------------------------------------------------------------------------
(* Requests.  A request is a function on the fields it gives; the action of *)
(* a rule has two names there.                                             *)

ActionFields == {"executionAction", "suggestedAction"}
Ranges ==
  [name |-> STRING, repositoryId |-> STRING,
   enabled |-> BOOLEAN, priority |-> Nat, provider |-> Providers, mode |-> Modes,
   scopeType |-> ScopeTypes \cup {Null}, taskStatuses |-> SUBSET Statuses,
   executionAction |-> Actions \cup {Null}, suggestedAction |-> Actions \cup {Null}]
Required == {"name", "provider", "repositoryId"}
Fields == Required \cup {"enabled", "priority", "scopeType", "scopeId", "titleContains",
                         "taskStatuses", "mode"}

\* The scope types of a provider.
TypeFits(provider, type) ==
  \/ provider = "asana" /\ type # "jira_project"
  \/ provider = "jira" /\ type = "jira_project"

\* ProviderScopeCompatibilityConstraint, on what the request gives.
Given(dto, f) == f \in DOMAIN dto /\ dto[f] # Null
PairFits(dto) ==
  /\ Given(dto, "scopeType") = Given(dto, "scopeId")
  /\ Given(dto, "scopeType") /\ "provider" \in DOMAIN dto => TypeFits(dto.provider, dto.scopeType)

InRange(dto) ==
  /\ DOMAIN dto \subseteq Fields \cup ActionFields
  /\ \A f \in DOMAIN dto \cap DOMAIN Ranges : dto[f] \in Ranges[f]

\* CreateAutomationRuleDto: nothing is null but the two lists (here: empty).
CreateDto(dto) ==
  /\ InRange(dto) /\ PairFits(dto)
  /\ Required \subseteq DOMAIN dto
  /\ \A f \in DOMAIN dto \cap ({"scopeType", "scopeId"} \cup ActionFields) : dto[f] # Null

\* UpdateAutomationRuleDto: a null takes a filter, a scope or the action away.
UpdateDto(dto) ==
  /\ InRange(dto) /\ PairFits(dto)
  /\ \A f \in Required \cap DOMAIN dto : dto[f] # Null

\* createForUser: what the fields are that the request does not give.
Defaults ==
  [enabled |-> TRUE, priority |-> 0, scopeType |-> Null, scopeId |-> Null,
   titleContains |-> {}, taskStatuses |-> {}, mode |-> "suggest"]

\* isPatchEmpty.
PatchEmpty(dto) == DOMAIN dto \cap (Fields \cup ActionFields) = {}

\* resolveExecutionAction: both names have to agree.
ActionsAgree(dto) == ActionFields \subseteq DOMAIN dto => dto.executionAction = dto.suggestedAction
ResolvedAction(dto) ==
  IF "executionAction" \in DOMAIN dto THEN dto.executionAction
  ELSE IF "suggestedAction" \in DOMAIN dto THEN dto.suggestedAction
  ELSE Null

Created(dto) ==
  [f \in Fields \cup {"suggestedAction"} |->
     IF f = "suggestedAction" THEN ResolvedAction(dto)
     ELSE IF f \in DOMAIN dto THEN dto[f] ELSE Defaults[f]]

\* The rule as updateForUser leaves it: a field that is not given stays.
Patched(rule, dto) ==
  [f \in DOMAIN rule |->
     IF f = "suggestedAction"
       THEN IF DOMAIN dto \cap ActionFields = {} THEN rule[f] ELSE ResolvedAction(dto)
     ELSE IF f \in DOMAIN dto THEN dto[f] ELSE rule[f]]

\* validateScopeCompatibility.
ScopeFits(rule) ==
  /\ (rule.scopeType = Null) = (rule.scopeId = Null)
  /\ rule.scopeType # Null => TypeFits(rule.provider, rule.scopeType)

\* validateModeAndAction.
ActionFits(rule) == rule.mode = "draft" => rule.suggestedAction # Null

Valid(rule) == ScopeFits(rule) /\ ActionFits(rule)

-----------------------------------------------------------------------------
(* Matching.                                                               *)

\* matchesScope: a rule for a workspace takes in the projects of the workspace.
InScope(rule, scopes) ==
  \/ rule.scopeType = Null \/ rule.scopeId = Null
  \/ \E s \in scopes : s.type = rule.scopeType /\ s.id = rule.scopeId
  \/ /\ rule.scopeType = "asana_workspace"
     /\ \E s \in scopes : s.type = "asana_project" /\ s.parent = rule.scopeId

\* matchesTitle: every phrase.
TitleFits(rule, title) == rule.titleContains \subseteq title

\* matchesStatus.
StatusFits(rule, status) == rule.taskStatuses = {} \/ status \in rule.taskStatuses

\* matchesRule, of a task as it was read.
Matches(rule, item) ==
  /\ rule.provider = item.provider
  /\ InScope(rule, item.scopes)
  /\ TitleFits(rule, item.title)
  /\ StatusFits(rule, item.status)

\* The order of listActiveRulesForUser: by priority, then by age.
Precedes(x, y) ==
  \/ x.value.priority > y.value.priority
  \/ x.value.priority = y.value.priority /\ x.id < y.id

\* resolveTaskMatch: the first of the rules that match, or none; a set.
FirstMatch(active, item) ==
  LET m == {x \in active : x.value.enabled /\ Matches(x.value, item)}
  IN  {x \in m : \A y \in m \ {x} : Precedes(x, y)}

\* The match the loop drafts for.
Drafts(match) == \E x \in match : x.value.mode = "draft" /\ x.value.suggestedAction # Null

\* shouldReconcileDrafts: only the name may change without the drafts.
ShouldReconcile(old, new) == \E f \in DOMAIN old \ {"name"} : old[f] # new[f]
=============================================================================
