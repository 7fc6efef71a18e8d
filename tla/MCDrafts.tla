------------------------------ MODULE MCDrafts ------------------------------
(* What the user says about rules in the runs.                              *)
EXTENDS AutomationInbox
CONSTANTS t1, t2

\* The first version of t1 has the phrase the rules look for, its next ones do not.
TitleOf1 == (t1 :> [v \in 0..MaxVersions |-> IF v = 1 THEN {"bug"} ELSE {}])
              @@ (t2 :> [v \in 0..MaxVersions |-> {"bug"}])
ScopesOf1 == t2 :> {[type |-> "asana_project", id |-> "p", parent |-> "w"]}

Rule(provider, more) == [name |-> "n", provider |-> provider, repositoryId |-> "r1"] @@ more
RuleDtos1 ==
  { Rule("manual", [mode |-> "draft", suggestedAction |-> "plan", titleContains |-> {"bug"}]),
    Rule("manual", [priority |-> 1, taskStatuses |-> {"open"}]),
    Rule("asana", [mode |-> "draft", executionAction |-> "fix", scopeType |-> "asana_workspace",
                   scopeId |-> "w"]) }
Patches1 == {[enabled |-> FALSE], [provider |-> "asana"], [name |-> "m"]}
=============================================================================
