----------------------------- MODULE MCWorkspace -----------------------------
(* Two names that sanitise to one path, and requests that are all alike.    *)
EXTENDS Workspace, TLC
CONSTANTS q1, q2, q3, q4, n1, n2, p1, none, strict
Names1 == {n1, n2}
PathOf1 == n1 :> p1 @@ n2 :> p1
GitHub1 == "former" :> n1 @@ "other" :> n2
DefaultDtos1 == {[provider |-> "asana", scopeType |-> "asana_project", scopeId |-> "p"],
                 [provider |-> "jira", scopeType |-> "asana_project", scopeId |-> "p"],
                 [provider |-> "manual", scopeType |-> "none", scopeId |-> "m"]}
Updates1 == {"syncEnabled" :> TRUE, "asana" :> FALSE @@ "jira" :> FALSE,
             "token" :> FALSE @@ "asana" :> TRUE}
Alike == Permutations(Requests)
=============================================================================
