------------------------------- MODULE MCFeed -------------------------------
(* A task that is in two projects of one workspace, assigned in it, and one    *)
(* in a workspace without projects.                                           *)
EXTENDS TaskFeed
CONSTANTS c1, c2, w1, w2, p1, p2, t1, t2, t3, r1, r2, r3
HomeOf1 == p1 :> w1 @@ p2 :> w1
ConfigOf1 == c1 :> Everything @@ c2 :> [at |-> "project", id |-> p1]
Connected1 == {{c1}}
AtFirst1 == t1 :> {p1, p2, w1} @@ t2 :> {w2} @@ t3 :> {p2}
Moves1 == {{p1}, {w2, p2}, {p1, p2, w1}}
\* Projects sort before workspaces.
ScopeOrder1 == <<p2, p1, w1, w2>>
Row(s, r) == [scope |-> s, repo |-> r]
DefaultRows1 == {{Row(Default, r3)}, {Row(p1, r1), Row(p2, r2), Row(Default, r3)},
                 {Row(p1, r1), Row(w1, r2)}, {Row(w1, r1), Row(w2, r2), Row(Default, r3)}}
=============================================================================
