------------------------------- MODULE MCSync -------------------------------
(* A connection to everything and one, made at first or later, to a single    *)
(* project.  One workspace has a project at first and one has none, and a     *)
(* task is in both.                                                           *)
EXTENDS TaskSync, TLC
CONSTANTS c1, c2, w1, w2, p1, p2, t1, t2, t3
HomeOf1 == p1 :> w1 @@ p2 :> w2
ConfigOf1 == c1 :> Everything @@ c2 :> [at |-> "project", id |-> p1]
Connected1 == {{c1}, {c1, c2}}
AtFirst1 == t1 :> {p1} @@ t2 :> {p1, p2, w2} @@ t3 :> {}
Moves1 == {{}, {p1}, {p2, w2}, {p1, p2, w2}}
=============================================================================
