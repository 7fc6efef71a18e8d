------------------------------ MODULE MCIntake ------------------------------
(* Intake for TLC: one manual task, the request for it written in two ways, and   *)
(* a request for something else.  Requests and keys are interchangeable.          *)
EXTENDS Intake, TLC

Content(feed, strict) ==
  [task |-> [manual |-> TRUE, id |-> "m", feed |-> feed], action |-> "fix", strict |-> strict]
Contents1 == {Content(TRUE, "unset"), Content(FALSE, "yes"), Content(TRUE, "no")}
Symmetry == Permutations(Requests) \cup Permutations(Keys)
=============================================================================
