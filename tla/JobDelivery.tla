---------------------------- MODULE JobDelivery ----------------------------
(***************************************************************************)
(* What the execution queue promises, without lists: a job that was        *)
(* accepted is owed a run until it is settled, and a copy of it is given   *)
(* up only after a run has resolved or another copy has been stored.       *)
(***************************************************************************)
EXTENDS Naturals

CONSTANT Jobs       \* what a queue entry can be about

VARIABLES
  owed,     \* how many stored copies of each job still lead to a run
  parked,   \* how many copies are in the dead-letter list
  spare     \* the jobs one copy of which is not needed any more: one at most

vars == <<owed, parked, spare>>

Init ==
  /\ owed = [j \in Jobs |-> 0]
  /\ parked = [j \in Jobs |-> 0]
  /\ spare = {}

Accept(j) == owed' = [owed EXCEPT ![j] = @ + 1] /\ UNCHANGED <<parked, spare>>

\* A run of j resolved.
Resolve(j) == owed[j] > 0 /\ spare' = {j} /\ UNCHANGED <<owed, parked>>

\* A copy of j is stored for another attempt, or for the operator, also when the
\* consumer does not know that it has deleted the copy it holds.  If it does not learn
\* that the new copy was stored, it does not give up the one it holds.
Store(j) ==
  /\ \/ owed' = [owed EXCEPT ![j] = @ + 1] /\ UNCHANGED parked
     \/ parked' = [parked EXCEPT ![j] = @ + 1] /\ UNCHANGED owed
  /\ spare' \in {{j}, {}}

\* The copy that is not needed is deleted.
Drop(j) ==
  /\ spare = {j} /\ owed[j] > 0
  /\ owed' = [owed EXCEPT ![j] = @ - 1]
  /\ spare' = {} /\ UNCHANGED parked

\* The consumer forgets: it crashes, or its delete fails.
Forget == spare' = {} /\ UNCHANGED <<owed, parked>>

Next == Forget \/ \E j \in Jobs : Accept(j) \/ Resolve(j) \/ Store(j) \/ Drop(j)

Spec == Init /\ [][Next]_vars
=============================================================================
