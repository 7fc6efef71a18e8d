------------------------------ MODULE EventLog ------------------------------
(***************************************************************************)
(* What the stored events of one execution promise, whoever publishes      *)
(* them: each process's events are appended in the order it published      *)
(* them, one after the other, and a stored event never changes.  An event  *)
(* may be given up, and retention may remove the whole log of an execution *)
(* nobody publishes for any more.                                          *)
(***************************************************************************)
EXTENDS Naturals, Sequences

CONSTANTS Procs, Events

VARIABLES
  waiting,  \* what each process has published and not stored
  log       \* the events by sequence number: contiguous from 1

Init == waiting = [p \in Procs |-> <<>>] /\ log = <<>>

Publish(p) ==
  /\ \E e \in Events : waiting' = [waiting EXCEPT ![p] = Append(@, e)]
  /\ UNCHANGED log

Store(p) ==
  /\ waiting[p] # <<>>
  /\ log' = Append(log, Head(waiting[p]))
  /\ waiting' = [waiting EXCEPT ![p] = Tail(@)]

GiveUp(p) ==
  /\ waiting[p] # <<>>
  /\ waiting' = [waiting EXCEPT ![p] = Tail(@)]
  /\ UNCHANGED log

Expire ==
  /\ \A p \in Procs : waiting[p] = <<>>
  /\ log' = <<>>
  /\ UNCHANGED waiting

Next == Expire \/ \E p \in Procs : Publish(p) \/ Store(p) \/ GiveUp(p)

Spec == Init /\ [][Next]_<<waiting, log>>
=============================================================================
