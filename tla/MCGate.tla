------------------------------- MODULE MCGate -------------------------------
(* Child ids of the runs of ReviewGate.                                     *)
EXTENDS ReviewGate
CONSTANTS c1, c2, c3, c4, c5

Kids1 == <<c1>>
Kids5 == <<c1, c2, c3, c4, c5>>
=============================================================================
