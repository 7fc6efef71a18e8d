---------------------------- MODULE MCLifecycle ----------------------------
(* ExecutionLifecycle for TLC: one execution, so a dispatch that throws is    *)
(* followed through the retry, the worker's recovery and every exit.          *)
EXTENDS ExecutionLifecycle
=============================================================================
