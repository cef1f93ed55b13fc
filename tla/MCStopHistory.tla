---------------------------- MODULE MCStopHistory ----------------------------
(***************************************************************************)
(* Instances of StopHistory for TLC.                                       *)
(***************************************************************************)
EXTENDS StopHistory, TLC

CONSTANTS w1, w2, sched, nobody, target, other

=============================================================================
