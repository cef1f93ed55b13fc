-------------------------- MODULE MCScheduledStops --------------------------
(***************************************************************************)
(* An instance of ScheduledStops for TLC.                                  *)
(***************************************************************************)
EXTENDS ScheduledStops, TLC

CONSTANTS w1, w2, sched, nobody, target, other

=============================================================================
