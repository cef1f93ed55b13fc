---------------------------- MODULE MCCheckCycle ----------------------------
(***************************************************************************)
(* Instances of CheckCycle for TLC.                                        *)
(***************************************************************************)
EXTENDS CheckRefinement, TLC

CONSTANTS w1, w2, sched, nobody, target, other

\* Requests are interchangeable.
WebSymmetry == Permutations(Web)

=============================================================================
