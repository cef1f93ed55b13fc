--------------------------- MODULE CheckRefinement ---------------------------
(***************************************************************************)
(* The check cycle implements PowerControl: the turn is the check of the   *)
(* goroutine that holds runMu, the published and the stored result are     *)
(* Service.last and the row last_result.                                   *)
(***************************************************************************)
EXTENDS CheckCycle

\* The check of the holder of the mutex, as a turn.
Turn ==
    IF runMu = Free
    THEN [kind |-> "none", reason |-> "", handled |-> {}, stage |-> "none"]
    ELSE [kind    |-> job[runMu].kind,
          reason  |-> job[runMu].reason,
          handled |-> job[runMu].handled,
          stage   |-> IF pc[runMu] = "publish" THEN "saved" ELSE "act"]

Power == INSTANCE PowerControl WITH
    Owner     <- "owner" \in Faults,
    stored    <- lastResult,
    published <- last,
    turn      <- Turn

\* Whatever the goroutines do, the service behaves as one controller that takes
\* one turn at a time: a start under the cap, a protection that covers what is
\* listed before it is reported, a result published as it was stored, and a quick
\* check that keeps the decision.
ImplementsPowerControl == Power!Spec

=============================================================================
