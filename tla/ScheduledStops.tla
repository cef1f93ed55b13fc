---------------------------- MODULE ScheduledStops ----------------------------
(***************************************************************************)
(* The scheduled stops of StopHistory, beside a history variable: was the  *)
(* stop the target is down by counted already.                             *)
(***************************************************************************)
EXTENDS StopHistory

VARIABLE counted \* a scheduled stop was inserted, and the target has neither been up
                 \* nor left the windows since

countVars == <<vars, stopVars, counted>>

\* The instance leaves the windows when a window ends or other rules are saved.
Count ==
    counted' = \/ event' = "scheduled"
               \/ counted /\ ~(within /\ ~within') /\ ecs'[Target] \notin Up

CountInit == StopInit /\ counted = FALSE

CountSpec == CountInit /\ [][StopNext /\ Count]_countVars

\* app/service.py, _record_instance_state: "A scheduled stop is counted once when the
\* instance leaves all configured start windows".  So no second scheduled stop is
\* inserted while the target stays down and the instance has not left them again.
ScheduledStopCountedOnce ==
    [][event' = "scheduled" => ~counted]_countVars

=============================================================================
