----------------------------- MODULE StopHistory -----------------------------
(***************************************************************************)
(* The stop history the store keeps for the dashboard: what                *)
(* recordInstanceState writes into ecs_state and stop_events at every      *)
(* Record of CheckCycle, beside a history variable: who stopped the target. *)
(***************************************************************************)
EXTENDS CheckCycle

VARIABLES
    ecsState, \* the row ecs_state: last_status and scheduled_stop_active
    event,    \* the row of stop_events this step inserted
    \* history
    cause     \* the stop of the service that made the target leave Starting and Running

stopVars == <<ecsState, event, cause>>

\* A mutated form: the stops of the power mode "off" are left out.
ServiceInitiated_NotForced(reason) ==
    reason \in {"outside_start_schedule"} \cup ProtectReason

ServiceInitiated(reason) == reason \in StopReason \cup ProtectReason

\* A mutated form: the row of a scheduled stop is inserted under its reason.
EventOf_Reason(status, reason) ==
    IF reason = "outside_start_schedule" /\ ~ecsState.scheduled THEN reason
    ELSE IF /\ status \in {"Stopped", "Stopping"}
            /\ ecsState.status \in {"Running", "Starting"}
            /\ ~ecsState.scheduled
            /\ ~ServiceInitiated(reason)
         THEN "unexpected"
         ELSE "none"

\* The row recordInstanceState inserts, if any.
EventOf(status, reason) ==
    IF reason = "outside_start_schedule" /\ ~ecsState.scheduled THEN "scheduled"
    ELSE IF /\ status \in {"Stopped", "Stopping"}
            /\ ecsState.status \in {"Running", "Starting"}
            /\ ~ecsState.scheduled
            /\ ~ServiceInitiated(reason)
         THEN "unexpected"
         ELSE "none"

\* The transaction of RecordECSState, in the step that looks at the instance.
RecordECSState(c) ==
    LET status == Observed(ecs[Target], job[c].fallback)
        reason == job[c].reason
    IN  /\ Record(c)
        /\ ecsState' = [status    |-> status,
                        scheduled |-> reason = "outside_start_schedule"]
        /\ event' = EventOf(status, reason)

Up == {"Starting", "Running"}

\* Which stop of the service the target is down by.  A stop is "asked" until the check
\* that asked for it has recorded it, and "service" from then on.  If that check returns
\* an error before, it has stored and published nothing: the service itself no longer
\* knows of the stop, which then counts for as little as one from outside.
Blame ==
    LET failed == \E c \in Caller : pc[c] # "err" /\ pc'[c] = "err"
        unrecorded == \E c \in Caller : pc'[c] \in {"look", "request", "record"}
        by == IF ecs[Target] \notin Up THEN cause
              ELSE IF pc' = pc THEN "none" ELSE "asked"
    IN cause' = IF ecs'[Target] \in Up THEN "none"
                ELSE IF by # "asked" \/ unrecorded THEN by
                ELSE IF failed THEN "none" ELSE "service"

StopInit ==
    /\ Init
    /\ ecsState = [status |-> "", scheduled |-> FALSE]
    /\ event = "none" /\ cause = "none"

\* A step that records no state inserts no row.
Elsewhere == event' = "none" /\ UNCHANGED ecsState

StopNext ==
    /\ \/ \E c \in Caller : RecordECSState(c)
       \/ /\ \/ \E c \in Caller : Work(c)
             \/ Loop
             \/ \E w \in Web : Handler(w)
             \/ Environment
          /\ Elsewhere
    /\ Blame

StopSpec == StopInit /\ [][StopNext]_<<vars, stopVars>>

-----------------------------------------------------------------------------
(* Properties.                                                             *)

\* The rows and the history have their types.
StopTypeOK ==
    /\ ecsState \in [status : EcsStatus \cup {""}, scheduled : BOOLEAN]
    /\ event \in {"none", "scheduled", "unexpected"}
    /\ cause \in {"none", "asked", "service"}

\* A stop the service asked for is never counted as an unexpected one
\* (recordInstanceState, serviceInitiated), whichever goroutine records it and
\* whatever was asked for or failed since: unless the very check that asked for
\* the stop ended with an error before its record.
UnexpectedOnlyOutside ==
    [][event' = "unexpected" => cause = "none"]_<<vars, stopVars>>

\* A check knows its reason from the step that takes the mutex on, and a quick
\* check follows a result that has one.
ReasonKnown ==
    /\ \A c \in Caller : pc[c] \in InCheck => job[c].reason # ""
    /\ last.reason = "" => last.ecs = ""
    /\ pc[Sched] = "lock" /\ job[Sched].kind = "refresh" => last.reason # ""

\* Until it records, a quick check carries the published status, and a full check
\* that does not start the target carries none in which the target runs.
StatusCarried ==
    \A c \in Caller : pc[c] \in {"look", "request", "record"} =>
        IF job[c].kind = "refresh" THEN job[c].fallback = last.ecs
        ELSE job[c].reason \notin StartReason => job[c].fallback \notin Up

\* A target that is up was stopped by nobody, and a stop that was asked for belongs to
\* a check on its way to the record.
StopOwned ==
    /\ ecs[Target] \in Up => cause = "none"
    /\ cause = "asked" => \E c \in Caller :
            /\ pc[c] \in {"look", "request", "record"}
            /\ job[c].kind = "run" /\ job[c].reason \notin StartReason

\* A quick check that carries this status finds no new stop in a target the service
\* stopped: it takes the target for starting, the row shows it stopped already, or
\* the target is gone and the status is kept.
Harmless(status) ==
    \/ status = "Starting" \/ ecsState.status \notin Up
    \/ ecs[Target] = "Released" /\ status \notin {"Stopped", "Stopping"}

\* No full check that starts the target gets to its record after a stop of the service,
\* and a published start that outlives it, with the quick checks that carry it, is
\* harmless.
StartNotBlamed ==
    cause = "service" =>
        /\ last.reason \in StartReason => Harmless(last.ecs)
        /\ \A c \in Caller : pc[c] \in {"record", "save", "publish"}
              /\ job[c].reason \in StartReason
                 => job[c].kind = "refresh" /\ Harmless(job[c].fallback)

\* The inductive strengthening of UnexpectedOnlyOutside: the reason of a stop
\* survives until the stop is recorded (RunOnce, RefreshECSStatus, the deferred
\* unlock), in the check that made it or in the quick checks that follow it.
StopInv == ReasonKnown /\ StatusCarried /\ StopOwned /\ StartNotBlamed

=============================================================================
