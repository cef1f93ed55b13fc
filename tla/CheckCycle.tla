----------------------------- MODULE CheckCycle -----------------------------
(***************************************************************************)
(* The check cycle of the Go service: the full check (Service.RunOnce),    *)
(* the quick status check (Service.RefreshECSStatus), the goroutines that  *)
(* call them (Scheduler.Run and the handlers of the web server), the       *)
(* channels between those goroutines, the rows of the store the checks     *)
(* write, and the cloud they act on.                                       *)
(*                                                                         *)
(* Time is abstracted to which deadline has passed; the module             *)
(* BoundaryTimer keeps the clock.  One step stands for one call that can   *)
(* be interleaved with another goroutine or with the cloud.                *)
(***************************************************************************)
EXTENDS FiniteSets

CONSTANTS
    Web,       \* goroutines that serve a POST or a PUT
    Sched,     \* the goroutine of Scheduler.Run
    Free,      \* runMu when nobody holds it
    Instance,  \* the ECS instances of the account
    Target,    \* cfg.ECSInstanceID
    Modes,     \* the power modes the owner chooses from
    Listed,    \* the instances Client.Instances returns: one region, one page
    Faults     \* what may go wrong in this instance of the model

Caller == Web \cup {Sched}

ASSUME CallerAssumption ==
    Sched \notin Web /\ Free \notin Web \cup {Sched}
ASSUME InstanceAssumption ==
    Target \in Instance /\ Listed \subseteq Instance
ASSUME ModesAssumption ==
    Modes \subseteq {"on", "auto", "off"}
ASSUME FaultsAssumption ==
    Faults \subseteq {"over", "low", "error", "crash", "stock", "reclaim", "release",
               "owner"}

VARIABLES
    \* the cloud and the configuration file
    ecs,         \* status of every instance
    mode,        \* cfg.PowerMode
    within,      \* withinStartSchedule(cfg.DailyStartSchedules, now)
    configured,  \* config.Exists()
    \* rows of the store
    metrics,     \* latest_metrics: was the traffic under or over the threshold
    lastResult,  \* runtime_state, key last_result
    \* memory of the process
    last,        \* Service.last
    runMu,       \* Service.runMu
    pc,          \* where every goroutine is
    job,         \* locals of the check a goroutine runs
    wake,        \* the channel Scheduler.wake holds a token
    runNow,      \* the channel Scheduler.runNow holds a token
    forceRun,    \* local of Scheduler.Run
    runKind,     \* local of Scheduler.Run
    nextRegular, \* local of Scheduler.Run: unset is the zero time, due has passed
    boundaryDue, \* nextBoundary has passed
    \* history
    unseen       \* settings were saved and no full check has begun since

cloudVars == <<ecs, mode, within, configured>>
storeVars == <<metrics, lastResult>>
callVars  == <<runMu, pc, job>>
chanVars  == <<wake, runNow>>
loopVars  == <<forceRun, runKind, nextRegular, boundaryDue>>
vars == <<cloudVars, storeVars, last, callVars, chanVars, loopVars, unseen>>

-----------------------------------------------------------------------------
(* Values.                                                                 *)

EcsStatus   == {"Running", "Starting", "Stopped", "Stopping"}
CloudStatus == EcsStatus \cup {"Released"}
Mode        == {"on", "auto", "off"}

StartReason   == {"forced_on", "scheduled_start_window"}
StopReason    == {"forced_off", "outside_start_schedule"}
ProtectReason == {"traffic_threshold_reached", "low_balance"}
Reason        == StartReason \cup StopReason \cup ProtectReason

Result == [status : {"never", "uninit", "failed", "done"},
           ecs    : EcsStatus \cup {""},
           reason : Reason \cup {""}]

Bare(status) == [status |-> status, ecs |-> "", reason |-> ""]

Job == [kind : {"run", "refresh"},
        todo : SUBSET Instance, handled : SUBSET Instance, cur : Instance,
        status : {"never", "uninit", "failed", "done"},
        fallback : EcsStatus \cup {""}, reason : Reason \cup {""}]

NoJob == [kind |-> "run", todo |-> {}, handled |-> {}, cur |-> Target,
          status |-> "done", fallback |-> "", reason |-> ""]

Transitioning == last.ecs \in {"Starting", "Stopping"}

InCheck  == {"look", "request", "record", "save", "publish"}
SleepPC  == {"poll", "regular", "boundary"} \* what wakeAt was computed from
SchedPC  == {"top", "forget", "uninit", "recheck", "plan"} \cup SleepPC
WebPC    == {"idle", "signal", "notify"}
CallPC   == {"lock", "ok", "err"} \cup InCheck

-----------------------------------------------------------------------------
(* The decision of a full check and its effect on the target.              *)

\* A mutated form: the forced modes are looked at before the traffic cap.
Decide_ModeFirst(over, m, low, win) ==
    CASE m = "on"  -> "forced_on"
      [] m = "off" -> "forced_off"
      [] m = "auto" /\ over         -> "traffic_threshold_reached"
      [] m = "auto" /\ ~over /\ low -> "low_balance"
      [] m = "auto" /\ ~over /\ ~low /\ win  -> "scheduled_start_window"
      [] m = "auto" /\ ~over /\ ~low /\ ~win -> "outside_start_schedule"

\* The switch of RunOnce: the first case that applies.
Decide(over, m, low, win) ==
    IF over THEN "traffic_threshold_reached"
    ELSE CASE m = "on"  -> "forced_on"
           [] m = "off" -> "forced_off"
           [] m = "auto" /\ low -> "low_balance"
           [] m = "auto" /\ ~low /\ win  -> "scheduled_start_window"
           [] m = "auto" /\ ~low /\ ~win -> "outside_start_schedule"

\* The instances a decision acts on; Instances() omits released ones.
Affected(reason) ==
    IF reason \in ProtectReason
    THEN {i \in Listed : ecs[i] # "Released"}
    ELSE {Target}

\* A mutated form: the action is kept as the status.
Fallback_Action(reason, requested) ==
    IF requested THEN "requested"
    ELSE IF reason \in StartReason THEN "Running" ELSE "Stopped"

\* result["ecs_status"] after the action: what recordInstanceState falls back on.
Fallback(reason, requested) ==
    CASE reason = "traffic_threshold_reached" -> "Stopping"
      [] reason \in StartReason -> IF requested THEN "Starting" ELSE "Running"
      [] reason \in StopReason  -> IF requested THEN "Stopping" ELSE "Stopped"
      [] OTHER -> ""

\* The status recordInstanceState stores when the cloud says seen.
Observed(seen, fallback) ==
    LET status == IF seen = "Released" THEN fallback ELSE seen IN
    CASE fallback = "Starting" /\ status \in {"Stopped", "Stopping"} -> "Starting"
      [] fallback = "Stopping" /\ status \in {"Running", "Starting"} -> "Stopping"
      [] OTHER -> status

-----------------------------------------------------------------------------
(* Moves of a goroutine.                                                   *)

\* A reading that can be TRUE if it is among the faults.
Possible(fault) == IF fault \in Faults THEN BOOLEAN ELSE {FALSE}

Goto(c, to) == pc' = [pc EXCEPT ![c] = to]

\* A mutated form: the check runs without waiting for the mutex.
TakeLock_NoWait(c) == runMu' = c

\* s.runMu.Lock()
TakeLock(c) == runMu = Free /\ runMu' = c

\* The deferred Unlock on a return of RunOnce or RefreshECSStatus.
Return(c, how) ==
    /\ runMu' = Free
    /\ Goto(c, how)
    /\ job' = [job EXCEPT ![c] = NoJob]

\* Where the loop over the instances goes on.
Continue(todo) == IF todo = {} THEN "record" ELSE "look"

-----------------------------------------------------------------------------
(* RunOnce and RefreshECSStatus.                                           *)

\* RunOnce up to the loop over the instances: Lock, Load, Balance, TrafficGB,
\* SaveMetrics, the switch and Instances().  Whatever another goroutine or the
\* cloud does between these calls, it can as well do after them.
BeginRun(c) ==
    /\ pc[c] = "lock" /\ job[c].kind = "run"
    /\ TakeLock(c)
    /\ \E over \in Possible("over"), low \in Possible("low") :
         LET reason == Decide(over, mode, low, within)
             todo   == Affected(reason)
         IN  /\ metrics' = IF over THEN "over" ELSE "under"
             /\ Goto(c, Continue(todo))
             /\ job' = [job EXCEPT ![c] =
                  [@ EXCEPT !.reason = reason, !.todo = todo,
                            !.fallback = Fallback(reason, FALSE)]]
    /\ unseen' = FALSE
    /\ UNCHANGED <<cloudVars, lastResult, last, chanVars, loopVars>>

\* RefreshECSStatus up to the call of recordInstanceState.
BeginRefresh(c) ==
    /\ pc[c] = "lock" /\ job[c].kind = "refresh"
    /\ TakeLock(c)
    /\ Goto(c, "record")
    /\ job' = [job EXCEPT ![c] = [@ EXCEPT !.status = last.status,
                                            !.fallback = last.ecs,
                                            !.reason = last.reason]]
    /\ UNCHANGED <<cloudVars, storeVars, last, chanVars, loopVars, unseen>>

\* A check fails before its first request: Load, Validate, newCloud, Balance,
\* TrafficGB, Instances or a store call returns an error.
BeginFails(c) ==
    /\ "error" \in Faults
    /\ pc[c] = "lock" /\ runMu = Free
    /\ Goto(c, "err")
    /\ job' = [job EXCEPT ![c] = NoJob]
    /\ IF job[c].kind = "run"
       THEN /\ \/ UNCHANGED metrics
               \/ \E over \in Possible("over") :
                    metrics' = IF over THEN "over" ELSE "under"
            /\ unseen' = FALSE
       ELSE UNCHANGED <<metrics, unseen>>
    /\ UNCHANGED <<cloudVars, lastResult, last, runMu, chanVars, loopVars>>

\* start and stop: client.Instance says there is nothing to do, or there is.
Look(c) ==
    /\ pc[c] = "look"
    /\ \E i \in job[c].todo :
         LET goal == IF job[c].reason \in StartReason THEN "Running" ELSE "Stopped"
             rest == job[c].todo \ {i}
         IN  IF ecs[i] = goal
             THEN /\ Goto(c, Continue(rest))
                  /\ job' = [job EXCEPT ![c] =
                        [@ EXCEPT !.todo = rest, !.handled = job[c].handled \cup {i}]]
             ELSE /\ Goto(c, "request")
                  /\ job' = [job EXCEPT ![c].cur = i]
    /\ UNCHANGED <<cloudVars, storeVars, last, runMu, chanVars, loopVars, unseen>>

\* The cloud takes a request: what becomes of the instance, if it is taken.
Accepted(reason, i) ==
    IF reason \in StartReason
    THEN /\ ecs[i] \in {"Stopped", "Starting", "Running"}
         /\ ecs' = [ecs EXCEPT ![i] = IF @ = "Stopped" THEN "Starting" ELSE @]
    ELSE /\ ecs[i] \in EcsStatus
         /\ ecs' = [ecs EXCEPT ![i] = IF @ = "Stopped" THEN @ ELSE "Stopping"]

\* client.Start or client.Stop returns nil.
Request(c) ==
    /\ pc[c] = "request"
    /\ Accepted(job[c].reason, job[c].cur)
    /\ LET rest == job[c].todo \ {job[c].cur} IN
         /\ Goto(c, Continue(rest))
         /\ job' = [job EXCEPT ![c] =
               [@ EXCEPT !.todo = rest,
                         !.handled = job[c].handled \cup {job[c].cur},
                         !.fallback = Fallback(job[c].reason, TRUE)]]
    /\ UNCHANGED <<mode, within, configured, storeVars, last, runMu, chanVars,
                   loopVars, unseen>>

\* The cloud takes the request, its answer is lost: the check ends with an error.
AnswerLost(c) ==
    /\ "error" \in Faults
    /\ pc[c] = "request"
    /\ Accepted(job[c].reason, job[c].cur)
    /\ Return(c, "err")
    /\ UNCHANGED <<mode, within, configured, storeVars, last, chanVars, loopVars,
                   unseen>>

\* A mutated form: an instance that cannot be stopped is skipped.
CallFails_Skip(c) ==
    /\ "error" \in Faults
    /\ pc[c] \in {"look", "request"}
    /\ \E i \in job[c].todo :
         /\ Goto(c, Continue(job[c].todo \ {i}))
         /\ job' = [job EXCEPT ![c].todo = @ \ {i}]
    /\ UNCHANGED <<cloudVars, storeVars, last, runMu, chanVars, loopVars, unseen>>

\* Instance, Start, Stop, ECSState, RecordECSState or SaveLastResult fails.
\* A request the cloud cannot accept fails whatever the faults are.
CallFails(c) ==
    /\ pc[c] \in {"look", "request", "record", "save"}
    /\ \/ "error" \in Faults
       \/ pc[c] = "request" /\ ecs[job[c].cur] \in {"Released", "Stopping"}
    /\ Return(c, "err")
    /\ UNCHANGED <<cloudVars, storeVars, last, chanVars, loopVars, unseen>>

\* recordInstanceState: client.Instance, then the RecordECSState transaction,
\* whose rows are in the module StopHistory.
Record(c) ==
    /\ pc[c] = "record"
    /\ job' = [job EXCEPT ![c].fallback = Observed(ecs[Target], @)]
    /\ Goto(c, "save")
    /\ UNCHANGED <<cloudVars, storeVars, last, runMu, chanVars, loopVars, unseen>>

\* The result of the check a goroutine runs.
ResultOf(c) == [status |-> job[c].status, ecs |-> job[c].fallback,
                reason |-> job[c].reason]

\* SaveLastResult.
SaveLastResult(c) ==
    /\ pc[c] = "save"
    /\ lastResult' = ResultOf(c)
    /\ Goto(c, "publish")
    /\ UNCHANGED <<cloudVars, metrics, last, runMu, job, chanVars, loopVars,
                   unseen>>

\* setLast and the return of the result.
Publish(c) ==
    /\ pc[c] = "publish"
    /\ last' = ResultOf(c)
    /\ Return(c, "ok")
    /\ UNCHANGED <<cloudVars, storeVars, chanVars, loopVars, unseen>>

\* What a check does beside the record of the state.
Work(c) ==
    \/ BeginRun(c) \/ BeginRefresh(c) \/ BeginFails(c)
    \/ Look(c) \/ Request(c) \/ AnswerLost(c) \/ CallFails(c)
    \/ SaveLastResult(c) \/ Publish(c)

Check(c) == Work(c) \/ Record(c)

-----------------------------------------------------------------------------
(* Scheduler.Run.                                                          *)

InLoop(at) == pc[Sched] = at

Asleep == pc[Sched] \in SleepPC

\* The local regularDue of Scheduler.Run.
regularDue == forceRun \/ nextRegular # "waiting"

\* The goroutine calls RunOnce or RefreshECSStatus.
Call(c, kind) ==
    /\ Goto(c, "lock")
    /\ job' = [job EXCEPT ![c].kind = kind]

\* The top of the loop: is there a configuration, and which check is due.
Top ==
    /\ InLoop("top")
    /\ \/ /\ ~configured
          /\ Goto(Sched, "forget")
          /\ UNCHANGED <<job, runKind>>
       \/ /\ configured
          /\ \/ /\ regularDue /\ ~Transitioning
                /\ runKind' = "regular"
                /\ Call(Sched, "run")
             \/ /\ ~(regularDue /\ ~Transitioning) /\ boundaryDue
                /\ runKind' = "boundary"
                /\ Call(Sched, "run")
             \/ /\ ~(regularDue /\ ~Transitioning) /\ ~boundaryDue
                /\ runKind' = "none"
                /\ Goto(Sched, "recheck")
                /\ UNCHANGED job
    /\ UNCHANGED <<cloudVars, storeVars, last, runMu, chanVars, forceRun,
                   nextRegular, boundaryDue, unseen>>

\* SetUninitialized.
SetUninitialized ==
    /\ InLoop("forget")
    /\ last' = Bare("uninit")
    /\ Goto(Sched, "uninit")
    /\ UNCHANGED <<cloudVars, storeVars, runMu, job, chanVars, loopVars, unseen>>

\* The wait without a configuration ends.
Initialized ==
    /\ InLoop("uninit") /\ wake
    /\ wake' = FALSE
    /\ nextRegular' = "unset" /\ boundaryDue' = FALSE
    /\ Goto(Sched, "top")
    /\ UNCHANGED <<cloudVars, storeVars, last, runMu, job, runNow, forceRun,
                   runKind, unseen>>

\* A mutated form: the loop goes on without the quick check.
Recheck_NoPoll ==
    /\ InLoop("recheck")
    /\ Goto(Sched, "plan")
    /\ UNCHANGED <<cloudVars, storeVars, last, runMu, job, chanVars, loopVars,
                   unseen>>

\* No full check is due: a quick check if the instance is transitioning.
Recheck ==
    /\ InLoop("recheck")
    /\ \/ Transitioning /\ Call(Sched, "refresh")
       \/ ~Transitioning /\ Goto(Sched, "plan") /\ UNCHANGED job
    /\ UNCHANGED <<cloudVars, storeVars, last, runMu, chanVars, loopVars, unseen>>

\* What a regular check leaves, successful or not.
AfterCheck ==
    IF runKind = "regular"
    THEN forceRun' = FALSE /\ nextRegular' = "waiting"
    ELSE UNCHANGED <<forceRun, nextRegular>>

\* The check has returned: SetFailure, then the next regular check.
Handle ==
    /\ pc[Sched] \in {"ok", "err"}
    /\ last' = IF pc[Sched] = "err" THEN Bare("failed") ELSE last
    /\ AfterCheck
    /\ Goto(Sched, "plan")
    /\ UNCHANGED <<cloudVars, storeVars, runMu, job, chanVars, runKind,
                   boundaryDue, unseen>>

\* The next boundary, then wakeAt and the timer.
Plan ==
    /\ InLoop("plan")
    /\ boundaryDue' = FALSE
    /\ runKind' = "none"
    /\ Goto(Sched, IF Transitioning THEN "poll"
                    ELSE IF nextRegular = "unset" THEN "boundary" ELSE "regular")
    /\ UNCHANGED <<cloudVars, storeVars, last, runMu, job, chanVars, forceRun,
                   nextRegular, unseen>>

\* The select of the loop: case <-s.wake.
Woken ==
    /\ Asleep /\ wake
    /\ wake' = FALSE
    /\ Goto(Sched, "top")
    /\ UNCHANGED <<cloudVars, storeVars, last, runMu, job, runNow, loopVars,
                   unseen>>

\* case <-s.runNow.
RunRequested ==
    /\ Asleep /\ runNow
    /\ runNow' = FALSE
    /\ forceRun' = TRUE
    /\ Goto(Sched, "top")
    /\ UNCHANGED <<cloudVars, storeVars, last, runMu, job, wake, runKind,
                   nextRegular, boundaryDue, unseen>>

\* case <-timer.C: wakeAt has come.  Without a regular check to wait for it is
\* the boundary or, when the schedule has none, five minutes.
Timer ==
    /\ \/ InLoop("poll") \/ InLoop("boundary")
       \/ InLoop("regular") /\ (nextRegular = "due" \/ boundaryDue)
    /\ Goto(Sched, "top")
    /\ UNCHANGED <<cloudVars, storeVars, last, runMu, job, chanVars, loopVars,
                   unseen>>

Loop ==
    \/ Top \/ SetUninitialized \/ Initialized \/ Recheck \/ Handle \/ Plan
    \/ Woken \/ RunRequested \/ Timer

-----------------------------------------------------------------------------
(* The handlers of the web server.                                         *)

\* POST /api/run.
RunRequest(w) ==
    /\ pc[w] = "idle" /\ configured
    /\ Call(w, "run")
    /\ UNCHANGED <<cloudVars, storeVars, last, runMu, chanVars, loopVars, unseen>>

\* A mutated form: the handler leaves the scheduler to its timer.
NotifyIfTransitioning_Never == UNCHANGED wake

\* if IsTransitioning() { Notify() }
NotifyIfTransitioning == wake' = (wake \/ Transitioning)

\* RunOnce has returned to the handler.
RunReply(w) ==
    /\ pc[w] \in {"ok", "err"}
    /\ IF pc[w] = "ok" THEN NotifyIfTransitioning ELSE UNCHANGED wake
    /\ Goto(w, "idle")
    /\ UNCHANGED <<cloudVars, storeVars, last, runMu, job, runNow, loopVars,
                   unseen>>

\* PUT /api/settings: SaveSettings writes the file.
SaveSettings(w) ==
    /\ pc[w] = "idle" /\ configured
    /\ mode' \in Modes /\ within' \in BOOLEAN
    /\ unseen' = TRUE
    /\ Goto(w, "signal")
    /\ UNCHANGED <<ecs, configured, storeVars, last, runMu, job, chanVars,
                   loopVars>>

\* A mutated form: the scheduler is only woken, without a request to run.
RunImmediately_Wake == wake' = TRUE /\ UNCHANGED runNow

\* RunImmediately: the channel has room for one token.
RunImmediately == runNow' = TRUE /\ UNCHANGED wake

\* PUT /api/settings: RunImmediately.
Signal(w) ==
    /\ pc[w] = "signal"
    /\ RunImmediately
    /\ Goto(w, "idle")
    /\ UNCHANGED <<cloudVars, storeVars, last, runMu, job, loopVars, unseen>>

\* POST /api/init: config.Init writes the file.
Initialize(w) ==
    /\ pc[w] = "idle" /\ ~configured
    /\ configured' = TRUE
    /\ mode' = "auto" /\ within' \in BOOLEAN
    /\ Goto(w, "notify")
    /\ UNCHANGED <<ecs, storeVars, last, runMu, job, chanVars, loopVars, unseen>>

\* POST /api/init: Notify.
Notify(w) ==
    /\ pc[w] = "notify"
    /\ wake' = TRUE
    /\ Goto(w, "idle")
    /\ UNCHANGED <<cloudVars, storeVars, last, runMu, job, runNow, loopVars,
                   unseen>>

Handler(w) ==
    \/ RunRequest(w) \/ RunReply(w) \/ SaveSettings(w) \/ Signal(w)
    \/ Initialize(w) \/ Notify(w)

-----------------------------------------------------------------------------
(* The cloud, the clock and the operating system.                          *)

Becomes(i, status) ==
    /\ ecs' = [ecs EXCEPT ![i] = status]
    /\ UNCHANGED <<mode, within, configured, storeVars, last, callVars, chanVars,
                   loopVars, unseen>>

\* A transition of an instance completes.
CloudProgress(i) ==
    \/ ecs[i] = "Starting" /\ Becomes(i, "Running")
    \/ ecs[i] = "Stopping" /\ Becomes(i, "Stopped")

\* No stock: the start the cloud accepted ends with the instance stopped.
NoStock(i) ==
    /\ "stock" \in Faults /\ ecs[i] = "Starting"
    /\ Becomes(i, "Stopped")

\* A preemptible instance is reclaimed.
Reclaim(i) ==
    /\ "reclaim" \in Faults /\ ecs[i] = "Running"
    /\ \E status \in {"Stopping", "Stopped"} : Becomes(i, status)

\* The instance is released.
Release(i) ==
    /\ "release" \in Faults /\ ecs[i] \in EcsStatus
    /\ Becomes(i, "Released")

\* The owner starts the instance in the console.
OwnerStarts(i) ==
    /\ "owner" \in Faults /\ ecs[i] = "Stopped"
    /\ Becomes(i, "Starting")

\* A start window begins or ends.
WindowMoves ==
    /\ configured
    /\ within' = ~within
    /\ UNCHANGED <<ecs, mode, configured, storeVars, last, callVars, chanVars,
                   loopVars, unseen>>

\* nextBoundary, one second after the boundary of a window, passes.
BoundaryPasses ==
    /\ Asleep /\ ~boundaryDue
    /\ boundaryDue' = TRUE
    /\ UNCHANGED <<cloudVars, storeVars, last, callVars, chanVars, forceRun,
                   runKind, nextRegular, unseen>>

\* nextRegular passes.
RegularPasses ==
    /\ nextRegular = "waiting"
    /\ nextRegular' = "due"
    /\ UNCHANGED <<cloudVars, storeVars, last, callVars, chanVars, forceRun,
                   runKind, boundaryDue, unseen>>

\* The container is stopped and started again: only files and cloud remain.
Crash ==
    /\ "crash" \in Faults
    /\ last' = Bare("never")
    /\ runMu' = Free
    /\ pc' = [c \in Caller |-> IF c = Sched THEN "top" ELSE "idle"]
    /\ job' = [c \in Caller |-> NoJob]
    /\ wake' = FALSE /\ runNow' = FALSE
    /\ forceRun' = FALSE /\ runKind' = "none"
    /\ nextRegular' = "unset" /\ boundaryDue' = FALSE
    /\ UNCHANGED <<cloudVars, storeVars, unseen>>

Environment ==
    \/ \E i \in Instance : \/ CloudProgress(i) \/ NoStock(i) \/ Reclaim(i)
                            \/ Release(i) \/ OwnerStarts(i)
    \/ WindowMoves \/ BoundaryPasses \/ RegularPasses \/ Crash

-----------------------------------------------------------------------------
Init ==
    /\ ecs \in [Instance -> EcsStatus]
    /\ mode = "auto" /\ within \in BOOLEAN /\ configured \in BOOLEAN
    /\ metrics = "none" /\ lastResult = Bare("never") /\ last = Bare("never")
    /\ runMu = Free
    /\ pc = [c \in Caller |-> IF c = Sched THEN "top" ELSE "idle"]
    /\ job = [c \in Caller |-> NoJob]
    /\ wake = FALSE /\ runNow = FALSE
    /\ forceRun = FALSE /\ runKind = "none"
    /\ nextRegular = "unset" /\ boundaryDue = FALSE
    /\ unseen = FALSE

Next ==
    \/ \E c \in Caller : Check(c)
    \/ Loop
    \/ \E w \in Web : Handler(w)
    \/ Environment

Spec == Init /\ [][Next]_vars

\* The goroutines run, the transitions of the cloud end and time passes.  The
\* scheduler gets the mutex if it is free again and again (a Go mutex that
\* starved a goroutine is handed to it), and select takes a case that is ready
\* again and again (it chooses at random).
Fairness ==
    /\ WF_vars(Loop) /\ SF_vars(RunRequested)
    /\ \A c \in Caller : WF_vars(Check(c)) /\ SF_vars(pc[c] = "lock" /\ Check(c))
    /\ \A w \in Web : WF_vars(RunReply(w) \/ Signal(w) \/ Notify(w))
    /\ \A i \in Instance : WF_vars(CloudProgress(i))
    /\ WF_vars(RegularPasses)

FairSpec == Spec /\ Fairness

-----------------------------------------------------------------------------
(* Properties.                                                             *)

\* Every variable has its type.
TypeOK ==
    /\ ecs \in [Instance -> CloudStatus]
    /\ mode \in Mode /\ within \in BOOLEAN /\ configured \in BOOLEAN
    /\ metrics \in {"none", "over", "under"}
    /\ lastResult \in Result /\ last \in Result
    /\ runMu \in Caller \cup {Free}
    /\ pc \in [Caller -> CallPC \cup SchedPC \cup WebPC]
    /\ job \in [Caller -> Job]
    /\ wake \in BOOLEAN /\ runNow \in BOOLEAN
    /\ forceRun \in BOOLEAN /\ runKind \in {"none", "regular", "boundary"}
    /\ nextRegular \in {"unset", "waiting", "due"} /\ boundaryDue \in BOOLEAN
    /\ unseen \in BOOLEAN

\* A goroutine about to start the target (RunOnce, the cases forced_on and
\* scheduled_start_window) has itself stored metrics under the traffic
\* threshold: no check of another goroutine came between, and no power mode
\* goes before the cap.
StartUnderThreshold ==
    \A c \in Caller :
        pc[c] \in {"look", "request"} /\ job[c].reason \in StartReason
            => metrics = "under"

\* Between two checks the result served from memory is the one the store
\* keeps for the dashboard and for the next process (SaveLastResult and
\* setLast of RunOnce and of RefreshECSStatus), whatever failed on the way.
PersistedIsPublished ==
    runMu = Free /\ last.status = "done" => last = lastResult

\* A check that reaches its record because of the traffic or of the balance
\* has dealt with every instance of the account: found it stopped, had its
\* stop accepted, or it is released.  One failed stop ends the check instead.
ProtectionIsComplete ==
    \A c \in Caller :
        /\ pc[c] \in {"record", "save", "publish"}
        /\ job[c].kind = "run" /\ job[c].reason \in ProtectReason
        => \A i \in Instance : i \in job[c].handled \/ ecs[i] = "Released"

\* The scheduler never sleeps until its next regular check while the published
\* status is a transition to poll (TransitionPollInterval), unless a wake
\* token is there or a handler is about to leave one (runNow of the server).
NoLostPoll ==
    (InLoop("regular") \/ InLoop("boundary")) /\ Transitioning
        => wake \/ \E w \in Web : pc[w] = "ok"

\* Settings that were saved and that no full check has read yet are never
\* forgotten: a handler is about to signal, the signal is in the channel, or
\* the scheduler has a full check due (RunImmediately, forceRun, nextRegular).
SettingsNotForgotten ==
    unseen => \/ runNow \/ regularDue
              \/ \E w \in Web : pc[w] = "signal"

\* A quick check publishes the reason of the full check it follows, so that
\* recordInstanceState never takes a stop of the service for an unexpected
\* one: no other result is published while it runs.
RefreshKeepsReason ==
    [][\A c \in Caller : Publish(c) /\ job[c].kind = "refresh"
                              => last'.reason = last.reason]_vars

\* Settings that were saved are read by a full check in the end.
SettingsApplied == unseen ~> ~unseen

\* From some time on no boundary passes and nobody asks for a full check.
Quiet == <>[](~boundaryDue /\ \A w \in Web : pc[w] # "lock")

\* The published transition ends once nobody starts new ones: the quick checks
\* of the scheduler go on until they see the final status (Recheck, Plan).
TransitionResolves == Quiet => []<>~Transitioning

-----------------------------------------------------------------------------
(* The inductive strengthening of the invariants.                          *)

\* The goroutines inside RunOnce and RefreshECSStatus are the holder of runMu.
Mutex == \A c \in Caller : pc[c] \in InCheck <=> runMu = c

\* Requests run full checks only; the scheduler a quick one only when runKind is
\* empty.
Kinds ==
    /\ \A w \in Web : job[w].kind = "run"
    /\ InLoop("recheck") => runKind = "none"
    /\ job[Sched].kind = "refresh" => runKind = "none"

\* What a check stored it publishes; without one the published result is stored.
Stored ==
    /\ \A c \in Caller : pc[c] = "publish" => lastResult = ResultOf(c)
    /\ last.status = "done" /\ (\A c \in Caller : pc[c] # "publish")
           => last = lastResult

\* A quick check carries the published reason.
QuickReason ==
    \A c \in Caller : pc[c] \in InCheck /\ job[c].kind = "refresh"
                          => job[c].reason = last.reason

\* The instances a decision is about, as Affected finds them.
Scope(reason) == IF reason \in ProtectReason THEN Listed ELSE {Target}

\* Every instance a check is about is still to do, dealt with, or released, and
\* it only acts on those.
Covering ==
    \A c \in Caller :
        /\ pc[c] \notin InCheck => job[c].handled = {}
        /\ pc[c] \in {"look", "request"} => job[c].kind = "run"
        /\ pc[c] = "request" => job[c].cur \in job[c].todo
        /\ pc[c] \in InCheck /\ job[c].kind = "run" =>
             /\ pc[c] \in {"record", "save", "publish"} => job[c].todo = {}
             /\ job[c].todo \subseteq Scope(job[c].reason)
             /\ \A i \in Scope(job[c].reason) :
                    \/ i \in job[c].todo \cup job[c].handled
                    \/ ecs[i] = "Released"

\* SettingsNotForgotten, with what the end of a regular check may rely on.
SettingsKept ==
    unseen => \/ runNow
              \/ \E w \in Web : pc[w] = "signal"
              \/ /\ regularDue
                 /\ ~(runKind = "regular" /\ pc[Sched] \in InCheck \cup {"ok", "err"})

\* Together they hold after every step if they held before it.
IInv ==
    /\ Mutex /\ Kinds /\ Stored /\ QuickReason /\ Covering
    /\ SettingsKept /\ NoLostPoll /\ StartUnderThreshold

-----------------------------------------------------------------------------
(* What the documents say and the code does not do.                        *)

\* README.md, under the strategies: when a start ends without the instance (no
\* stock), the service goes on trying to start it in its next checks.
StoppedIsRetried ==
    <>[]within =>
        (ecs[Target] = "Stopped" /\ last.ecs = "Starting"
            ~> pc[Sched] = "lock" /\ job[Sched].kind = "run")

=============================================================================
