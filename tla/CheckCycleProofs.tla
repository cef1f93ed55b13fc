-------------------------- MODULE CheckCycleProofs --------------------------
(***************************************************************************)
(* Theorems about CheckCycle for every number of requests, every set of    *)
(* instances, of modes and of faults.                                      *)
(***************************************************************************)
EXTENDS CheckCycle, TLAPS

-----------------------------------------------------------------------------
(* What the operators of a check return.                                   *)

\* RunOnce ends its switch with one of the reasons, and with a start only
\* under the traffic threshold.
LEMMA DecideType ==
    ASSUME NEW over \in BOOLEAN, NEW low \in BOOLEAN, NEW win \in BOOLEAN,
           NEW m \in Mode
    PROVE  /\ Decide(over, m, low, win) \in Reason
           /\ Decide(over, m, low, win) \in StartReason => ~over
  BY DEF Decide, Mode, Reason, StartReason, StopReason, ProtectReason

\* The fallback status of a decision is a status or empty.
LEMMA FallbackType ==
    ASSUME NEW reason, NEW requested \in BOOLEAN
    PROVE  Fallback(reason, requested) \in EcsStatus \cup {""}
  BY DEF Fallback, EcsStatus

\* recordInstanceState stores a status or nothing.
LEMMA ObservedType ==
    ASSUME NEW seen \in CloudStatus, NEW fallback \in EcsStatus \cup {""}
    PROVE  Observed(seen, fallback) \in EcsStatus \cup {""}
  BY DEF Observed, CloudStatus, EcsStatus

\* Decisions act on instances of the account.
LEMMA AffectedType ==
    ASSUME NEW reason PROVE Affected(reason) \in SUBSET Instance
  BY InstanceAssumption DEF Affected

\* The results SetFailure and SetUninitialized publish.
LEMMA BareType ==
    ASSUME NEW status \in {"never", "uninit", "failed"}
    PROVE  /\ Bare(status) \in Result
           /\ Bare(status).status = status /\ Bare(status).ecs = ""
  BY DEF Bare, Result

\* The locals of a goroutine that runs no check.
LEMMA NoJobType == NoJob \in Job
  BY InstanceAssumption DEF NoJob, Job

\* The result of a check is a result.
LEMMA ResultType ==
    ASSUME NEW c, job[c] \in Job
    PROVE  ResultOf(c) \in Result
  BY DEF ResultOf, Result, Job

\* The scheduler is not a request, and nobody is called Free.
LEMMA Callers ==
    /\ Sched \in Caller /\ Sched \notin Web /\ Free \notin Caller
    /\ Web \subseteq Caller
  BY CallerAssumption DEF Caller

\* Assigning one caller's locals keeps the type of all.
LEMMA JobUpdate ==
    ASSUME job \in [Caller -> Job], NEW c \in Caller, NEW j \in Job,
           job' = [job EXCEPT ![c] = j]
    PROVE  job' \in [Caller -> Job]
  OBVIOUS

\* A move of a goroutine keeps the type of pc.
LEMMA GotoType ==
    ASSUME pc \in [Caller -> CallPC \cup SchedPC \cup WebPC], NEW c \in Caller,
           NEW to \in CallPC \cup SchedPC \cup WebPC, Goto(c, to)
    PROVE  pc' \in [Caller -> CallPC \cup SchedPC \cup WebPC]
  BY DEF Goto

-----------------------------------------------------------------------------
(* Type correctness.                                                       *)

\* The initial states are well typed.
LEMMA InitType == Init => TypeOK
  <1> SUFFICES ASSUME Init PROVE TypeOK
    OBVIOUS
  <1>1. ecs \in [Instance -> CloudStatus]
    BY DEF Init, CloudStatus
  <1>2. lastResult \in Result /\ last \in Result
    BY BareType DEF Init
  <1>3. job \in [Caller -> Job]
    BY NoJobType DEF Init
  <1>4. pc \in [Caller -> CallPC \cup SchedPC \cup WebPC]
    BY DEF Init, SchedPC, WebPC
  <1> QED
    BY <1>1, <1>2, <1>3, <1>4 DEF Init, TypeOK, Mode

\* A step of RunOnce or RefreshECSStatus keeps every variable in its type.
LEMMA CheckType ==
    ASSUME TypeOK, NEW c \in Caller, Check(c)
    PROVE  TypeOK'
  <1> DEFINE PC == CallPC \cup SchedPC \cup WebPC
  <1>0. /\ job[c] \in Job /\ job \in [Caller -> Job] /\ pc \in [Caller -> PC]
        /\ job[c].fallback \in EcsStatus \cup {""}
        /\ job[c].reason \in Reason \cup {""}
        /\ job[c].todo \in SUBSET Instance /\ job[c].handled \in SUBSET Instance
        /\ job[c].cur \in Instance /\ last \in Result
    BY DEF TypeOK, Job
  <1>p. \A to \in CallPC : Goto(c, to) => pc' \in [Caller -> PC]
    BY <1>0, GotoType
  <1>c. \A todo : Continue(todo) \in CallPC
    BY DEF Continue, CallPC, InCheck
  <1>k. {"lock", "ok", "err", "look", "request", "record", "save", "publish"}
           \subseteq CallPC
    BY DEF CallPC, InCheck
  <1>r. ASSUME NEW how \in {"ok", "err"}, Return(c, how)
        PROVE  /\ pc' \in [Caller -> PC] /\ job' \in [Caller -> Job]
               /\ runMu' = Free
    <2>1. pc' \in [Caller -> PC]
      BY <1>r, <1>p, <1>k DEF Return
    <2>2. job' \in [Caller -> Job]
      BY <1>r, <1>0, NoJobType, JobUpdate DEF Return
    <2> QED
      BY <1>r, <2>1, <2>2 DEF Return
  <1>1. CASE BeginRun(c)
    <2>1. PICK over \in BOOLEAN, low \in BOOLEAN :
             LET reason == Decide(over, mode, low, within)
                 todo   == Affected(reason)
             IN  /\ metrics' = IF over THEN "over" ELSE "under"
                 /\ Goto(c, Continue(todo))
                 /\ job' = [job EXCEPT ![c] =
                      [@ EXCEPT !.reason = reason, !.todo = todo,
                                !.fallback = Fallback(reason, FALSE)]]
      BY <1>1 DEF BeginRun, Possible
    <2> DEFINE reason == Decide(over, mode, low, within)
               todo   == Affected(reason)
               back   == Fallback(reason, FALSE)
               j      == [job[c] EXCEPT !.reason = reason, !.todo = todo,
                                        !.fallback = back]
    <2>2. /\ reason \in Reason /\ todo \in SUBSET Instance
          /\ back \in EcsStatus \cup {""}
      BY DecideType, AffectedType, FallbackType DEF TypeOK
    <2>3. pc' \in [Caller -> PC]
      BY <2>1, <1>p, <1>c
    <2>4. job' = [job EXCEPT ![c] = j]
      BY <2>1
    <2>5. j \in Job
      <3> HIDE DEF reason, todo, back
      <3> QED BY <2>2, <1>0 DEF Job
    <2>6. job' \in [Caller -> Job]
      BY <2>4, <2>5, <1>0, JobUpdate
    <2> QED
      BY <1>1, <2>1, <2>3, <2>6
         DEF TypeOK, BeginRun, TakeLock, cloudVars, chanVars, loopVars
  <1>2. CASE BeginRefresh(c)
    <2> DEFINE j == [job[c] EXCEPT !.status = last.status, !.fallback = last.ecs,
                                   !.reason = last.reason]
    <2>1. j \in Job
      BY <1>0 DEF Job, Result
    <2>2. job' \in [Caller -> Job]
      BY <1>2, <2>1, <1>0, JobUpdate DEF BeginRefresh
    <2>3. pc' \in [Caller -> PC]
      BY <1>2, <1>p, <1>k DEF BeginRefresh
    <2> QED
      BY <1>2, <2>2, <2>3 DEF TypeOK, BeginRefresh, TakeLock, cloudVars,
                              storeVars, chanVars, loopVars
  <1>3. CASE BeginFails(c)
    <2>1. metrics' \in {"none", "over", "under"} /\ unseen' \in BOOLEAN
      BY <1>3 DEF BeginFails, TypeOK
    <2>2. pc' \in [Caller -> PC]
      BY <1>3, <1>p, <1>k DEF BeginFails
    <2>3. job' \in [Caller -> Job]
      BY <1>3, <1>0, NoJobType, JobUpdate DEF BeginFails
    <2> QED
      BY <1>3, <2>1, <2>2, <2>3 DEF TypeOK, BeginFails, cloudVars, chanVars,
                                    loopVars
  <1>4. CASE Look(c)
    <2>1. PICK i \in job[c].todo :
             LET goal == IF job[c].reason \in StartReason THEN "Running" ELSE "Stopped"
                 rest == job[c].todo \ {i}
             IN  IF ecs[i] = goal
                 THEN /\ Goto(c, Continue(rest))
                      /\ job' = [job EXCEPT ![c] =
                           [@ EXCEPT !.todo = rest,
                                     !.handled = job[c].handled \cup {i}]]
                 ELSE /\ Goto(c, "request")
                      /\ job' = [job EXCEPT ![c].cur = i]
      BY <1>4 DEF Look
    <2>2. pc' \in [Caller -> PC]
      BY <2>1, <1>p, <1>c, <1>k
    <2> DEFINE done == [job[c] EXCEPT !.todo = job[c].todo \ {i},
                                      !.handled = job[c].handled \cup {i}]
               next == [job[c] EXCEPT !.cur = i]
    <2>3. i \in Instance /\ done \in Job /\ next \in Job
      BY <1>0, <2>1 DEF Job
    <2>4. job' = [job EXCEPT ![c] = done] \/ job' = [job EXCEPT ![c] = next]
      BY <1>0, <2>1
    <2>5. job' \in [Caller -> Job]
      <3> HIDE DEF done, next
      <3> QED BY <2>3, <2>4, <1>0, JobUpdate
    <2> QED
      BY <1>4, <2>2, <2>5 DEF TypeOK, Look, cloudVars, storeVars, chanVars,
                              loopVars
  <1>5. ASSUME Accepted(job[c].reason, job[c].cur)
        PROVE  ecs' \in [Instance -> CloudStatus]
    BY <1>0, <1>5 DEF Accepted, CloudStatus, EcsStatus, TypeOK
  <1>6. CASE Request(c)
    <2> DEFINE back == Fallback(job[c].reason, TRUE)
               rest == job[c].todo \ {job[c].cur}
               j == [job[c] EXCEPT !.todo = rest,
                                   !.handled = job[c].handled \cup {job[c].cur},
                                   !.fallback = back]
    <2>1. back \in EcsStatus \cup {""}
      BY FallbackType
    <2>2. j \in Job
      <3> HIDE DEF back
      <3> QED BY <2>1, <1>0 DEF Job
    <2>6. job' = [job EXCEPT ![c] = j]
      BY <1>6, <1>0 DEF Request
    <2>3. job' \in [Caller -> Job]
      <3> HIDE DEF j
      <3> QED BY <2>2, <2>6, <1>0, JobUpdate
    <2>4. pc' \in [Caller -> PC]
      BY <1>6, <1>p, <1>c DEF Request
    <2>5. ecs' \in [Instance -> CloudStatus]
      BY <1>6, <1>5 DEF Request
    <2> QED
      BY <1>6, <2>3, <2>4, <2>5 DEF TypeOK, Request, storeVars, chanVars, loopVars
  <1>7. CASE AnswerLost(c)
    <2>1. ecs' \in [Instance -> CloudStatus]
      BY <1>7, <1>5 DEF AnswerLost
    <2> QED
      BY <1>7, <1>r, <2>1 DEF TypeOK, AnswerLost, storeVars, chanVars, loopVars
  <1>8. CASE CallFails(c)
    BY <1>8, <1>r DEF TypeOK, CallFails, cloudVars, storeVars, chanVars, loopVars
  <1>9. CASE SaveLastResult(c)
    <2>1. lastResult' \in Result
      BY <1>9, <1>0, ResultType DEF SaveLastResult
    <2>2. pc' \in [Caller -> PC]
      BY <1>9, <1>p, <1>k DEF SaveLastResult
    <2> QED
      BY <1>9, <2>1, <2>2 DEF TypeOK, SaveLastResult, cloudVars, chanVars, loopVars
  <1>10. CASE Publish(c)
    <2>1. last' \in Result
      BY <1>10, <1>0, ResultType DEF Publish
    <2> QED
      BY <1>10, <1>r, <2>1 DEF TypeOK, Publish, cloudVars, storeVars, chanVars,
                               loopVars
  <1>11. CASE Record(c)
    <2> DEFINE seen == Observed(ecs[Target], job[c].fallback)
    <2>1. seen \in EcsStatus \cup {""}
      BY <1>0, InstanceAssumption, ObservedType DEF TypeOK
    <2>2. [job[c] EXCEPT !.fallback = seen] \in Job
      <3> HIDE DEF seen
      <3> QED BY <2>1, <1>0 DEF Job
    <2>3. job' = [job EXCEPT ![c] = [job[c] EXCEPT !.fallback = seen]]
      BY <1>11 DEF Record
    <2>4. job' \in [Caller -> Job]
      BY <2>2, <2>3, <1>0, JobUpdate
    <2>5. pc' \in [Caller -> PC]
      BY <1>11, <1>p, <1>k DEF Record
    <2> QED
      BY <1>11, <2>4, <2>5 DEF TypeOK, Record, cloudVars, storeVars, chanVars,
                               loopVars
  <1> QED
    BY <1>1, <1>2, <1>3, <1>4, <1>6, <1>7, <1>8, <1>9, <1>10, <1>11 DEF Check, Work

\* A step of Scheduler.Run keeps every variable in its type.
LEMMA LoopType ==
    ASSUME TypeOK, Loop
    PROVE  TypeOK'
  <1> DEFINE PC == CallPC \cup SchedPC \cup WebPC
  <1>0. pc \in [Caller -> PC] /\ job \in [Caller -> Job] /\ Sched \in Caller
    BY Callers DEF TypeOK
  <1>p. \A to \in SchedPC \cup CallPC : Goto(Sched, to) => pc' \in [Caller -> PC]
    BY <1>0, GotoType
  <1>k. /\ {"top", "forget", "uninit", "recheck", "plan", "poll", "regular",
            "boundary"} \subseteq SchedPC
        /\ "lock" \in CallPC
    BY DEF SchedPC, SleepPC, CallPC
  <1>c. ASSUME NEW kind \in {"run", "refresh"}, Call(Sched, kind)
        PROVE  pc' \in [Caller -> PC] /\ job' \in [Caller -> Job]
    <2>1. pc' \in [Caller -> PC]
      BY <1>c, <1>p, <1>k DEF Call
    <2>2. [job[Sched] EXCEPT !.kind = kind] \in Job
      BY <1>0 DEF Job
    <2>3. job' \in [Caller -> Job]
      BY <1>c, <1>0, <2>2, JobUpdate DEF Call
    <2> QED
      BY <2>1, <2>3
  <1>1. CASE Top
    <2>1. pc' \in [Caller -> PC] /\ job' \in [Caller -> Job]
          /\ runKind' \in {"none", "regular", "boundary"}
      BY <1>1, <1>0, <1>p, <1>k, <1>c DEF Top, TypeOK
    <2> QED
      BY <1>1, <2>1 DEF TypeOK, Top, cloudVars, storeVars, chanVars
  <1>2. CASE SetUninitialized
    <2>1. pc' \in [Caller -> PC] /\ last' \in Result
      BY <1>2, <1>p, <1>k, BareType DEF SetUninitialized
    <2> QED
      BY <1>2, <2>1
         DEF TypeOK, SetUninitialized, cloudVars, storeVars, chanVars, loopVars
  <1>3. CASE Initialized
    <2>1. pc' \in [Caller -> PC]
      BY <1>3, <1>p, <1>k DEF Initialized
    <2> QED
      BY <1>3, <2>1 DEF TypeOK, Initialized, cloudVars, storeVars
  <1>4. CASE Recheck
    <2>1. pc' \in [Caller -> PC] /\ job' \in [Caller -> Job]
      BY <1>4, <1>0, <1>p, <1>k, <1>c DEF Recheck
    <2> QED
      BY <1>4, <2>1 DEF TypeOK, Recheck, cloudVars, storeVars, chanVars, loopVars
  <1>5. CASE Handle
    <2>1. pc' \in [Caller -> PC] /\ last' \in Result
      BY <1>5, <1>p, <1>k, BareType DEF Handle, TypeOK
    <2>2. forceRun' \in BOOLEAN /\ nextRegular' \in {"unset", "waiting", "due"}
      BY <1>5 DEF Handle, AfterCheck, TypeOK
    <2> QED
      BY <1>5, <2>1, <2>2 DEF TypeOK, Handle, cloudVars, storeVars, chanVars
  <1>6. CASE Plan
    <2>1. pc' \in [Caller -> PC]
      BY <1>6, <1>p, <1>k DEF Plan
    <2> QED
      BY <1>6, <2>1 DEF TypeOK, Plan, cloudVars, storeVars, chanVars
  <1>7. CASE Woken
    <2>1. pc' \in [Caller -> PC]
      BY <1>7, <1>p, <1>k DEF Woken
    <2>2. /\ wake' = FALSE
          /\ UNCHANGED <<cloudVars, storeVars, last, runMu, job, runNow, loopVars,
                         unseen>>
      BY <1>7 DEF Woken
    <2>3. wake' \in BOOLEAN /\ runNow' \in BOOLEAN /\ unseen' \in BOOLEAN
      BY <2>2 DEF TypeOK
    <2>4. /\ forceRun' \in BOOLEAN /\ runKind' \in {"none", "regular", "boundary"}
          /\ nextRegular' \in {"unset", "waiting", "due"} /\ boundaryDue' \in BOOLEAN
      BY <2>2 DEF TypeOK, loopVars
    <2>5. /\ ecs' \in [Instance -> CloudStatus]
          /\ mode' \in Mode /\ within' \in BOOLEAN /\ configured' \in BOOLEAN
          /\ metrics' \in {"none", "over", "under"}
          /\ lastResult' \in Result /\ last' \in Result
      BY <2>2 DEF TypeOK, cloudVars, storeVars
    <2>6. runMu' \in Caller \cup {Free} /\ job' \in [Caller -> Job]
      BY <2>2 DEF TypeOK
    <2> QED
      BY <2>1, <2>3, <2>4, <2>5, <2>6 DEF TypeOK
  <1>8. CASE RunRequested
    <2>1. pc' \in [Caller -> PC]
      BY <1>8, <1>p, <1>k DEF RunRequested
    <2>2. /\ runNow' = FALSE /\ forceRun' = TRUE
          /\ UNCHANGED <<cloudVars, storeVars, last, runMu, job, wake, runKind,
                         nextRegular, boundaryDue, unseen>>
      BY <1>8 DEF RunRequested
    <2> QED
      BY <2>1, <2>2 DEF TypeOK, cloudVars, storeVars
  <1>9. CASE Timer
    <2>1. pc' \in [Caller -> PC]
      BY <1>9, <1>p, <1>k DEF Timer
    <2> QED
      BY <1>9, <2>1 DEF TypeOK, Timer, cloudVars, storeVars, chanVars, loopVars
  <1> QED
    BY <1>1, <1>2, <1>3, <1>4, <1>5, <1>6, <1>7, <1>8, <1>9 DEF Loop

\* A step of a handler of the web server keeps every variable in its type.
LEMMA HandlerType ==
    ASSUME TypeOK, NEW w \in Web, Handler(w)
    PROVE  TypeOK'
  <1> DEFINE PC == CallPC \cup SchedPC \cup WebPC
  <1>0. pc \in [Caller -> PC] /\ job \in [Caller -> Job] /\ w \in Caller
    BY Callers DEF TypeOK
  <1>p. \A to \in WebPC \cup {"lock"} : Goto(w, to) => pc' \in [Caller -> PC]
    BY <1>0, GotoType DEF CallPC
  <1>k. {"idle", "signal", "notify"} \subseteq WebPC
    BY DEF WebPC
  <1>1. CASE RunRequest(w)
    <2>1. pc' \in [Caller -> PC]
      BY <1>1, <1>p DEF RunRequest, Call
    <2>2. [job[w] EXCEPT !.kind = "run"] \in Job
      BY <1>0 DEF Job
    <2>3. job' \in [Caller -> Job]
      BY <1>1, <1>0, <2>2, JobUpdate DEF RunRequest, Call
    <2> QED
      BY <1>1, <2>1, <2>3 DEF TypeOK, RunRequest, cloudVars, storeVars, chanVars, loopVars
  <1>2. CASE RunReply(w)
    <2>1. wake' \in BOOLEAN
      BY <1>2 DEF RunReply, NotifyIfTransitioning, Transitioning, TypeOK
    <2>2. pc' \in [Caller -> PC]
      BY <1>2, <1>p, <1>k DEF RunReply
    <2> QED
      BY <1>2, <2>1, <2>2 DEF TypeOK, RunReply, cloudVars, storeVars, loopVars
  <1>3. CASE SaveSettings(w)
    <2>1. mode' \in Mode
      BY <1>3, ModesAssumption DEF SaveSettings, Mode
    <2>2. pc' \in [Caller -> PC]
      BY <1>3, <1>p, <1>k DEF SaveSettings
    <2> QED
      BY <1>3, <2>1, <2>2 DEF TypeOK, SaveSettings, storeVars, chanVars, loopVars
  <1>4. CASE Signal(w)
    <2>1. pc' \in [Caller -> PC]
      BY <1>4, <1>p, <1>k DEF Signal
    <2> QED
      BY <1>4, <2>1 DEF TypeOK, Signal, RunImmediately, cloudVars, storeVars, loopVars
  <1>5. CASE Initialize(w)
    <2>1. pc' \in [Caller -> PC]
      BY <1>5, <1>p, <1>k DEF Initialize
    <2> QED
      BY <1>5, <2>1 DEF TypeOK, Initialize, Mode, storeVars, chanVars, loopVars
  <1>6. CASE Notify(w)
    <2>1. pc' \in [Caller -> PC]
      BY <1>6, <1>p, <1>k DEF Notify
    <2> QED
      BY <1>6, <2>1 DEF TypeOK, Notify, cloudVars, storeVars, loopVars
  <1> QED
    BY <1>1, <1>2, <1>3, <1>4, <1>5, <1>6 DEF Handler

\* A step of the cloud, of time, or a crash keeps every variable in its type.
LEMMA EnvironmentType ==
    ASSUME TypeOK, Environment
    PROVE  TypeOK'
  <1>1. ASSUME NEW i \in Instance,
               \/ CloudProgress(i) \/ NoStock(i) \/ Reclaim(i) \/ Release(i)
               \/ OwnerStarts(i)
        PROVE  TypeOK'
    <2>1. PICK status \in CloudStatus : Becomes(i, status)
      BY <1>1 DEF CloudProgress, NoStock, Reclaim, Release, OwnerStarts,
                  CloudStatus, EcsStatus
    <2> QED
      BY <2>1 DEF TypeOK, Becomes, storeVars, callVars, chanVars, loopVars
  <1>2. CASE WindowMoves
    BY <1>2 DEF TypeOK, WindowMoves, storeVars, callVars, chanVars, loopVars
  <1>3. CASE BoundaryPasses
    BY <1>3 DEF TypeOK, BoundaryPasses, cloudVars, storeVars, callVars, chanVars
  <1>4. CASE RegularPasses
    BY <1>4 DEF TypeOK, RegularPasses, cloudVars, storeVars, callVars, chanVars
  <1>5. CASE Crash
    <2>1. pc' \in [Caller -> CallPC \cup SchedPC \cup WebPC]
      BY <1>5 DEF Crash, SchedPC, WebPC
    <2>2. job' \in [Caller -> Job] /\ last' \in Result
      BY <1>5, NoJobType, BareType DEF Crash
    <2> QED
      BY <1>5, <2>1, <2>2 DEF TypeOK, Crash, cloudVars, storeVars
  <1> QED
    BY <1>1, <1>2, <1>3, <1>4, <1>5 DEF Environment

\* Every variable keeps its type.
THEOREM TypeCorrect == Spec => []TypeOK
  <1>1. ASSUME TypeOK, [Next]_vars PROVE TypeOK'
    <2>1. CASE UNCHANGED vars
      BY <1>1, <2>1 DEF TypeOK, vars, cloudVars, storeVars, callVars, chanVars,
                        loopVars
    <2> QED
      BY <1>1, <2>1, CheckType, LoopType, HandlerType, EnvironmentType DEF Next
  <1> QED
    BY InitType, <1>1, PTL DEF Spec

-----------------------------------------------------------------------------
(* Mutual exclusion.                                                       *)

\* How a step of a check moves its goroutine and the mutex.
LEMMA CheckMoves ==
    ASSUME TypeOK, NEW c \in Caller, Check(c)
    PROVE  /\ \A d \in Caller \ {c} : pc'[d] = pc[d]
           /\ \/ pc[c] = "lock" /\ pc'[c] \in InCheck /\ runMu = Free /\ runMu' = c
              \/ pc[c] = "lock" /\ pc'[c] = "err" /\ runMu = Free /\ runMu' = Free
              \/ pc[c] \in InCheck /\ pc'[c] \in InCheck /\ runMu' = runMu
              \/ pc[c] \in InCheck /\ pc'[c] \in {"ok", "err"} /\ runMu' = Free
  <1> USE DEF Goto, InCheck
  <1>0. pc \in [Caller -> CallPC \cup SchedPC \cup WebPC]
    BY DEF TypeOK
  <1>1. CASE BeginRun(c)
    BY <1>0, <1>1 DEF BeginRun, TakeLock, Continue
  <1>2. CASE BeginRefresh(c)
    BY <1>0, <1>2 DEF BeginRefresh, TakeLock
  <1>3. CASE BeginFails(c)
    BY <1>0, <1>3 DEF BeginFails
  <1>4. CASE Look(c)
    BY <1>0, <1>4 DEF Look, Continue
  <1>5. CASE Request(c)
    BY <1>0, <1>5 DEF Request, Continue
  <1>6. CASE AnswerLost(c)
    BY <1>0, <1>6 DEF AnswerLost, Return
  <1>7. CASE CallFails(c)
    BY <1>0, <1>7 DEF CallFails, Return
  <1>8. CASE SaveLastResult(c)
    BY <1>0, <1>8 DEF SaveLastResult
  <1>9. CASE Publish(c)
    BY <1>0, <1>9 DEF Publish, Return
  <1>10. CASE Record(c)
    BY <1>0, <1>10 DEF Record
  <1> QED
    BY <1>1, <1>2, <1>3, <1>4, <1>5, <1>6, <1>7, <1>8, <1>9, <1>10 DEF Check, Work

\* The loop moves the scheduler only, outside the checks.
LEMMA LoopMoves ==
    ASSUME TypeOK, Loop
    PROVE  /\ \A w \in Web : pc'[w] = pc[w] /\ job'[w] = job[w]
           /\ pc[Sched] \notin InCheck /\ pc'[Sched] \notin InCheck
           /\ runMu' = runMu
  <1> USE DEF Goto, Call, InCheck, InLoop, Asleep, SleepPC
  <1>0. /\ pc \in [Caller -> CallPC \cup SchedPC \cup WebPC]
        /\ job \in [Caller -> Job]
        /\ Sched \in Caller /\ Sched \notin Web /\ Web \subseteq Caller
    BY Callers DEF TypeOK
  <1>1. CASE Top
    BY <1>0, <1>1 DEF Top
  <1>2. CASE SetUninitialized
    BY <1>0, <1>2 DEF SetUninitialized
  <1>3. CASE Initialized
    BY <1>0, <1>3 DEF Initialized
  <1>4. CASE Recheck
    BY <1>0, <1>4 DEF Recheck
  <1>5. CASE Handle
    BY <1>0, <1>5 DEF Handle
  <1>6. CASE Plan
    BY <1>0, <1>6 DEF Plan
  <1>7. CASE Woken
    BY <1>0, <1>7 DEF Woken
  <1>8. CASE RunRequested
    BY <1>0, <1>8 DEF RunRequested
  <1>9. CASE Timer
    BY <1>0, <1>9 DEF Timer
  <1> QED
    BY <1>1, <1>2, <1>3, <1>4, <1>5, <1>6, <1>7, <1>8, <1>9 DEF Loop

\* A handler moves its own goroutine only, outside the checks, and changes
\* neither what is published nor what is stored.
LEMMA HandlerMoves ==
    ASSUME TypeOK, NEW w \in Web, Handler(w)
    PROVE  /\ \A d \in Caller \ {w} : pc'[d] = pc[d] /\ job'[d] = job[d]
           /\ pc[w] \notin InCheck /\ pc'[w] \notin InCheck
           /\ job'[w].kind \in {job[w].kind, "run"}
           /\ UNCHANGED <<runMu, last, lastResult, metrics, ecs, runKind>>
  <1> USE DEF Goto, Call, InCheck, storeVars, cloudVars, loopVars
  <1>0. /\ pc \in [Caller -> CallPC \cup SchedPC \cup WebPC]
        /\ job \in [Caller -> Job] /\ w \in Caller
    BY Callers DEF TypeOK
  <1>1. CASE RunRequest(w)
    BY <1>0, <1>1 DEF RunRequest, Job
  <1>2. CASE RunReply(w)
    BY <1>0, <1>2 DEF RunReply
  <1>3. CASE SaveSettings(w)
    BY <1>0, <1>3 DEF SaveSettings
  <1>4. CASE Signal(w)
    BY <1>0, <1>4 DEF Signal
  <1>5. CASE Initialize(w)
    BY <1>0, <1>5 DEF Initialize
  <1>6. CASE Notify(w)
    BY <1>0, <1>6 DEF Notify
  <1> QED
    BY <1>1, <1>2, <1>3, <1>4, <1>5, <1>6 DEF Handler

\* The environment moves nothing of the process, or the process is gone.
LEMMA EnvironmentMoves ==
    ASSUME Environment
    PROVE  \/ /\ UNCHANGED <<pc, job, runMu, last, metrics, lastResult, wake, runNow,
                            forceRun, runKind, unseen>>
             /\ nextRegular' \in {nextRegular, "due"}
             /\ \A i \in Instance : ecs[i] = "Released" /\ ecs \in [Instance -> CloudStatus]
                                      => ecs'[i] = "Released"
          \/ Crash
  <1> USE DEF callVars, chanVars, loopVars, storeVars, cloudVars, Becomes
  <1>1. ASSUME NEW i \in Instance, CloudProgress(i)
        PROVE  \E status \in EcsStatus : ecs[i] # "Released" /\ Becomes(i, status)
    BY <1>1 DEF CloudProgress, EcsStatus
  <1>2. ASSUME NEW i \in Instance,
               NoStock(i) \/ Reclaim(i) \/ OwnerStarts(i)
        PROVE  \E status \in EcsStatus : ecs[i] # "Released" /\ Becomes(i, status)
    BY <1>2 DEF NoStock, Reclaim, OwnerStarts, EcsStatus
  <1>3. ASSUME NEW i \in Instance, NEW status \in EcsStatus, ecs[i] # "Released",
               Becomes(i, status)
        PROVE  /\ UNCHANGED <<pc, job, runMu, last, metrics, lastResult, wake, runNow,
                              forceRun, runKind, unseen, nextRegular>>
               /\ \A k \in Instance : ecs[k] = "Released" /\ ecs \in [Instance -> CloudStatus]
                                        => ecs'[k] = "Released"
    BY <1>3
  <1>4. ASSUME NEW i \in Instance, Release(i)
        PROVE  /\ UNCHANGED <<pc, job, runMu, last, metrics, lastResult, wake, runNow,
                              forceRun, runKind, unseen, nextRegular>>
               /\ \A k \in Instance : ecs[k] = "Released" /\ ecs \in [Instance -> CloudStatus]
                                        => ecs'[k] = "Released"
    BY <1>4 DEF Release
  <1>5. CASE WindowMoves \/ BoundaryPasses \/ RegularPasses
    BY <1>5 DEF WindowMoves, BoundaryPasses, RegularPasses
  <1> QED
    BY <1>1, <1>2, <1>3, <1>4, <1>5 DEF Environment

\* After a crash no goroutine is in a check.
LEMMA CrashMoves ==
    ASSUME Crash
    PROVE  /\ runMu' = Free /\ runKind' = "none" /\ nextRegular' = "unset"
           /\ last'.status = "never" /\ last'.ecs = ""
           /\ pc'[Sched] = "top"
           /\ \A c \in Caller : pc'[c] \in {"top", "idle"} /\ job'[c] = NoJob
  BY Callers DEF Crash, Bare

\* Nobody is inside a check when the process starts.
LEMMA MutexInit == Init => Mutex
  BY Callers DEF Init, Mutex, InCheck

\* Every step leaves the goroutines inside a check to be the holder of runMu.
LEMMA MutexStep ==
    ASSUME TypeOK, Mutex, [Next]_vars
    PROVE  Mutex'
  <1> USE DEF Mutex
  <1>1. ASSUME NEW c \in Caller, Check(c) PROVE Mutex'
    BY <1>1, CheckMoves, Callers DEF InCheck
  <1>2. CASE Loop
    BY <1>2, LoopMoves, Callers DEF Caller
  <1>3. ASSUME NEW w \in Web, Handler(w) PROVE Mutex'
    BY <1>3, HandlerMoves, Callers
  <1>4. CASE Environment
    <2>1. CASE Crash
      BY <2>1, CrashMoves, Callers DEF InCheck
    <2> QED
      BY <1>4, <2>1, EnvironmentMoves
  <1>5. CASE UNCHANGED vars
    BY <1>5 DEF vars, callVars
  <1> QED
    BY <1>1, <1>2, <1>3, <1>4, <1>5 DEF Next

\* One check at a time: Service.runMu.
THEOREM MutualExclusion == Spec => []Mutex
  BY MutexInit, MutexStep, TypeCorrect, PTL DEF Spec

-----------------------------------------------------------------------------
(* The transition is polled.                                               *)

\* NoLostPoll is inductive with the types.
LEMMA NoLostPollStep ==
    ASSUME TypeOK, NoLostPoll, [Next]_vars
    PROVE  NoLostPoll'
  <1> USE DEF NoLostPoll, Transitioning, InLoop
  <1>0. /\ Sched \in Caller /\ Sched \notin Web /\ Web \subseteq Caller
        /\ pc \in [Caller -> CallPC \cup SchedPC \cup WebPC]
    BY Callers DEF TypeOK
  <1>1. ASSUME NEW c \in Caller, Check(c), pc'[Sched] \in {"regular", "boundary"}
        PROVE  \/ UNCHANGED last /\ UNCHANGED wake /\ pc[c] # "ok"
               \/ c \in Web /\ pc'[c] = "ok"
    <2>1. pc[c] \in InCheck \cup {"lock"} /\ c # Sched
      BY <1>0, <1>1, CheckMoves DEF InCheck
    <2>2. CASE Publish(c)
      BY <1>0, <2>1, <2>2 DEF Publish, Return, Goto, Caller
    <2>3. CASE Check(c) /\ ~Publish(c)
      BY <2>1, <2>3 DEF Check, Work, BeginRun, BeginRefresh, BeginFails, Look,
           Request, AnswerLost, CallFails, SaveLastResult, Record, chanVars, InCheck
    <2> QED
      BY <1>1, <2>2, <2>3
  <1>2. ASSUME NEW c \in Caller, Check(c) PROVE NoLostPoll'
    BY <1>0, <1>1, <1>2, CheckMoves DEF InCheck
  <1>3. CASE Loop
    <2>1. CASE Plan
      BY <1>0, <2>1 DEF Plan, Goto
    <2>2. CASE Loop /\ ~Plan
      BY <1>0, <2>2 DEF Loop, Top, SetUninitialized, Initialized, Recheck, Handle,
           Woken, RunRequested, Timer, Goto, Call
    <2> QED
      BY <1>3, <2>1, <2>2
  <1>4. ASSUME NEW w \in Web, Handler(w) PROVE NoLostPoll'
    <2>1. CASE RunReply(w)
      BY <1>0, <2>1 DEF RunReply, NotifyIfTransitioning, Goto
    <2>2. CASE Handler(w) /\ ~RunReply(w)
      BY <1>0, <2>2 DEF Handler, RunRequest, SaveSettings, Signal, RunImmediately,
           Initialize, Notify, Goto, Call, chanVars
    <2> QED
      BY <1>4, <2>1, <2>2
  <1>5. CASE Environment
    <2>1. CASE Crash
      BY <2>1, CrashMoves
    <2> QED
      BY <1>5, <2>1, EnvironmentMoves
  <1>6. CASE UNCHANGED vars
    BY <1>6 DEF vars, callVars, chanVars
  <1> QED
    BY <1>2, <1>3, <1>4, <1>5, <1>6 DEF Next

\* The scheduler never sleeps past a transition it should poll.
THEOREM TransitionIsPolled == Spec => []NoLostPoll
  <1>1. Init => NoLostPoll
    BY Callers DEF Init, NoLostPoll, InLoop
  <1> QED
    BY <1>1, NoLostPollStep, TypeCorrect, PTL DEF Spec

-----------------------------------------------------------------------------
(* Saved settings are not forgotten.                                       *)

\* What a step of a check does to the locals and to the loop's variables.
LEMMA CheckLocals ==
    ASSUME TypeOK, NEW c \in Caller, Check(c)
    PROVE  /\ \A d \in Caller \ {c} : job'[d] = job[d]
           /\ job'[c].kind \in {job[c].kind, "run"}
           /\ UNCHANGED <<chanVars, loopVars>>
           /\ unseen' \in {unseen, FALSE}
           /\ pc[c] = "lock" /\ job[c].kind = "run" => unseen' = FALSE
  <1> USE DEF NoJob
  <1>0. job \in [Caller -> Job] /\ job[c] \in Job
    BY DEF TypeOK
  <1>1. CASE BeginRun(c)
    <2>1. PICK over \in Possible("over"), low \in Possible("low") :
             job' = [job EXCEPT ![c] =
               [@ EXCEPT !.reason   = Decide(over, mode, low, within),
                         !.todo     = Affected(Decide(over, mode, low, within)),
                         !.fallback = Fallback(Decide(over, mode, low, within),
                                               FALSE)]]
      BY <1>1 DEF BeginRun
    <2> DEFINE r == Decide(over, mode, low, within)
               t == Affected(r)
               f == Fallback(r, FALSE)
               j == [job[c] EXCEPT !.reason = r, !.todo = t, !.fallback = f]
    <2>2. job' = [job EXCEPT ![c] = j]
      BY <2>1
    <2>3. j.kind = job[c].kind
      <3> HIDE DEF r, t, f
      <3> QED BY <1>0 DEF Job
    <2>4. (\A d \in Caller \ {c} : job'[d] = job[d]) /\ job'[c].kind = job[c].kind
      <3> HIDE DEF j
      <3> QED BY <1>0, <2>2, <2>3
    <2>5. /\ UNCHANGED <<chanVars, loopVars>>
          /\ unseen' = FALSE
      BY <1>1 DEF BeginRun
    <2> QED
      BY <2>4, <2>5
  <1>2. CASE BeginRefresh(c)
    BY <1>0, <1>2 DEF BeginRefresh, Job
  <1>3. CASE BeginFails(c)
    BY <1>0, <1>3 DEF BeginFails
  <1>4. CASE Look(c)
    <2>1. PICK j : job' = [job EXCEPT ![c] = j] /\ j.kind = job[c].kind
      <3>1. PICK i \in job[c].todo :
              \/ job' = [job EXCEPT ![c] =
                           [job[c] EXCEPT !.todo = job[c].todo \ {i},
                                          !.handled = job[c].handled \cup {i}]]
              \/ job' = [job EXCEPT ![c] = [job[c] EXCEPT !.cur = i]]
        BY <1>0, <1>4 DEF Look
      <3> QED
        BY <1>0, <3>1 DEF Job
    <2> QED
      BY <1>0, <1>4, <2>1 DEF Look
  <1>5. CASE Request(c)
    BY <1>0, <1>5 DEF Request, Job
  <1>6. CASE AnswerLost(c)
    BY <1>0, <1>6 DEF AnswerLost, Return
  <1>7. CASE CallFails(c)
    BY <1>0, <1>7 DEF CallFails, Return
  <1>8. CASE SaveLastResult(c)
    BY <1>0, <1>8 DEF SaveLastResult
  <1>9. CASE Publish(c)
    BY <1>0, <1>9 DEF Publish, Return
  <1>10. CASE Record(c)
    BY <1>0, <1>10 DEF Record, Job
  <1> QED
    BY <1>1, <1>2, <1>3, <1>4, <1>5, <1>6, <1>7, <1>8, <1>9, <1>10 DEF Check, Work

\* Once decided, the reason of a check stays until it returns.
LEMMA ReasonStays ==
    ASSUME TypeOK, NEW c \in Caller,
           Look(c) \/ Request(c) \/ SaveLastResult(c) \/ Record(c)
    PROVE  job'[c].reason = job[c].reason
  <1>0. job \in [Caller -> Job] /\ job[c] \in Job
    BY DEF TypeOK
  <1>1. CASE Look(c)
    <2>1. PICK i \in job[c].todo :
            \/ job' = [job EXCEPT ![c] =
                         [job[c] EXCEPT !.todo = job[c].todo \ {i},
                                        !.handled = job[c].handled \cup {i}]]
            \/ job' = [job EXCEPT ![c] = [job[c] EXCEPT !.cur = i]]
      BY <1>0, <1>1 DEF Look
    <2> QED
      BY <1>0, <2>1 DEF Job
  <1>2. CASE Request(c)
    <2> DEFINE j == [job[c] EXCEPT !.todo = job[c].todo \ {job[c].cur},
                                   !.handled = job[c].handled \cup {job[c].cur},
                                   !.fallback = Fallback(job[c].reason, TRUE)]
    <2>1. job' = [job EXCEPT ![c] = j]
      BY <1>2 DEF Request
    <2>2. j.reason = job[c].reason
      BY <1>0 DEF Job
    <2> QED
      BY <1>0, <2>1, <2>2
  <1>3. CASE SaveLastResult(c)
    BY <1>3 DEF SaveLastResult
  <1>4. CASE Record(c)
    <2> DEFINE j == [job[c] EXCEPT !.fallback = Observed(ecs[Target], job[c].fallback)]
    <2>1. job' = [job EXCEPT ![c] = j]
      BY <1>4 DEF Record
    <2>2. j.reason = job[c].reason
      BY <1>0 DEF Job
    <2> QED
      BY <1>0, <2>1, <2>2
  <1> QED
    BY <1>1, <1>2, <1>3, <1>4

\* A call of RunOnce or RefreshECSStatus notes which it is.
LEMMA CallKind ==
    ASSUME TypeOK, NEW c \in Caller, NEW kind, Call(c, kind)
    PROVE  job'[c].kind = kind /\ pc'[c] = "lock"
  <1>1. /\ job \in [Caller -> Job] /\ job[c] \in Job
        /\ pc \in [Caller -> CallPC \cup SchedPC \cup WebPC]
    BY DEF TypeOK
  <1>2. job'[c] = [job[c] EXCEPT !.kind = kind]
    BY <1>1 DEF Call
  <1>3. [job[c] EXCEPT !.kind = kind].kind = kind
    BY <1>1 DEF Job
  <1> QED
    BY <1>1, <1>2, <1>3 DEF Call, Goto

\* Every step keeps quick checks to the scheduler, when no full check is due.
LEMMA KindsStep ==
    ASSUME TypeOK, Kinds, [Next]_vars
    PROVE  Kinds'
  <1> USE DEF Kinds, InLoop
  <1>0. /\ Sched \in Caller /\ Sched \notin Web /\ Web \subseteq Caller
        /\ pc \in [Caller -> CallPC \cup SchedPC \cup WebPC]
        /\ job \in [Caller -> Job]
    BY Callers DEF TypeOK
  <1>1. ASSUME NEW c \in Caller, Check(c) PROVE Kinds'
    <2>1. runKind' = runKind
      BY <1>1, CheckLocals DEF loopVars
    <2>2. \A d \in Caller : job'[d].kind \in {job[d].kind, "run"}
      BY <1>1, CheckLocals
    <2>3. pc'[Sched] = "recheck" => pc[Sched] = "recheck"
      BY <1>0, <1>1, CheckMoves DEF InCheck
    <2>4. \A w \in Web : job'[w].kind = "run"
      BY <1>0, <2>2
    <2>5. job'[Sched].kind = "refresh" => job[Sched].kind = "refresh"
      BY <1>0, <2>2
    <2> QED
      BY <2>1, <2>3, <2>4, <2>5
  <1>2. CASE Loop
    <2>1. CASE Top
      <3>1. \A w \in Web : job'[w].kind = "run"
        BY <1>2, LoopMoves
      <3>2. CASE UNCHANGED <<job, runKind>> /\ Goto(Sched, "forget")
        BY <3>1, <3>2, <1>0 DEF Goto
      <3>3. CASE Call(Sched, "run")
        BY <3>1, <3>3, <1>0, CallKind
      <3>4. CASE runKind' = "none"
        BY <3>1, <3>4
      <3> QED
        BY <2>1, <3>2, <3>3, <3>4 DEF Top
    <2>2. CASE Recheck
      BY <1>0, <1>2, <2>2, LoopMoves DEF Recheck, Goto, Call, Job, loopVars
    <2>3. CASE Plan
      BY <1>0, <1>2, <2>3, LoopMoves DEF Plan, Goto
    <2>4. CASE SetUninitialized \/ Initialized \/ Handle \/ Woken \/ RunRequested \/ Timer
      BY <1>0, <2>4 DEF SetUninitialized, Initialized, Handle, Woken,
         RunRequested, Timer, Goto, loopVars
    <2> QED
      BY <1>2, <2>1, <2>2, <2>3, <2>4 DEF Loop
  <1>3. ASSUME NEW w \in Web, Handler(w) PROVE Kinds'
    BY <1>0, <1>3, HandlerMoves
  <1>4. CASE Environment
    <2>1. CASE Crash
      <3>1. \A c \in Caller : job'[c].kind = "run"
        <4>1. \A c \in Caller : job'[c] = NoJob
          BY <2>1, CrashMoves
        <4>2. NoJob.kind = "run"
          BY DEF NoJob
        <4> QED
          BY <4>1, <4>2
      <3> QED
        BY <1>0, <3>1, <2>1, CrashMoves
    <2> QED
      BY <1>4, <2>1, EnvironmentMoves
  <1>5. CASE UNCHANGED vars
    BY <1>5 DEF vars, callVars, loopVars
  <1> QED
    BY <1>1, <1>2, <1>3, <1>4, <1>5 DEF Next

\* What the invariant needs holds after every step.
LEMMA SettingsKeptStep ==
    ASSUME TypeOK, Kinds, SettingsKept, [Next]_vars
    PROVE  SettingsKept'
  <1> USE DEF SettingsKept, regularDue
  <1> DEFINE InRegular == runKind = "regular" /\ pc[Sched] \in InCheck \cup {"ok", "err"}
  <1>0. /\ Sched \in Caller /\ Sched \notin Web /\ Web \subseteq Caller
        /\ pc \in [Caller -> CallPC \cup SchedPC \cup WebPC]
    BY Callers DEF TypeOK
  <1>1. ASSUME NEW c \in Caller, Check(c) PROVE SettingsKept'
    <2>1. \A w \in Web : pc[w] = "signal" => pc'[w] = "signal"
      BY <1>0, <1>1, CheckMoves DEF InCheck
    <2>2. ASSUME unseen' = TRUE PROVE InRegular' => InRegular
      <3>1. CASE c = Sched
        <4>1. pc[c] = "lock" => job[c].kind # "run"
          BY <1>1, <2>2, CheckLocals
        <4>2. pc[c] = "lock" => runKind = "none"
          BY <4>1, <3>1 DEF Kinds, TypeOK, Job
        <4> QED
          BY <3>1, <4>2, <1>1, CheckMoves, CheckLocals DEF loopVars
      <3>2. CASE c # Sched
        BY <3>2, <1>0, <1>1, CheckMoves, CheckLocals DEF loopVars
      <3> QED
        BY <3>1, <3>2
    <2>3. unseen' = TRUE => unseen = TRUE
      BY <1>1, CheckLocals DEF TypeOK
    <2> QED
      BY <1>1, <2>1, <2>2, <2>3, CheckLocals DEF chanVars, loopVars, TypeOK
  <1>2. CASE Loop
    <2>1. \A w \in Web : pc'[w] = pc[w]
      BY <1>2, LoopMoves
    <2>2. CASE Handle
      BY <1>0, <2>1, <2>2 DEF Handle, AfterCheck, Goto, InCheck, chanVars
    <2>3. CASE RunRequested
      BY <1>0, <2>1, <2>3 DEF RunRequested, Goto, InCheck
    <2>4. CASE Top
      BY <1>0, <2>1, <2>4 DEF Top, Goto, Call, InLoop, InCheck, chanVars
    <2>5. CASE SetUninitialized \/ Initialized \/ Recheck \/ Plan \/ Woken \/ Timer
      BY <1>0, <2>1, <2>5 DEF SetUninitialized, Initialized, Recheck, Plan, Woken,
         Timer, Goto, Call, InLoop, InCheck, chanVars, loopVars
    <2> QED
      BY <1>2, <2>2, <2>3, <2>4, <2>5 DEF Loop
  <1>3. ASSUME NEW w \in Web, Handler(w) PROVE SettingsKept'
    <2>1. pc'[Sched] = pc[Sched] /\ runKind' = runKind
          /\ \A v \in Web \ {w} : pc'[v] = pc[v]
      BY <1>0, <1>3, HandlerMoves
    <2>2. CASE SaveSettings(w)
      BY <1>0, <2>2 DEF SaveSettings, Goto
    <2>3. CASE Signal(w)
      BY <2>3 DEF Signal, RunImmediately
    <2>4. CASE RunRequest(w) \/ RunReply(w) \/ Initialize(w) \/ Notify(w)
      BY <1>0, <2>1, <2>4 DEF RunRequest, RunReply, Initialize, Notify, Goto, Call,
         chanVars, loopVars
    <2> QED
      BY <1>3, <2>2, <2>3, <2>4 DEF Handler
  <1>4. CASE Environment
    <2>1. CASE Crash
      BY <2>1, CrashMoves DEF InCheck
    <2> QED
      BY <1>4, <2>1, EnvironmentMoves
  <1>5. CASE UNCHANGED vars
    BY <1>5 DEF vars, callVars, chanVars, loopVars
  <1> QED
    BY <1>1, <1>2, <1>3, <1>4, <1>5 DEF Next

\* RunImmediately is never lost: settings that were saved and not yet read are
\* in a channel, in forceRun, in nextRegular, or with a handler that will signal.
THEOREM SettingsAreKept == Spec => []SettingsNotForgotten
  <1>1. Init => Kinds /\ SettingsKept
    <2> SUFFICES ASSUME Init PROVE Kinds /\ SettingsKept
      OBVIOUS
    <2>1. \A c \in Caller : job[c].kind = "run"
      BY DEF Init, NoJob
    <2>2. pc[Sched] = "top" /\ unseen = FALSE
      BY Callers DEF Init
    <2> QED
      BY <2>1, <2>2, Callers DEF Kinds, SettingsKept, InLoop
  <1>2. SettingsKept => SettingsNotForgotten
    BY DEF SettingsKept, SettingsNotForgotten
  <1> QED
    BY <1>1, <1>2, KindsStep, SettingsKeptStep, TypeCorrect, PTL DEF Spec

-----------------------------------------------------------------------------
(* A start is decided on one's own metrics.                                *)

\* Every step leaves a goroutine about to start the target under the cap it
\* has stored itself: only the holder of runMu stores metrics.
LEMMA StartUnderThresholdStep ==
    ASSUME TypeOK, Mutex, StartUnderThreshold, [Next]_vars
    PROVE  StartUnderThreshold'
  <1> USE DEF StartUnderThreshold
  <1>0. /\ Web \subseteq Caller /\ Sched \in Caller /\ Free \notin Caller
        /\ pc \in [Caller -> CallPC \cup SchedPC \cup WebPC]
        /\ job \in [Caller -> Job]
    BY Callers DEF TypeOK
  <1>1. ASSUME NEW c \in Caller, Check(c) PROVE StartUnderThreshold'
    <2>1. ASSUME runMu = Free PROVE \A d \in Caller \ {c} : pc'[d] \notin InCheck
      BY <1>0, <1>1, <2>1, CheckMoves DEF Mutex
    <2>2. CASE BeginRun(c)
      <3>1. PICK over \in BOOLEAN, low \in BOOLEAN :
               LET reason == Decide(over, mode, low, within)
               IN  /\ metrics' = IF over THEN "over" ELSE "under"
                   /\ job' = [job EXCEPT ![c] =
                        [job[c] EXCEPT !.reason = reason, !.todo = Affected(reason),
                                       !.fallback = Fallback(reason, FALSE)]]
        BY <2>2 DEF BeginRun, Possible
      <3>2. job'[c].reason = Decide(over, mode, low, within)
        BY <1>0, <3>1 DEF Job
      <3>3. job'[c].reason \in StartReason => metrics' = "under"
        BY <3>1, <3>2, DecideType DEF TypeOK
      <3> QED
        BY <2>1, <2>2, <3>3 DEF BeginRun, TakeLock, InCheck
    <2>3. CASE BeginRefresh(c)
      BY <2>1, <2>3, <1>0 DEF BeginRefresh, TakeLock, Goto, InCheck
    <2>4. CASE BeginFails(c)
      BY <2>1, <2>4, <1>0 DEF BeginFails, Goto, InCheck
    <2>5. CASE Look(c) \/ Request(c)
      <3>1. metrics' = metrics
        BY <2>5 DEF Look, Request, storeVars
      <3>2. job'[c].reason = job[c].reason
        BY <2>5, ReasonStays
      <3>3. pc[c] \in {"look", "request"}
        BY <2>5 DEF Look, Request
      <3>4. \A d \in Caller \ {c} : pc'[d] = pc[d] /\ job'[d] = job[d]
        BY <1>1, CheckMoves, CheckLocals
      <3> QED
        BY <3>1, <3>2, <3>3, <3>4
    <2>6. CASE AnswerLost(c) \/ CallFails(c) \/ SaveLastResult(c) \/ Publish(c)
               \/ Record(c)
      <3>1. metrics' = metrics /\ pc'[c] \notin {"look", "request"}
        BY <1>0, <2>6 DEF AnswerLost, CallFails, SaveLastResult, Publish, Record,
           Return, Goto, storeVars
      <3> QED
        BY <1>1, <3>1, CheckMoves, CheckLocals
    <2> QED
      BY <1>1, <2>2, <2>3, <2>4, <2>5, <2>6 DEF Check, Work
  <1>2. CASE Loop
    <2>1. metrics' = metrics
      BY <1>2 DEF Loop, Top, SetUninitialized, Initialized, Recheck, Handle, Plan,
         Woken, RunRequested, Timer, storeVars
    <2> QED
      BY <1>2, <2>1, LoopMoves DEF InCheck, Caller
  <1>3. ASSUME NEW w \in Web, Handler(w) PROVE StartUnderThreshold'
    BY <1>0, <1>3, HandlerMoves DEF InCheck
  <1>4. CASE Environment
    <2>1. CASE Crash
      BY <2>1, CrashMoves
    <2> QED
      BY <1>4, <2>1, EnvironmentMoves
  <1>5. CASE UNCHANGED vars
    BY <1>5 DEF vars, callVars, storeVars
  <1> QED
    BY <1>1, <1>2, <1>3, <1>4, <1>5 DEF Next

\* No goroutine starts the target on metrics that are over the traffic
\* threshold, and none changes the metrics of another before its start.
THEOREM StartsUnderThreshold == Spec => []StartUnderThreshold
  <1>1. Init => StartUnderThreshold
    BY DEF Init, StartUnderThreshold
  <1> QED
    BY <1>1, StartUnderThresholdStep, MutualExclusion, TypeCorrect, PTL DEF Spec

-----------------------------------------------------------------------------
(* Memory and store agree; a quick check keeps the reason.                 *)

\* What a step of a check does to the results, by where it ends.
LEMMA CheckResults ==
    ASSUME TypeOK, NEW c \in Caller, Check(c)
    PROVE  \/ /\ pc[c] = "save" /\ pc'[c] = "publish"
             /\ lastResult' = ResultOf(c) /\ job' = job /\ last' = last
          \/ /\ pc[c] = "publish" /\ pc'[c] = "ok"
             /\ last' = ResultOf(c) /\ lastResult' = lastResult
          \/ /\ pc'[c] # "publish" /\ pc[c] # "publish"
             /\ UNCHANGED <<last, lastResult>>
  <1> USE DEF Goto, Return, storeVars
  <1>0. pc \in [Caller -> CallPC \cup SchedPC \cup WebPC]
    BY DEF TypeOK
  <1>1. CASE BeginRun(c) \/ BeginRefresh(c) \/ BeginFails(c)
    BY <1>0, <1>1 DEF BeginRun, BeginRefresh, BeginFails, Continue
  <1>2. CASE Look(c)
    BY <1>0, <1>2 DEF Look, Continue
  <1>3. CASE Request(c) \/ AnswerLost(c) \/ CallFails(c)
    BY <1>0, <1>3 DEF Request, AnswerLost, CallFails, Continue
  <1>4. CASE SaveLastResult(c)
    BY <1>0, <1>4 DEF SaveLastResult
  <1>5. CASE Publish(c)
    BY <1>0, <1>5 DEF Publish
  <1>6. CASE Record(c)
    BY <1>0, <1>6 DEF Record
  <1> QED
    BY <1>1, <1>2, <1>3, <1>4, <1>5, <1>6 DEF Check, Work

\* The loop publishes failures and the missing configuration, nothing else.
LEMMA LoopResults ==
    ASSUME Loop
    PROVE  /\ lastResult' = lastResult
           /\ last' = last \/ last'.status \in {"failed", "uninit"}
  <1>1. CASE SetUninitialized \/ Handle
    BY <1>1, BareType DEF SetUninitialized, Handle, storeVars
  <1>2. CASE Top \/ Initialized \/ Recheck \/ Plan \/ Woken \/ RunRequested \/ Timer
    BY <1>2 DEF Top, Initialized, Recheck, Plan, Woken, RunRequested, Timer, storeVars
  <1> QED
    BY <1>1, <1>2 DEF Loop

\* Every step keeps the published result equal to the stored one, but between
\* SaveLastResult and setLast of one check.
LEMMA StoredStep ==
    ASSUME TypeOK, Mutex, Stored, [Next]_vars
    PROVE  Stored'
  <1> USE DEF Stored, ResultOf
  <1>0. Free \notin Caller /\ Web \subseteq Caller /\ Sched \in Caller
    BY Callers
  <1>1. ASSUME NEW c \in Caller, Check(c) PROVE Stored'
    <2>1. \A d \in Caller \ {c} : pc'[d] = pc[d] /\ job'[d] = job[d]
      BY <1>1, CheckMoves, CheckLocals
    <2>2. pc[c] \in InCheck => \A d \in Caller \ {c} : pc[d] # "publish"
      BY DEF Mutex, InCheck
    <2>3. CASE /\ pc[c] = "save" /\ pc'[c] = "publish"
               /\ lastResult' = ResultOf(c) /\ job' = job /\ last' = last
      BY <2>1, <2>2, <2>3 DEF InCheck
    <2>4. CASE /\ pc[c] = "publish" /\ pc'[c] = "ok"
               /\ last' = ResultOf(c) /\ lastResult' = lastResult
      BY <2>1, <2>2, <2>4 DEF InCheck
    <2>5. CASE /\ pc'[c] # "publish" /\ pc[c] # "publish"
               /\ UNCHANGED <<last, lastResult>>
      BY <2>1, <2>5
    <2> QED
      BY <1>1, <2>3, <2>4, <2>5, CheckResults
  <1>2. CASE Loop
    BY <1>0, <1>2, LoopMoves, LoopResults DEF InCheck, Caller
  <1>3. ASSUME NEW w \in Web, Handler(w) PROVE Stored'
    BY <1>0, <1>3, HandlerMoves DEF InCheck
  <1>4. CASE Environment
    <2>1. CASE Crash
      BY <2>1, CrashMoves
    <2> QED
      BY <1>4, <2>1, EnvironmentMoves
  <1>5. CASE UNCHANGED vars
    BY <1>5 DEF vars, callVars, storeVars
  <1> QED
    BY <1>1, <1>2, <1>3, <1>4, <1>5 DEF Next

\* Between two checks the published result, if it is one of a check, is the
\* stored one: a restart or the dashboard sees what /api/status shows.
THEOREM MemoryIsStored == Spec => []PersistedIsPublished
  <1>1. Init => Stored
    BY DEF Init, Stored, Bare
  <1>2. Mutex /\ Stored => PersistedIsPublished
    BY Callers DEF Mutex, Stored, PersistedIsPublished, InCheck
  <1> QED
    BY <1>1, <1>2, StoredStep, MutualExclusion, TypeCorrect, PTL DEF Spec

\* Every step leaves the reason a quick check carries the published one.
LEMMA QuickReasonStep ==
    ASSUME TypeOK, Mutex, Kinds, QuickReason, [Next]_vars
    PROVE  QuickReason'
  <1> USE DEF QuickReason
  <1>0. /\ Free \notin Caller /\ Web \subseteq Caller /\ Sched \in Caller
        /\ Caller = Web \cup {Sched}
        /\ job \in [Caller -> Job]
    BY Callers DEF Caller, TypeOK
  <1>1. ASSUME NEW c \in Caller, Check(c) PROVE QuickReason'
    <2>1. \A d \in Caller \ {c} : pc'[d] = pc[d] /\ job'[d] = job[d]
      BY <1>1, CheckMoves, CheckLocals
    <2>2. CASE pc'[c] \notin InCheck
      <3>1. \A d \in Caller : pc'[d] \notin InCheck
        <4>1. pc[c] \in InCheck \/ runMu = Free
          BY <1>1, CheckMoves
        <4> QED
          BY <1>0, <2>1, <2>2, <4>1 DEF Mutex
      <3> QED
        BY <3>1
    <2>3. CASE pc'[c] \in InCheck
      <3>1. \A d \in Caller \ {c} : pc'[d] \notin InCheck
        BY <1>0, <1>1, <2>1, <2>3, CheckMoves DEF Mutex, InCheck
      <3>2. last' = last
        BY <1>1, <2>3, CheckResults DEF InCheck
      <3>3. job'[c].kind = "refresh" => job'[c].reason = last.reason
        <4>1. CASE BeginRun(c)
          <5>1. job[c].kind = "run"
            BY <4>1 DEF BeginRun
          <5> QED
            BY <1>1, <5>1, CheckLocals
        <4>2. CASE BeginRefresh(c)
          <5> DEFINE j == [job[c] EXCEPT !.status = last.status,
                                         !.fallback = last.ecs,
                                         !.reason = last.reason]
          <5>1. job' = [job EXCEPT ![c] = j]
            BY <4>2 DEF BeginRefresh
          <5>2. j.reason = last.reason
            <6>1. job[c] \in Job
              BY <1>0
            <6> QED
              BY <6>1 DEF Job
          <5> QED
            BY <1>0, <5>1, <5>2
        <4>3. CASE Look(c) \/ Request(c) \/ SaveLastResult(c) \/ Record(c)
          <5>1. pc[c] \in InCheck
            BY <4>3 DEF Look, Request, SaveLastResult, Record, InCheck
          <5>2. job'[c].kind = "refresh" => job[c].kind = "refresh"
            BY <1>1, CheckLocals
          <5> QED
            BY <4>3, <5>1, <5>2, ReasonStays
        <4>6. CASE BeginFails(c) \/ AnswerLost(c) \/ CallFails(c) \/ Publish(c)
          BY <2>3, <4>6 DEF BeginFails, AnswerLost, CallFails, Publish, Return, Goto,
                            InCheck, TypeOK
        <4> QED
          BY <1>1, <4>1, <4>2, <4>3, <4>6 DEF Check, Work
      <3> QED
        BY <3>1, <3>2, <3>3
    <2> QED
      BY <2>2, <2>3
  <1>2. CASE Loop
    <2>1. \A w \in Web : job[w].kind = "run"
      BY DEF Kinds
    <2> QED
      BY <1>0, <1>2, <2>1, LoopMoves
  <1>3. ASSUME NEW w \in Web, Handler(w) PROVE QuickReason'
    BY <1>0, <1>3, HandlerMoves
  <1>4. CASE Environment
    <2>1. CASE Crash
      BY <2>1, CrashMoves DEF InCheck
    <2> QED
      BY <1>4, <2>1, EnvironmentMoves
  <1>5. CASE UNCHANGED vars
    BY <1>5 DEF vars, callVars
  <1> QED
    BY <1>1, <1>2, <1>3, <1>4, <1>5 DEF Next

\* A quick check publishes the reason that was published before it.
THEOREM QuickChecksKeepReason == Spec => RefreshKeepsReason
  <1>1. Init => Kinds /\ QuickReason
    <2> SUFFICES ASSUME Init PROVE Kinds /\ QuickReason
      OBVIOUS
    <2>1. \A c \in Caller : job[c].kind = "run"
      BY DEF Init, NoJob
    <2>2. pc[Sched] = "top"
      BY Callers DEF Init
    <2> QED
      BY <2>1, <2>2, Callers DEF Kinds, QuickReason, InLoop
  <1>2. ASSUME TypeOK, QuickReason, NEW c \in Caller, Publish(c),
               job[c].kind = "refresh"
        PROVE  last'.reason = last.reason
    BY <1>2 DEF Publish, ResultOf, QuickReason, InCheck
  <1>3. TypeOK /\ QuickReason /\ [Next]_vars =>
          [\A c \in Caller : Publish(c) /\ job[c].kind = "refresh"
                                 => last'.reason = last.reason]_vars
    BY <1>2
  <1> QED
    BY <1>1, <1>3, KindsStep, QuickReasonStep, MutualExclusion, TypeCorrect, PTL
       DEF Spec, RefreshKeepsReason

=============================================================================
