------------------------- MODULE PowerControlProofs -------------------------
(***************************************************************************)
(* Theorem: the check cycle implements PowerControl, for every number of   *)
(* requests, every set of instances, listed or not, and every set of       *)
(* faults.  The invariant it needs beside those of CheckCycleProofs is     *)
(* Covering: what a check has still to do and what it has dealt with make  *)
(* up what its decision is about.                                          *)
(***************************************************************************)
EXTENDS CheckRefinement, CheckCycleProofs

-----------------------------------------------------------------------------
(* What the actions of a check leave in its locals.                        *)

\* Over the cap only a protection is decided.
LEMMA DecideOver ==
    ASSUME NEW low \in BOOLEAN, NEW win \in BOOLEAN, NEW m \in Mode
    PROVE  Decide(TRUE, m, low, win) \in ProtectReason
  BY DEF Decide, ProtectReason

\* RunOnce up to its loop over the instances.
LEMMA BeginRunLocals ==
    ASSUME TypeOK, NEW c \in Caller, BeginRun(c)
    PROVE  /\ pc[c] = "lock" /\ runMu = Free /\ runMu' = c
           /\ job'[c].kind = "run" /\ job'[c].handled = job[c].handled
           /\ job'[c].reason \in Reason
           /\ job'[c].todo = Affected(job'[c].reason)
           /\ job'[c].fallback = Fallback(job'[c].reason, FALSE)
           /\ pc'[c] = Continue(job'[c].todo)
           /\ metrics' \in {"under", "over"}
           /\ metrics' = "over" => job'[c].reason \in ProtectReason
           /\ UNCHANGED <<ecs, last, lastResult>>
  <1>0. job \in [Caller -> Job] /\ job[c] \in Job
        /\ pc \in [Caller -> CallPC \cup SchedPC \cup WebPC]
    BY DEF TypeOK
  <1>1. PICK over \in BOOLEAN, low \in BOOLEAN :
           LET reason == Decide(over, mode, low, within)
               todo   == Affected(reason)
           IN  /\ metrics' = IF over THEN "over" ELSE "under"
               /\ Goto(c, Continue(todo))
               /\ job' = [job EXCEPT ![c] =
                    [@ EXCEPT !.reason = reason, !.todo = todo,
                              !.fallback = Fallback(reason, FALSE)]]
    BY DEF BeginRun, Possible
  <1> DEFINE r == Decide(over, mode, low, within)
             t == Affected(r)
             f == Fallback(r, FALSE)
             j == [job[c] EXCEPT !.reason = r, !.todo = t, !.fallback = f]
  <1>2. job' = [job EXCEPT ![c] = j] /\ Goto(c, Continue(t))
    BY <1>1
  <1>3. /\ j.kind = job[c].kind /\ j.handled = job[c].handled /\ j.reason = r /\ j.todo = t
        /\ j.fallback = f
    <2> HIDE DEF r, t, f
    <2> QED BY <1>0 DEF Job
  <1>4. job'[c] = j /\ pc'[c] = Continue(t)
    <2> HIDE DEF j, t
    <2> QED BY <1>0, <1>2 DEF Goto
  <1>5. r \in Reason /\ (over => r \in ProtectReason)
    BY DecideType, DecideOver DEF TypeOK
  <1>6. metrics' \in {"under", "over"} /\ (metrics' = "over" => over)
    BY <1>1
  <1>7. /\ pc[c] = "lock" /\ job[c].kind = "run" /\ runMu = Free /\ runMu' = c
        /\ UNCHANGED <<ecs, last, lastResult>>
    BY DEF BeginRun, TakeLock, cloudVars
  <1> HIDE DEF r, t, f, j
  <1> QED
    BY <1>3, <1>4, <1>5, <1>6, <1>7 DEF t, f

\* RefreshECSStatus up to its record.
LEMMA BeginRefreshLocals ==
    ASSUME TypeOK, NEW c \in Caller, BeginRefresh(c)
    PROVE  /\ pc[c] = "lock" /\ runMu = Free /\ runMu' = c
           /\ job'[c].kind = "refresh" /\ job'[c].handled = job[c].handled
           /\ job'[c].reason = last.reason /\ job'[c].fallback = last.ecs
           /\ pc'[c] = "record"
           /\ UNCHANGED <<ecs, metrics, last, lastResult>>
  <1>0. job \in [Caller -> Job] /\ job[c] \in Job
        /\ pc \in [Caller -> CallPC \cup SchedPC \cup WebPC]
    BY DEF TypeOK
  <1> DEFINE j == [job[c] EXCEPT !.status = last.status, !.fallback = last.ecs,
                                 !.reason = last.reason]
  <1>1. job' = [job EXCEPT ![c] = j]
    BY DEF BeginRefresh
  <1>2. /\ j.kind = job[c].kind /\ j.handled = job[c].handled
        /\ j.reason = last.reason /\ j.fallback = last.ecs
    BY <1>0 DEF Job
  <1>3. job'[c] = j
    <2> HIDE DEF j
    <2> QED BY <1>0, <1>1
  <1>4. /\ pc[c] = "lock" /\ job[c].kind = "refresh" /\ runMu = Free /\ runMu' = c
        /\ UNCHANGED <<ecs, metrics, last, lastResult>>
        /\ pc'[c] = "record"
    BY <1>0 DEF BeginRefresh, TakeLock, cloudVars, storeVars, Goto
  <1> QED
    BY <1>2, <1>3, <1>4

\* start and stop: the instance is where it should be, or a request is next.
LEMMA LookLocals ==
    ASSUME TypeOK, NEW c \in Caller, Look(c)
    PROVE  /\ pc[c] = "look" /\ runMu' = runMu
           /\ job'[c].kind = job[c].kind /\ job'[c].reason = job[c].reason
           /\ \E i \in job[c].todo :
                \/ /\ ecs[i] = IF job[c].reason \in StartReason THEN "Running"
                               ELSE "Stopped"
                   /\ job'[c].todo = job[c].todo \ {i}
                   /\ job'[c].handled = job[c].handled \cup {i}
                   /\ pc'[c] = Continue(job'[c].todo)
                \/ /\ job'[c].todo = job[c].todo /\ job'[c].handled = job[c].handled
                   /\ job'[c].cur = i /\ pc'[c] = "request"
           /\ UNCHANGED <<ecs, metrics, last, lastResult>>
  <1>0. job \in [Caller -> Job] /\ job[c] \in Job
        /\ pc \in [Caller -> CallPC \cup SchedPC \cup WebPC]
    BY DEF TypeOK
  <1>1. PICK i \in job[c].todo :
           LET goal == IF job[c].reason \in StartReason THEN "Running" ELSE "Stopped"
               rest == job[c].todo \ {i}
           IN  IF ecs[i] = goal
               THEN /\ Goto(c, Continue(rest))
                    /\ job' = [job EXCEPT ![c] =
                         [@ EXCEPT !.todo = rest,
                                   !.handled = job[c].handled \cup {i}]]
               ELSE /\ Goto(c, "request")
                    /\ job' = [job EXCEPT ![c].cur = i]
    BY DEF Look
  <1> DEFINE rest == job[c].todo \ {i}
             done == [job[c] EXCEPT !.todo = rest, !.handled = job[c].handled \cup {i}]
             next == [job[c] EXCEPT !.cur = i]
  <1>2. /\ done.kind = job[c].kind /\ done.reason = job[c].reason
        /\ done.todo = rest /\ done.handled = job[c].handled \cup {i}
        /\ next.kind = job[c].kind /\ next.reason = job[c].reason
        /\ next.todo = job[c].todo /\ next.handled = job[c].handled /\ next.cur = i
    BY <1>0 DEF Job
  <1>3. \/ /\ ecs[i] = IF job[c].reason \in StartReason THEN "Running" ELSE "Stopped"
           /\ job'[c] = done /\ pc'[c] = Continue(rest)
        \/ job'[c] = next /\ pc'[c] = "request"
    <2>1. \/ /\ ecs[i] = IF job[c].reason \in StartReason THEN "Running" ELSE "Stopped"
             /\ job' = [job EXCEPT ![c] = done] /\ Goto(c, Continue(rest))
          \/ job' = [job EXCEPT ![c] = next] /\ Goto(c, "request")
      BY <1>0, <1>1
    <2> HIDE DEF done, next, rest
    <2> QED BY <1>0, <2>1 DEF Goto
  <1>4. /\ pc[c] = "look" /\ runMu' = runMu
        /\ UNCHANGED <<ecs, metrics, last, lastResult>>
    BY DEF Look, cloudVars, storeVars
  <1> HIDE DEF done, next
  <1> QED
    BY <1>2, <1>3, <1>4

\* A request that was taken.
LEMMA RequestLocals ==
    ASSUME TypeOK, NEW c \in Caller, Request(c)
    PROVE  /\ pc[c] = "request" /\ runMu' = runMu
           /\ job'[c].kind = job[c].kind /\ job'[c].reason = job[c].reason
           /\ job'[c].todo = job[c].todo \ {job[c].cur}
           /\ job'[c].handled = job[c].handled \cup {job[c].cur}
           /\ pc'[c] = Continue(job'[c].todo)
           /\ UNCHANGED <<metrics, last, lastResult>>
  <1>0. job \in [Caller -> Job] /\ job[c] \in Job
        /\ pc \in [Caller -> CallPC \cup SchedPC \cup WebPC]
    BY DEF TypeOK
  <1> DEFINE rest == job[c].todo \ {job[c].cur}
             f == Fallback(job[c].reason, TRUE)
             j == [job[c] EXCEPT !.todo = rest,
                                 !.handled = job[c].handled \cup {job[c].cur},
                                 !.fallback = f]
  <1>1. job' = [job EXCEPT ![c] = j] /\ Goto(c, Continue(rest))
    BY DEF Request
  <1>2. /\ j.kind = job[c].kind /\ j.reason = job[c].reason /\ j.todo = rest
        /\ j.handled = job[c].handled \cup {job[c].cur}
    <2> HIDE DEF f
    <2> QED BY <1>0 DEF Job
  <1>3. job'[c] = j /\ pc'[c] = Continue(rest)
    <2> HIDE DEF j, rest
    <2> QED BY <1>0, <1>1 DEF Goto
  <1>4. /\ pc[c] = "request" /\ runMu' = runMu
        /\ UNCHANGED <<metrics, last, lastResult>>
    BY DEF Request, storeVars
  <1> HIDE DEF j
  <1> QED
    BY <1>2, <1>3, <1>4

\* The record and SaveLastResult keep the decision and what was dealt with.
LEMMA RecordLocals ==
    ASSUME TypeOK, NEW c \in Caller, Record(c) \/ SaveLastResult(c)
    PROVE  /\ job'[c].kind = job[c].kind /\ job'[c].reason = job[c].reason
           /\ job'[c].todo = job[c].todo /\ job'[c].handled = job[c].handled
           /\ runMu' = runMu
           /\ UNCHANGED <<ecs, metrics, last>>
           /\ \/ pc[c] = "record" /\ pc'[c] = "save" /\ lastResult' = lastResult
              \/ /\ pc[c] = "save" /\ pc'[c] = "publish"
                 /\ lastResult' = ResultOf(c)
  <1>0. job \in [Caller -> Job] /\ job[c] \in Job
        /\ pc \in [Caller -> CallPC \cup SchedPC \cup WebPC]
    BY DEF TypeOK
  <1>1. CASE Record(c)
    <2> DEFINE f == Observed(ecs[Target], job[c].fallback)
               j == [job[c] EXCEPT !.fallback = f]
    <2>1. job' = [job EXCEPT ![c] = j]
      BY <1>1 DEF Record
    <2>2. /\ j.kind = job[c].kind /\ j.reason = job[c].reason /\ j.todo = job[c].todo
          /\ j.handled = job[c].handled
      <3> HIDE DEF f
      <3> QED BY <1>0 DEF Job
    <2>3. job'[c] = j
      <3> HIDE DEF j
      <3> QED BY <1>0, <2>1
    <2>4. /\ pc[c] = "record" /\ pc'[c] = "save" /\ runMu' = runMu
          /\ UNCHANGED <<ecs, metrics, last, lastResult>>
      BY <1>0, <1>1 DEF Record, Goto, cloudVars, storeVars
    <2> HIDE DEF j
    <2> QED
      BY <2>2, <2>3, <2>4
  <1>2. CASE SaveLastResult(c)
    BY <1>0, <1>2 DEF SaveLastResult, Goto, cloudVars
  <1> QED
    BY <1>1, <1>2

\* The ends of a check.
LEMMA EndLocals ==
    ASSUME TypeOK, NEW c \in Caller,
           BeginFails(c) \/ AnswerLost(c) \/ CallFails(c) \/ Publish(c)
    PROVE  job'[c] = NoJob /\ pc'[c] \in {"ok", "err"}
  <1>0. job \in [Caller -> Job] /\ pc \in [Caller -> CallPC \cup SchedPC \cup WebPC]
    BY DEF TypeOK
  <1> QED
    BY <1>0 DEF BeginFails, AnswerLost, CallFails, Publish, Return, Goto

\* A call of a check keeps what its goroutine has dealt with.
LEMMA CallLocals ==
    ASSUME TypeOK, NEW c \in Caller, NEW kind, Call(c, kind)
    PROVE  job'[c].handled = job[c].handled
  <1>1. job \in [Caller -> Job] /\ job[c] \in Job
    BY DEF TypeOK
  <1>2. job'[c] = [job[c] EXCEPT !.kind = kind]
    BY <1>1 DEF Call
  <1>3. [job[c] EXCEPT !.kind = kind].handled = job[c].handled
    BY <1>1 DEF Job
  <1> QED
    BY <1>2, <1>3

-----------------------------------------------------------------------------
(* What a check has to do and has done is what its decision is about.      *)

\* The covering of one goroutine.
CoversOf(c) ==
    /\ pc[c] \notin InCheck => job[c].handled = {}
    /\ pc[c] \in {"look", "request"} => job[c].kind = "run"
    /\ pc[c] = "request" => job[c].cur \in job[c].todo
    /\ pc[c] \in InCheck /\ job[c].kind = "run" =>
         /\ pc[c] \in {"record", "save", "publish"} => job[c].todo = {}
         /\ job[c].todo \subseteq Scope(job[c].reason)
         /\ \A i \in Scope(job[c].reason) :
                \/ i \in job[c].todo \cup job[c].handled
                \/ ecs[i] = "Released"

\* A goroutine outside the checks covers nothing, and needs to.
LEMMA CoversOutside ==
    ASSUME NEW c, pc'[c] \notin InCheck, job'[c].handled = {}
    PROVE  CoversOf(c)'
  BY DEF CoversOf, InCheck

\* A goroutine that runs no check has dealt with nothing.
LEMMA NothingHandled == NoJob.handled = {}
  BY DEF NoJob

\* Decisions are about instances of the account.
LEMMA ScopeType ==
    ASSUME NEW reason PROVE Scope(reason) \subseteq Instance
  BY InstanceAssumption DEF Scope

\* The instances RunOnce acts on, and the released ones, are what it is about.
LEMMA AffectedCovers ==
    ASSUME NEW reason
    PROVE  /\ Affected(reason) \subseteq Scope(reason)
           /\ \A i \in Scope(reason) : i \in Affected(reason) \/ ecs[i] = "Released"
  BY DEF Affected, Scope

\* A request leaves released instances released.
LEMMA AcceptedKeeps ==
    ASSUME TypeOK, NEW reason, NEW i \in Instance, Accepted(reason, i)
    PROVE  \A k \in Instance : ecs[k] = "Released" => ecs'[k] = "Released"
  BY DEF Accepted, EcsStatus, TypeOK

\* Every step of a check keeps the covering of its own goroutine.
LEMMA CoversOwn ==
    ASSUME TypeOK, NEW c \in Caller, Check(c), CoversOf(c)
    PROVE  CoversOf(c)'
  <1>0. job \in [Caller -> Job] /\ job[c] \in Job
    BY DEF TypeOK
  <1>1. CASE BeginRun(c)
    <2>1. job[c].handled = {}
      BY <1>1, BeginRunLocals DEF CoversOf, InCheck
    <2>2. /\ job'[c].kind = "run" /\ job'[c].handled = {}
          /\ job'[c].todo = Affected(job'[c].reason)
          /\ pc'[c] = Continue(job'[c].todo) /\ ecs' = ecs
      BY <1>1, <2>1, BeginRunLocals
    <2>3. /\ Affected(job'[c].reason) \subseteq Scope(job'[c].reason)
          /\ \A i \in Scope(job'[c].reason) :
                i \in Affected(job'[c].reason) \/ ecs[i] = "Released"
      BY AffectedCovers
    <2> QED
      BY <2>2, <2>3 DEF CoversOf, Continue, InCheck, Scope
  <1>2. CASE BeginRefresh(c)
    BY <1>2, BeginRefreshLocals DEF CoversOf, InCheck
  <1>3. CASE Look(c)
    <2>1. /\ pc[c] = "look" /\ job[c].kind = "run"
          /\ job'[c].kind = job[c].kind /\ job'[c].reason = job[c].reason
          /\ ecs' = ecs
      BY <1>3, LookLocals DEF CoversOf
    <2>2. PICK i \in job[c].todo :
                \/ /\ job'[c].todo = job[c].todo \ {i}
                   /\ job'[c].handled = job[c].handled \cup {i}
                   /\ pc'[c] = Continue(job'[c].todo)
                \/ /\ job'[c].todo = job[c].todo /\ job'[c].handled = job[c].handled
                   /\ job'[c].cur = i /\ pc'[c] = "request"
      BY <1>3, LookLocals
    <2>3. /\ job'[c].todo \subseteq job[c].todo
          /\ job[c].todo \cup job[c].handled \subseteq job'[c].todo \cup job'[c].handled
          /\ pc'[c] = "request" => job'[c].cur \in job'[c].todo
          /\ pc'[c] \in {"record", "save", "publish"} => job'[c].todo = {}
      BY <2>2 DEF Continue
    <2>4. pc'[c] \in InCheck
      BY <2>2 DEF Continue, InCheck
    <2>5. Scope(job[c].reason)' = Scope(job[c].reason)
      BY <2>1 DEF Scope
    <2> QED
      BY <2>1, <2>3, <2>4, <2>5 DEF CoversOf, InCheck
  <1>4. CASE Request(c)
    <2>1. /\ pc[c] = "request" /\ job[c].kind = "run"
          /\ job'[c].kind = job[c].kind /\ job'[c].reason = job[c].reason
          /\ job'[c].todo = job[c].todo \ {job[c].cur}
          /\ job'[c].handled = job[c].handled \cup {job[c].cur}
          /\ pc'[c] = Continue(job'[c].todo)
      BY <1>4, RequestLocals DEF CoversOf
    <2>2. \A k \in Instance : ecs[k] = "Released" => ecs'[k] = "Released"
      BY <1>0, <1>4, AcceptedKeeps DEF Request, Job
    <2>3. Scope(job[c].reason)' = Scope(job[c].reason)
      BY <2>1 DEF Scope
    <2>4. pc'[c] \in {"record", "look"} /\ (pc'[c] = "record" => job'[c].todo = {})
      BY <2>1 DEF Continue
    <2> QED
      BY <2>1, <2>2, <2>3, <2>4, ScopeType DEF CoversOf, InCheck
  <1>5. CASE Record(c) \/ SaveLastResult(c)
    <2>1. Scope(job[c].reason)' = Scope(job[c].reason)
      BY <1>5, RecordLocals DEF Scope
    <2> QED
      BY <1>5, <2>1, RecordLocals DEF CoversOf, InCheck
  <1>6. CASE BeginFails(c) \/ AnswerLost(c) \/ CallFails(c) \/ Publish(c)
    BY <1>6, EndLocals, NothingHandled, CoversOutside DEF InCheck
  <1> QED
    BY <1>1, <1>2, <1>3, <1>4, <1>5, <1>6 DEF Check, Work

\* The loop keeps the locals of the last check, but for the kind of the next,
\* and leaves the cloud and the traffic alone.
LEMMA LoopLocals ==
    ASSUME TypeOK, Loop
    PROVE  /\ job'[Sched].handled = job[Sched].handled
           /\ UNCHANGED <<ecs, metrics>>
  <1>0. Sched \in Caller
    BY Callers
  <1>1. job' = job \/ \E kind : Call(Sched, kind)
    BY DEF Loop, Top, SetUninitialized, Initialized, Recheck, Handle, Plan, Woken,
           RunRequested, Timer
  <1>2. UNCHANGED <<ecs, metrics>>
    BY DEF Loop, Top, SetUninitialized, Initialized, Recheck, Handle, Plan, Woken,
           RunRequested, Timer, cloudVars, storeVars
  <1> QED
    BY <1>0, <1>1, <1>2, CallLocals

\* A handler keeps them as well.
LEMMA HandlerLocals ==
    ASSUME TypeOK, NEW w \in Web, Handler(w)
    PROVE  job'[w].handled = job[w].handled
  <1>1. job' = job \/ Call(w, "run")
    BY DEF Handler, RunRequest, RunReply, SaveSettings, Signal, Initialize, Notify
  <1> QED
    BY <1>1, CallLocals, Callers

\* Every step keeps the covering.
LEMMA CoveringStep ==
    ASSUME TypeOK, Mutex, Covering, [Next]_vars
    PROVE  Covering'
  <1> USE DEF Mutex
  <1>0. /\ Free \notin Caller /\ Web \subseteq Caller /\ Sched \in Caller
        /\ Caller = Web \cup {Sched}
        /\ ecs \in [Instance -> CloudStatus]
    BY Callers DEF Caller, TypeOK
  <1>a. \A c \in Caller : CoversOf(c)
    BY DEF Covering, CoversOf
  <1>b. (\A c \in Caller : CoversOf(c)') => Covering'
    BY DEF Covering, CoversOf
  <1>1. ASSUME NEW c \in Caller, Check(c) PROVE Covering'
    <2>1. ASSUME NEW d \in Caller \ {c} PROVE CoversOf(d)'
      <3>1. pc'[d] = pc[d] /\ job'[d] = job[d]
        BY <1>1, <2>1, CheckMoves, CheckLocals
      <3>2. pc[d] \notin InCheck
        BY <1>0, <1>1, <2>1, CheckMoves
      <3>3. job[d].handled = {}
        BY <1>a, <3>2 DEF CoversOf
      <3> QED
        BY <3>1, <3>2, <3>3, CoversOutside
    <2>2. CoversOf(c)'
      BY <1>1, <1>a, CoversOwn
    <2> QED
      BY <1>b, <2>1, <2>2
  <1>2. ASSUME NEW d \in Caller, pc'[d] = pc[d], job'[d] = job[d],
               \A k \in Instance : ecs[k] = "Released" => ecs'[k] = "Released"
        PROVE  CoversOf(d)'
    <2>1. Scope(job[d].reason)' = Scope(job[d].reason)
      BY <1>2 DEF Scope
    <2> QED
      BY <1>2, <1>a, <2>1, ScopeType DEF CoversOf
  <1>3. CASE Loop
    <2>1. CoversOf(Sched)'
      BY <1>0, <1>3, <1>a, LoopMoves, LoopLocals, CoversOutside DEF CoversOf
    <2>2. \A w \in Web : CoversOf(w)'
      BY <1>0, <1>2, <1>3, LoopMoves, LoopLocals
    <2> QED
      BY <1>0, <1>b, <2>1, <2>2
  <1>4. ASSUME NEW w \in Web, Handler(w) PROVE Covering'
    <2>1. CoversOf(w)'
      BY <1>0, <1>4, <1>a, HandlerMoves, HandlerLocals, CoversOutside DEF CoversOf
    <2>2. \A d \in Caller \ {w} : CoversOf(d)'
      BY <1>2, <1>4, HandlerMoves
    <2> QED
      BY <1>b, <2>1, <2>2
  <1>5. CASE Environment
    <2>1. CASE Crash
      BY <1>b, <2>1, CrashMoves, NothingHandled, CoversOutside DEF InCheck
    <2>2. CASE ~Crash
      BY <1>0, <1>b, <1>2, <1>5, <2>2, EnvironmentMoves
    <2> QED
      BY <2>1, <2>2
  <1>6. CASE UNCHANGED vars
    BY <1>b, <1>2, <1>6 DEF vars, callVars, cloudVars
  <1> QED
    BY <1>1, <1>3, <1>4, <1>5, <1>6 DEF Next

\* The covering holds in every reachable state.
THEOREM ChecksCover == Spec => []Covering
  <1>1. Init => Covering
    <2> SUFFICES ASSUME Init PROVE Covering
      OBVIOUS
    <2>1. \A c \in Caller : pc[c] \notin InCheck /\ job[c].handled = {}
      BY NothingHandled DEF Init, InCheck
    <2> QED
      BY <2>1 DEF Covering, InCheck
  <1> QED
    BY <1>1, CoveringStep, MutualExclusion, TypeCorrect, PTL DEF Spec

\* If the list is the whole account, a protection check that gets to its record
\* has dealt with every instance of it, whatever failed before.
THEOREM ProtectionCompletes ==
    ASSUME Listed = Instance
    PROVE  Spec => []ProtectionIsComplete
  <1>1. Covering => ProtectionIsComplete
    BY DEF Covering, ProtectionIsComplete, Scope, InCheck
  <1> QED
    BY <1>1, ChecksCover, PTL

-----------------------------------------------------------------------------
(* The conjunction TLC checks.                                             *)

\* The strengthening of the invariants of the check cycle is one itself.
THEOREM StrengtheningHolds == Spec => []IInv
  <1>1. Init => Kinds /\ Stored /\ QuickReason /\ SettingsKept
    <2> SUFFICES ASSUME Init PROVE Kinds /\ Stored /\ QuickReason /\ SettingsKept
      OBVIOUS
    <2>1. \A c \in Caller : job[c].kind = "run" /\ pc[c] \in {"top", "idle"}
      BY DEF Init, NoJob
    <2>2. pc[Sched] = "top" /\ unseen = FALSE /\ last.status = "never"
      BY Callers DEF Init, Bare
    <2>3. Kinds /\ SettingsKept
      BY <2>1, <2>2, Callers DEF Kinds, SettingsKept, InLoop
    <2>4. Stored /\ QuickReason
      BY <2>1, <2>2 DEF Stored, QuickReason, InCheck
    <2> QED
      BY <2>3, <2>4
  <1>2. Spec => [](Kinds /\ Stored /\ QuickReason /\ SettingsKept)
    BY <1>1, KindsStep, StoredStep, QuickReasonStep, SettingsKeptStep,
       MutualExclusion, TypeCorrect, PTL DEF Spec
  <1> QED
    BY <1>2, MutualExclusion, ChecksCover, TransitionIsPolled, StartsUnderThreshold,
       PTL DEF IInv

-----------------------------------------------------------------------------
(* The refinement.                                                         *)

\* Without a holder of the mutex there is no turn.
LEMMA TurnFree ==
    /\ runMu = Free => Turn = Power!NoTurn
    /\ runMu' = Free => Turn' = Power!NoTurn
  BY DEF Turn, Power!NoTurn

\* The turn of the holder.
LEMMA TurnOf ==
    ASSUME NEW c \in Caller
    PROVE  /\ runMu = c => Turn = [kind |-> job[c].kind, reason |-> job[c].reason,
                                   handled |-> job[c].handled,
                                   stage |-> IF pc[c] = "publish" THEN "saved" ELSE "act"]
           /\ runMu' = c => Turn' = [kind |-> job'[c].kind, reason |-> job'[c].reason,
                                     handled |-> job'[c].handled,
                                     stage |-> IF pc'[c] = "publish" THEN "saved" ELSE "act"]
  BY Callers DEF Turn

\* A step that leaves the holder and its check alone leaves the turn alone.
LEMMA TurnStays ==
    ASSUME Mutex, runMu \in Caller \cup {Free}, runMu' = runMu,
           \A c \in Caller : pc[c] \in InCheck => pc'[c] = pc[c] /\ job'[c] = job[c]
    PROVE  Turn' = Turn
  <1>1. CASE runMu = Free
    BY <1>1, TurnFree
  <1>2. CASE runMu \in Caller
    <2>1. pc'[runMu] = pc[runMu] /\ job'[runMu] = job[runMu]
      BY <1>2 DEF Mutex
    <2> QED
      BY <1>2, <2>1, TurnOf
  <1> QED
    BY <1>1, <1>2

\* A request that the cloud takes is a move of the turn.
LEMMA AcceptedMoves ==
    ASSUME TypeOK, Mutex, Covering, StartUnderThreshold, NEW c \in Caller,
           pc[c] = "request", Accepted(job[c].reason, job[c].cur)
    PROVE  Power!Moves(job[c].cur) /\ job[c].cur \in Instance
  <1>1. Turn = [kind |-> job[c].kind, reason |-> job[c].reason,
                handled |-> job[c].handled, stage |-> "act"]
    BY TurnOf DEF Mutex, InCheck
  <1>2. /\ job[c].kind = "run" /\ job[c].cur \in Scope(job[c].reason)
        /\ Scope(job[c].reason) = Power!Scope(job[c].reason)
    BY DEF Covering, InCheck, Scope, Power!Scope
  <1>3. job[c].reason \in StartReason => metrics = "under"
    BY DEF StartUnderThreshold
  <1>4. Turn.kind = "run" /\ Turn.reason = job[c].reason /\ Turn.stage = "act"
    BY <1>1, <1>2
  <1>5. job[c].cur \in Instance
    BY <1>2, ScopeType
  <1> QED
    BY <1>2, <1>3, <1>4, <1>5 DEF Accepted, Power!Moves, EcsStatus

\* Every step of a check is a step of the controller or invisible to it.
LEMMA CheckRefines ==
    ASSUME TypeOK, Mutex, Stored, Covering, StartUnderThreshold,
           NEW c \in Caller, Check(c)
    PROVE  [Power!Next]_(Power!vars)
  <1>0. Free \notin Caller /\ (pc[c] \in InCheck => runMu = c)
    BY Callers DEF Mutex
  <1>1. CASE BeginRun(c)
    <2>1. job[c].handled = {}
      BY <1>1, BeginRunLocals DEF Covering, InCheck
    <2>2. Turn = Power!NoTurn
      BY <1>1, BeginRunLocals, TurnFree
    <2>3. pc'[c] # "publish"
      BY <1>1, BeginRunLocals DEF Continue
    <2>4. Turn' = [kind |-> "run", reason |-> job'[c].reason, handled |-> {},
                   stage |-> "act"]
      BY <1>1, <2>1, <2>3, BeginRunLocals, TurnOf
    <2>5. Power!Decide
      BY <1>1, <2>2, <2>4, BeginRunLocals DEF Power!Decide, Power!NoTurn, Reason
    <2> QED
      BY <2>5 DEF Power!Next
  <1>2. CASE BeginRefresh(c)
    <2>1. job[c].handled = {}
      BY <1>2, BeginRefreshLocals DEF Covering, InCheck
    <2>2. Turn = Power!NoTurn
      BY <1>2, BeginRefreshLocals, TurnFree
    <2>3. Turn' = [kind |-> "refresh", reason |-> last.reason, handled |-> {},
                   stage |-> "act"]
      BY <1>2, <2>1, BeginRefreshLocals, TurnOf
    <2>4. Power!Follow
      BY <1>2, <2>2, <2>3, BeginRefreshLocals DEF Power!Follow, Power!NoTurn
    <2> QED
      BY <2>4 DEF Power!Next
  <1>3. CASE BeginFails(c)
    <2>1. /\ runMu = Free /\ runMu' = Free
          /\ UNCHANGED <<ecs, last, lastResult>>
          /\ metrics' = metrics \/ metrics' \in {"under", "over"}
      BY <1>3 DEF BeginFails, cloudVars
    <2>2. Turn = Power!NoTurn /\ Turn' = Power!NoTurn
      BY <2>1, TurnFree
    <2>3. Power!Sample \/ UNCHANGED Power!vars
      BY <2>1, <2>2 DEF Power!Sample, Power!vars
    <2> QED
      BY <2>3 DEF Power!Next
  <1>4. CASE Look(c)
    <2>1. /\ pc[c] = "look" /\ runMu = c /\ runMu' = c /\ job[c].kind = "run"
          /\ job'[c].kind = job[c].kind /\ job'[c].reason = job[c].reason
          /\ UNCHANGED <<ecs, metrics, last, lastResult>>
          /\ job[c].todo \subseteq Scope(job[c].reason)
      BY <1>0, <1>4, LookLocals DEF InCheck, Covering
    <2>2. Turn = [kind |-> "run", reason |-> job[c].reason,
                  handled |-> job[c].handled, stage |-> "act"]
      BY <2>1, TurnOf
    <2>3. PICK i \in job[c].todo :
                \/ /\ ecs[i] = IF job[c].reason \in StartReason THEN "Running"
                               ELSE "Stopped"
                   /\ job'[c].handled = job[c].handled \cup {i}
                   /\ pc'[c] = Continue(job'[c].todo)
                \/ job'[c].handled = job[c].handled /\ pc'[c] = "request"
      BY <1>4, LookLocals
    <2>4. Turn' = [kind |-> "run", reason |-> job[c].reason,
                   handled |-> job'[c].handled, stage |-> "act"]
      BY <2>1, <2>3, TurnOf DEF Continue
    <2>5. i \in Scope(job[c].reason) /\ i \in Instance
          /\ Scope(job[c].reason) = Power!Scope(job[c].reason)
      BY <2>1, ScopeType DEF Scope, Power!Scope
    <2>6. CASE job'[c].handled = job[c].handled
      BY <2>1, <2>2, <2>4, <2>6 DEF Power!vars
    <2>7. CASE /\ ecs[i] = IF job[c].reason \in StartReason THEN "Running"
                           ELSE "Stopped"
               /\ job'[c].handled = job[c].handled \cup {i}
      <3>1. /\ Turn.kind = "run" /\ Turn.reason = job[c].reason /\ Turn.stage = "act"
            /\ Turn' = [Turn EXCEPT !.handled = @ \cup {i}]
        BY <2>2, <2>4, <2>7
      <3>2. Power!Deal(i)
        BY <2>1, <2>5, <2>7, <3>1 DEF Power!Deal
      <3> QED
        BY <2>5, <3>2 DEF Power!Next
    <2> QED
      BY <2>3, <2>6, <2>7
  <1>5. CASE Request(c)
    <2>1. /\ pc[c] = "request" /\ runMu = c /\ runMu' = c
          /\ job'[c].kind = job[c].kind /\ job'[c].reason = job[c].reason
          /\ job'[c].handled = job[c].handled \cup {job[c].cur}
          /\ pc'[c] = Continue(job'[c].todo)
          /\ UNCHANGED <<metrics, last, lastResult>>
      BY <1>0, <1>5, RequestLocals DEF InCheck
    <2>2. Power!Moves(job[c].cur) /\ job[c].cur \in Instance
      BY <1>5, AcceptedMoves DEF Request
    <2>3. Turn = [kind |-> job[c].kind, reason |-> job[c].reason,
                  handled |-> job[c].handled, stage |-> "act"]
      BY <2>1, TurnOf
    <2>4. Turn' = [kind |-> job[c].kind, reason |-> job[c].reason,
                   handled |-> job[c].handled \cup {job[c].cur}, stage |-> "act"]
      BY <2>1, TurnOf DEF Continue
    <2>5. Turn' = [Turn EXCEPT !.handled = @ \cup {job[c].cur}]
      BY <2>3, <2>4
    <2>6. Power!Deal(job[c].cur)
      BY <2>1, <2>2, <2>5 DEF Power!Deal, Power!Moves
    <2> QED
      BY <2>2, <2>6 DEF Power!Next
  <1>6. CASE AnswerLost(c)
    <2>1. Power!Moves(job[c].cur) /\ job[c].cur \in Instance
      BY <1>6, AcceptedMoves DEF AnswerLost
    <2>2. runMu' = Free /\ UNCHANGED <<metrics, last, lastResult>>
      BY <1>6 DEF AnswerLost, Return, storeVars
    <2>3. Power!Lose(job[c].cur)
      BY <2>1, <2>2, TurnFree DEF Power!Lose
    <2> QED
      BY <2>1, <2>3 DEF Power!Next
  <1>7. CASE CallFails(c)
    <2>1. /\ runMu = c /\ runMu' = Free
          /\ UNCHANGED <<ecs, metrics, last, lastResult>>
      BY <1>0, <1>7 DEF CallFails, Return, InCheck, cloudVars, storeVars
    <2>2. Turn' = Power!NoTurn
      BY <2>1, TurnFree
    <2>3. Power!GiveUp \/ UNCHANGED Power!vars
      BY <2>1, <2>2 DEF Power!GiveUp, Power!vars
    <2> QED
      BY <2>3 DEF Power!Next
  <1>8. CASE Record(c)
    <2>1. /\ runMu = c /\ runMu' = c /\ pc[c] # "publish" /\ pc'[c] # "publish"
          /\ job'[c].kind = job[c].kind /\ job'[c].reason = job[c].reason
          /\ job'[c].handled = job[c].handled
          /\ UNCHANGED <<ecs, metrics, last, lastResult>>
      BY <1>0, <1>8, RecordLocals DEF Record, InCheck
    <2>2. Turn' = Turn
      BY <2>1, TurnOf
    <2> QED
      BY <2>1, <2>2 DEF Power!vars
  <1>9. CASE SaveLastResult(c)
    <2>1. /\ pc[c] = "save" /\ pc'[c] = "publish" /\ runMu = c /\ runMu' = c
          /\ job'[c].kind = job[c].kind /\ job'[c].reason = job[c].reason
          /\ job'[c].handled = job[c].handled
          /\ lastResult' = ResultOf(c)
          /\ UNCHANGED <<ecs, metrics, last>>
      BY <1>0, <1>9, RecordLocals DEF SaveLastResult, InCheck
    <2>2. Turn = [kind |-> job[c].kind, reason |-> job[c].reason,
                  handled |-> job[c].handled, stage |-> "act"]
      BY <2>1, TurnOf
    <2>3. Turn' = [kind |-> job[c].kind, reason |-> job[c].reason,
                   handled |-> job[c].handled, stage |-> "saved"]
      BY <2>1, TurnOf
    <2>4. job[c].kind \in {"run", "refresh"}
      BY DEF TypeOK, Job
    <2>5. job[c].kind = "run" =>
            \A i \in Power!Scope(job[c].reason) :
               i \in job[c].handled \/ ecs[i] = "Released"
      BY <2>1 DEF Covering, InCheck, Scope, Power!Scope
    <2>6. lastResult'.reason = job[c].reason
      BY <2>1 DEF ResultOf
    <2>7. Turn' = [Turn EXCEPT !.stage = "saved"]
      BY <2>2, <2>3
    <2>8. /\ Turn.kind = job[c].kind /\ Turn.reason = job[c].reason
          /\ Turn.handled = job[c].handled /\ Turn.stage = "act"
      BY <2>2
    <2>9. Power!Save
      BY <2>1, <2>4, <2>5, <2>6, <2>7, <2>8 DEF Power!Save
    <2> QED
      BY <2>9 DEF Power!Next
  <1>10. CASE Publish(c)
    <2>1. /\ pc[c] = "publish" /\ runMu = c /\ runMu' = Free
          /\ last' = lastResult
          /\ UNCHANGED <<ecs, metrics, lastResult>>
      BY <1>0, <1>10 DEF Publish, Return, InCheck, Stored, cloudVars, storeVars
    <2>2. Turn.stage = "saved"
      BY <2>1, TurnOf
    <2>3. Power!Show
      BY <2>1, <2>2, TurnFree DEF Power!Show
    <2> QED
      BY <2>3 DEF Power!Next
  <1> QED
    BY <1>1, <1>2, <1>3, <1>4, <1>5, <1>6, <1>7, <1>8, <1>9, <1>10 DEF Check, Work

\* The loop shows failures and the missing configuration, never in a quick turn.
LEMMA LoopRefines ==
    ASSUME TypeOK, Mutex, Kinds, Loop
    PROVE  [Power!Next]_(Power!vars)
  <1>0. /\ Sched \in Caller /\ Free \notin Caller /\ Caller = Web \cup {Sched}
        /\ runMu \in Caller \cup {Free}
    BY Callers DEF Caller, TypeOK
  <1>1. Turn' = Turn
    <2>1. \A c \in Caller : pc[c] \in InCheck => pc'[c] = pc[c] /\ job'[c] = job[c]
      BY <1>0, LoopMoves
    <2> QED
      BY <1>0, <2>1, LoopMoves, TurnStays
  <1>2. UNCHANGED <<ecs, metrics, lastResult>>
    BY LoopLocals, LoopResults
  <1>3. Turn.kind # "refresh"
    <2>1. CASE runMu = Free
      <3>1. Power!NoTurn.kind = "none"
        BY DEF Power!NoTurn
      <3> QED
        BY <2>1, <3>1, TurnFree
    <2>2. CASE runMu \in Caller
      <3>1. runMu \in Web
        BY <1>0, <2>2, LoopMoves DEF Mutex
      <3>2. job[runMu].kind = "run"
        BY <3>1 DEF Kinds
      <3> QED
        BY <2>2, <3>2, TurnOf
    <2> QED
      BY <1>0, <2>1, <2>2
  <1>4. last' = last \/ Power!Report(last')
    <2>1. \A status : Power!Report(Bare(status))
      BY DEF Bare, Power!Report
    <2>2. CASE SetUninitialized
      BY <2>1, <2>2 DEF SetUninitialized
    <2>3. CASE Handle
      BY <2>1, <2>3 DEF Handle
    <2>4. CASE Top \/ Initialized \/ Recheck \/ Plan \/ Woken \/ RunRequested \/ Timer
      BY <2>4 DEF Top, Initialized, Recheck, Plan, Woken, RunRequested, Timer
    <2> QED
      BY <2>2, <2>3, <2>4 DEF Loop
  <1>5. Power!Excuse \/ UNCHANGED Power!vars
    BY <1>1, <1>2, <1>3, <1>4 DEF Power!Excuse, Power!vars
  <1> QED
    BY <1>5 DEF Power!Next

\* What the cloud and the owner do to an instance the controller sees as well.
LEMMA EnvironmentRefines ==
    ASSUME TypeOK, Mutex, Environment
    PROVE  [Power!Next]_(Power!vars)
  <1>0. runMu \in Caller \cup {Free}
    BY DEF TypeOK
  <1>1. ASSUME NEW i \in Instance, NEW status, Becomes(i, status),
               \/ ecs[i] = "Starting" /\ status \in {"Running", "Stopped"}
               \/ ecs[i] = "Stopping" /\ status = "Stopped"
               \/ ecs[i] = "Running" /\ status \in {"Stopping", "Stopped"}
               \/ ecs[i] # "Released" /\ status = "Released"
               \/ /\ "owner" \in Faults
                  /\ ecs[i] = "Stopped" /\ status = "Starting"
        PROVE  Power!Outside(i)
    <2>1. Turn' = Turn
      BY <1>0, <1>1, TurnStays DEF Becomes, callVars
    <2>2. ecs' = [ecs EXCEPT ![i] = status] /\ UNCHANGED <<metrics, last, lastResult>>
      BY <1>1 DEF Becomes, storeVars
    <2>3. status \in {"Running", "Starting", "Stopped", "Stopping", "Released"}
      BY <1>1
    <2> QED
      BY <1>1, <2>1, <2>2, <2>3 DEF Power!Outside
  <1>2. ASSUME NEW i \in Instance,
               \/ CloudProgress(i) \/ NoStock(i) \/ Reclaim(i) \/ Release(i)
               \/ OwnerStarts(i)
        PROVE  Power!Outside(i)
    <2>1. CASE CloudProgress(i)
      BY <1>1, <2>1 DEF CloudProgress
    <2>2. CASE NoStock(i)
      BY <1>1, <2>2 DEF NoStock
    <2>3. CASE Reclaim(i)
      BY <1>1, <2>3 DEF Reclaim
    <2>4. CASE Release(i)
      BY <1>1, <2>4 DEF Release, EcsStatus
    <2>5. CASE OwnerStarts(i)
      BY <1>1, <2>5 DEF OwnerStarts
    <2> QED
      BY <1>2, <2>1, <2>2, <2>3, <2>4, <2>5
  <1>3. CASE WindowMoves \/ BoundaryPasses \/ RegularPasses
    <2>1. UNCHANGED <<ecs, metrics, last, lastResult, runMu, pc, job>>
      BY <1>3 DEF WindowMoves, BoundaryPasses, RegularPasses, cloudVars, storeVars,
                  callVars
    <2>2. Turn' = Turn
      BY <1>0, <2>1, TurnStays
    <2> QED
      BY <2>1, <2>2 DEF Power!vars
  <1>4. CASE Crash
    <2>1. UNCHANGED <<ecs, metrics, lastResult>> /\ runMu' = Free
      BY <1>4 DEF Crash, cloudVars, storeVars
    <2>2. last'.ecs = "" /\ last'.reason = ""
      BY <1>4 DEF Crash, Bare
    <2>3. Power!Restart
      BY <2>1, <2>2, TurnFree DEF Power!Restart, Power!Report
    <2> QED
      BY <2>3 DEF Power!Next
  <1> QED
    BY <1>2, <1>3, <1>4 DEF Environment, Power!Next

\* The goroutines, the channels, the cloud and the crashes of the check cycle
\* implement a controller that takes one turn at a time.
THEOREM ServiceIsSerial == Spec => ImplementsPowerControl
  <1>1. Init => Power!Init
    <2> SUFFICES ASSUME Init PROVE Power!Init
      OBVIOUS
    <2>1. Turn = Power!NoTurn
      BY TurnFree DEF Init
    <2>2. last = lastResult /\ Power!Report(lastResult)
      BY DEF Init, Bare, Power!Report
    <2> QED
      BY <2>1, <2>2 DEF Init, EcsStatus, Power!Init
  <1>2. ASSUME TypeOK, Mutex, Kinds, Stored, Covering, StartUnderThreshold,
               [Next]_vars
        PROVE  [Power!Next]_(Power!vars)
    <2>1. runMu \in Caller \cup {Free}
      BY <1>2 DEF TypeOK
    <2>2. ASSUME NEW w \in Web, Handler(w) PROVE UNCHANGED Power!vars
      <3>1. \A c \in Caller : pc[c] \in InCheck => pc'[c] = pc[c] /\ job'[c] = job[c]
        BY <1>2, <2>2, HandlerMoves
      <3>2. UNCHANGED <<runMu, last, lastResult, metrics, ecs>>
        BY <1>2, <2>2, HandlerMoves
      <3>3. Turn' = Turn
        BY <1>2, <2>1, <3>1, <3>2, TurnStays
      <3> QED
        BY <3>2, <3>3 DEF Power!vars
    <2>3. CASE UNCHANGED vars
      <3>1. UNCHANGED <<runMu, last, lastResult, metrics, ecs, pc, job>>
        BY <2>3 DEF vars, cloudVars, storeVars, callVars
      <3>2. Turn' = Turn
        BY <1>2, <2>1, <3>1, TurnStays
      <3> QED
        BY <3>1, <3>2 DEF Power!vars
    <2> QED
      BY <1>2, <2>2, <2>3, CheckRefines, LoopRefines, EnvironmentRefines DEF Next
  <1>3. Spec => [](Kinds /\ Stored)
    BY StrengtheningHolds, PTL DEF IInv
  <1> QED
    BY <1>1, <1>2, <1>3, TypeCorrect, MutualExclusion, ChecksCover,
       StartsUnderThreshold, PTL DEF Spec, ImplementsPowerControl, Power!Spec

=============================================================================
