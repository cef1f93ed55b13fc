-------------------------- MODULE StopHistoryProofs --------------------------
(***************************************************************************)
(* Theorem: a stop the service made is never counted as an unexpected one, *)
(* for any goroutines, instances, modes and faults.  The invariant it      *)
(* needs, StopInv, follows the reason of a stop from the request to the    *)
(* record; it rests on the invariants of the check cycle.                  *)
(***************************************************************************)
EXTENDS StopHistory, PowerControlProofs

\* What the check cycle guarantees in every state.
CycleInv == TypeOK /\ Mutex /\ Kinds /\ QuickReason /\ Covering

\* The history only watches: every step is one of the check cycle.
LEMMA StopNextIsNext == StopNext => Next
  <1>1. ASSUME NEW c \in Caller, RecordECSState(c) \/ Work(c) PROVE Check(c)
    BY <1>1 DEF RecordECSState, Check
  <1> QED
    BY <1>1 DEF StopNext, Next

\* So every behaviour with the history is a behaviour of the check cycle.
LEMMA StopSpecIsSpec == StopSpec => Spec
  <1>1. StopInit => Init
    BY DEF StopInit
  <1>2. [StopNext]_<<vars, stopVars>> => [Next]_vars
    BY StopNextIsNext
  <1> QED
    BY <1>1, <1>2, PTL DEF StopSpec, Spec

\* The invariants of the check cycle hold beside the history.
LEMMA CycleHolds == StopSpec => []CycleInv
  <1>1. IInv => Mutex /\ Kinds /\ QuickReason /\ Covering
    BY DEF IInv
  <1> QED
    BY <1>1, StopSpecIsSpec, TypeCorrect, StrengtheningHolds, PTL DEF CycleInv

-----------------------------------------------------------------------------
(* Types.                                                                  *)

\* The status a check records is one of the statuses of the row.
LEMMA ObservedRow ==
    ASSUME TypeOK, NEW c \in Caller
    PROVE  Observed(ecs[Target], job[c].fallback) \in EcsStatus \cup {""}
  <1>1. ecs[Target] \in CloudStatus
    BY InstanceAssumption DEF TypeOK
  <1>2. job[c].fallback \in EcsStatus \cup {""}
    BY DEF TypeOK, Job
  <1> QED
    BY <1>1, <1>2, ObservedType

\* The rows and the history variable keep their types.
THEOREM StopTypeCorrect == StopSpec => []StopTypeOK
  <1>1. StopInit => StopTypeOK
    <2>1. [status |-> "", scheduled |-> FALSE]
             \in [status : EcsStatus \cup {""}, scheduled : BOOLEAN]
      OBVIOUS
    <2> QED
      BY <2>1 DEF StopInit, StopTypeOK
  <1>2. ASSUME TypeOK, StopTypeOK, [StopNext]_<<vars, stopVars>> PROVE StopTypeOK'
    <2>1. CASE UNCHANGED <<vars, stopVars>>
      BY <1>2, <2>1 DEF StopTypeOK, stopVars
    <2>2. ASSUME StopNext PROVE cause' \in {"none", "asked", "service"}
      BY <1>2, <2>2 DEF StopNext, Blame, StopTypeOK
    <2>3. ASSUME NEW c \in Caller, RecordECSState(c), StopNext PROVE StopTypeOK'
      BY <1>2, <2>2, <2>3, ObservedRow DEF RecordECSState, EventOf, StopTypeOK
    <2>4. ASSUME Elsewhere, StopNext PROVE StopTypeOK'
      BY <1>2, <2>2, <2>4 DEF Elsewhere, StopTypeOK
    <2> QED
      BY <1>2, <2>1, <2>3, <2>4 DEF StopNext
  <1> QED
    BY <1>1, <1>2, StopSpecIsSpec, TypeCorrect, PTL DEF StopSpec

-----------------------------------------------------------------------------
(* Reasons.                                                                *)

\* A result without a check has no reason.
LEMMA BareReason == \A status : Bare(status).reason = ""
  BY DEF Bare

\* Every step keeps the reasons known.
LEMMA ReasonKnownStep ==
    ASSUME CycleInv, ReasonKnown, Next
    PROVE  ReasonKnown'
  <1> USE DEF CycleInv
  <1>0. /\ Free \notin Caller /\ Web \subseteq Caller /\ Sched \in Caller
        /\ Caller = Web \cup {Sched} /\ Sched \notin Web
    BY Callers DEF Caller
  <1>1. ASSUME NEW c \in Caller, Check(c) PROVE ReasonKnown'
    <2>1. \A d \in Caller \ {c} : pc'[d] = pc[d] /\ job'[d] = job[d]
      BY <1>1, CheckMoves, CheckLocals
    <2>2. pc'[c] \in InCheck => job'[c].reason # ""
      <3>1. CASE BeginRun(c)
        BY <3>1, BeginRunLocals DEF Reason, StartReason, StopReason, ProtectReason
      <3>2. CASE BeginRefresh(c)
        <4>1. c = Sched
          BY <1>0, <3>2 DEF BeginRefresh, Kinds
        <4>2. pc[Sched] = "lock" /\ job[Sched].kind = "refresh"
          BY <3>2, <4>1 DEF BeginRefresh
        <4> QED
          BY <3>2, <4>2, BeginRefreshLocals DEF ReasonKnown
      <3>3. CASE Look(c) \/ Request(c) \/ SaveLastResult(c) \/ Record(c)
        <4>1. pc[c] \in InCheck
          BY <3>3 DEF Look, Request, SaveLastResult, Record, InCheck
        <4> QED
          BY <3>3, <4>1, ReasonStays DEF ReasonKnown
      <3>4. CASE BeginFails(c) \/ AnswerLost(c) \/ CallFails(c) \/ Publish(c)
        BY <3>4, EndLocals DEF InCheck
      <3> QED
        BY <1>1, <3>1, <3>2, <3>3, <3>4 DEF Check, Work
    <2>3. last' = last \/ last'.reason # ""
      <3>1. CASE pc[c] = "publish" /\ last' = ResultOf(c)
        BY <3>1 DEF ReasonKnown, ResultOf, InCheck
      <3> QED
        BY <1>1, <3>1, CheckResults
    <2>4. pc'[Sched] = "lock" => pc[Sched] = "lock" /\ job'[Sched] = job[Sched]
      BY <1>0, <1>1, <2>1, CheckMoves DEF InCheck
    <2> QED
      BY <2>1, <2>2, <2>3, <2>4 DEF ReasonKnown
  <1>2. CASE Loop
    <2>1. \A c \in Caller : pc'[c] \in InCheck => pc[c] \in InCheck /\ job'[c] = job[c]
      BY <1>0, <1>2, LoopMoves
    <2>2. last' = last \/ (last'.ecs = "" /\ pc'[Sched] # "lock")
      <3>1. pc \in [Caller -> CallPC \cup SchedPC \cup WebPC]
        BY DEF TypeOK
      <3>2. CASE SetUninitialized \/ Handle
        <4>1. pc'[Sched] \in {"uninit", "plan"}
          BY <1>0, <3>1, <3>2 DEF SetUninitialized, Handle, Goto
        <4>2. last' \in {last, Bare("uninit"), Bare("failed")}
          BY <3>2 DEF SetUninitialized, Handle
        <4> QED
          BY <4>1, <4>2, BareType
      <3>3. CASE Top \/ Initialized \/ Recheck \/ Plan \/ Woken \/ RunRequested \/ Timer
        BY <3>3 DEF Top, Initialized, Recheck, Plan, Woken, RunRequested, Timer
      <3> QED
        BY <1>2, <3>2, <3>3 DEF Loop
    <2>3. pc'[Sched] = "lock" /\ job'[Sched].kind = "refresh" /\ last' = last
             => last.reason # ""
      <3>1. pc \in [Caller -> CallPC \cup SchedPC \cup WebPC]
        BY DEF TypeOK
      <3>2. CASE Top
        <4>1. Call(Sched, "run") \/ Goto(Sched, "forget") \/ Goto(Sched, "recheck")
          BY <3>2 DEF Top
        <4>2. CASE Call(Sched, "run")
          <5>1. job'[Sched].kind = "run"
            BY <1>0, <4>2, CallKind
          <5> QED
            BY <5>1
        <4>3. CASE Goto(Sched, "forget") \/ Goto(Sched, "recheck")
          BY <1>0, <3>1, <4>3 DEF Goto
        <4> QED
          BY <4>1, <4>2, <4>3
      <3>3. CASE Recheck
        BY <1>0, <3>1, <3>3 DEF Recheck, Goto, Transitioning, ReasonKnown
      <3>4. CASE SetUninitialized \/ Initialized \/ Handle \/ Plan
                 \/ Woken \/ RunRequested \/ Timer
        BY <1>0, <3>1, <3>4 DEF SetUninitialized, Initialized, Handle, Plan, Woken,
                                RunRequested, Timer, Goto
      <3> QED
        BY <1>2, <3>2, <3>3, <3>4 DEF Loop
    <2> QED
      BY <2>1, <2>2, <2>3 DEF ReasonKnown
  <1>3. ASSUME NEW w \in Web, Handler(w) PROVE ReasonKnown'
    BY <1>0, <1>3, HandlerMoves DEF ReasonKnown
  <1>4. CASE Environment
    <2>1. CASE Crash
      BY <2>1, <1>0, CrashMoves DEF InCheck, ReasonKnown
    <2> QED
      BY <1>4, <2>1, EnvironmentMoves DEF ReasonKnown
  <1> QED
    BY <1>1, <1>2, <1>3, <1>4 DEF Next

-----------------------------------------------------------------------------
(* The status a check carries.                                             *)

\* While one goroutine steps inside a check or into one, the others are outside.
LEMMA OthersOutside ==
    ASSUME CycleInv, NEW c \in Caller, Check(c)
    PROVE  \A d \in Caller \ {c} :
              pc'[d] = pc[d] /\ job'[d] = job[d] /\ pc[d] \notin InCheck /\ pc'[d] \notin InCheck
  BY Callers, CheckMoves, CheckLocals DEF Mutex, CycleInv

\* The locals of the only check between the mutex and the record, after a step of it.
LEMMA CarriedByCheck ==
    ASSUME CycleInv, StatusCarried, NEW c \in Caller, Check(c),
           pc'[c] \in {"look", "request", "record"}
    PROVE  IF job'[c].kind = "refresh" THEN job'[c].fallback = last.ecs
           ELSE job'[c].reason \notin StartReason => job'[c].fallback \notin Up
  <1> USE DEF CycleInv
  <1>0. job \in [Caller -> Job] /\ pc \in [Caller -> CallPC \cup SchedPC \cup WebPC]
    BY DEF TypeOK
  <1>1. CASE BeginRun(c)
    <2>1. /\ job'[c].kind = "run"
          /\ job'[c].fallback = Fallback(job'[c].reason, FALSE)
      BY <1>1, BeginRunLocals
    <2>2. job'[c].reason \in Reason
      BY <1>1, BeginRunLocals
    <2>3. job'[c].reason \notin StartReason => Fallback(job'[c].reason, FALSE) \notin Up
      BY <2>2 DEF Fallback, Reason, StartReason, StopReason, ProtectReason, Up
    <2> QED
      BY <2>1, <2>3
  <1>2. CASE BeginRefresh(c)
    <2>1. job'[c].kind = "refresh" /\ job'[c].fallback = last.ecs
      BY <1>2, BeginRefreshLocals
    <2> QED
      BY <2>1
  <1>3. CASE Look(c)
    <2>1. job'[c].kind = job[c].kind /\ job'[c].reason = job[c].reason
          /\ pc[c] = "look"
      BY <1>3, LookLocals
    <2>2. job'[c].fallback = job[c].fallback
      BY <1>0, <1>3 DEF Look, Job
    <2> QED
      BY <2>1, <2>2 DEF StatusCarried
  <1>4. CASE Request(c)
    <2>1. /\ job[c].kind = "run" /\ job'[c].kind = "run"
          /\ job'[c].reason = job[c].reason
      BY <1>4, RequestLocals DEF Covering
    <2>2. job'[c].fallback = Fallback(job[c].reason, TRUE)
      BY <1>0, <1>4 DEF Request, Job
    <2>3. job[c].reason \notin StartReason => Fallback(job[c].reason, TRUE) \notin Up
      BY DEF Fallback, StartReason, StopReason, ProtectReason, Up
    <2> QED
      BY <2>1, <2>2, <2>3
  <1>5. CASE SaveLastResult(c) \/ Record(c)
    BY <1>5, RecordLocals
  <1>6. CASE BeginFails(c) \/ AnswerLost(c) \/ CallFails(c) \/ Publish(c)
    BY <1>6, EndLocals
  <1> QED
    BY <1>1, <1>2, <1>3, <1>4, <1>5, <1>6 DEF Check, Work

\* Every step keeps the carried status.
LEMMA StatusCarriedStep ==
    ASSUME CycleInv, StatusCarried, Next
    PROVE  StatusCarried'
  <1> USE DEF CycleInv
  <1>0. /\ Web \subseteq Caller /\ Sched \in Caller /\ Caller = Web \cup {Sched}
        /\ Free \notin Caller
    BY Callers DEF Caller
  <1>1. ASSUME NEW c \in Caller, Check(c) PROVE StatusCarried'
    <2>1. \A d \in Caller \ {c} : pc'[d] \notin InCheck
      BY <1>1, OthersOutside
    <2>2. pc'[c] \in {"look", "request", "record"} => last' = last
      BY <1>1, CheckResults
    <2> QED
      BY <1>1, <2>1, <2>2, CarriedByCheck DEF StatusCarried, InCheck
  <1>2. CASE Loop
    <2>1. \A c \in Caller : pc'[c] \in InCheck =>
             pc[c] \in InCheck /\ c \in Web /\ job'[c] = job[c] /\ pc'[c] = pc[c]
      BY <1>0, <1>2, LoopMoves
    <2>2. \A w \in Web : job[w].kind = "run"
      BY DEF Kinds
    <2> QED
      BY <2>1, <2>2 DEF StatusCarried, InCheck
  <1>3. ASSUME NEW w \in Web, Handler(w) PROVE StatusCarried'
    BY <1>0, <1>3, HandlerMoves DEF StatusCarried, InCheck
  <1>4. CASE Environment
    <2>1. CASE Crash
      BY <2>1, CrashMoves DEF StatusCarried
    <2> QED
      BY <1>4, <2>1, EnvironmentMoves DEF StatusCarried
  <1> QED
    BY <1>1, <1>2, <1>3, <1>4 DEF Next

-----------------------------------------------------------------------------
(* Who is blamed.                                                          *)

\* A check that has not recorded its state, and one that ends with an error in this step.
Unrecorded == \E c \in Caller : pc[c] \in {"look", "request", "record"}
Failing == \E c \in Caller : pc[c] # "err" /\ pc'[c] = "err"

\* A goroutine stops the target in this step.
Stops == ecs[Target] \in Up /\ ecs'[Target] \notin Up /\ pc' # pc

\* A running target is nobody's stop; a stop is asked for until no check is before its
\* record, and it is the service's from then on if no check failed in that step.
LEMMA BlameMoves ==
    ASSUME Blame
    PROVE  /\ ecs'[Target] \in Up => cause' = "none"
           /\ cause' = "asked" => Unrecorded' /\ (cause = "asked" \/ Stops)
           /\ cause' = "service" =>
                /\ ecs'[Target] \notin Up
                /\ \/ cause = "service" /\ ecs[Target] \notin Up
                   \/ ~Unrecorded' /\ ~Failing /\ (cause = "asked" \/ Stops)
  <1>1. CASE ecs'[Target] \in Up
    BY <1>1 DEF Blame
  <1>2. CASE ecs'[Target] \notin Up /\ ecs[Target] \in Up
    BY <1>2 DEF Blame, Failing, Unrecorded, Stops
  <1>3. CASE ecs'[Target] \notin Up /\ ecs[Target] \notin Up
    BY <1>3 DEF Blame, Failing, Unrecorded
  <1> QED
    BY <1>1, <1>2, <1>3

\* A check takes the target out of the running states by a request that was taken
\* for another reason than a start, or it fails in the same step.
LEMMA CheckStops ==
    ASSUME TypeOK, NEW c \in Caller, Check(c),
           ecs[Target] \in Up, ecs'[Target] \notin Up
    PROVE  \/ pc[c] # "err" /\ pc'[c] = "err"
           \/ Request(c) /\ job[c].reason \notin StartReason
  <1>0. /\ ecs \in [Instance -> CloudStatus] /\ Target \in Instance
        /\ pc \in [Caller -> CallPC \cup SchedPC \cup WebPC]
    BY InstanceAssumption DEF TypeOK
  <1>1. CASE Request(c)
    <2>1. CASE job[c].reason \in StartReason
      BY <1>0, <1>1, <2>1 DEF Request, Accepted, Up
    <2> QED
      BY <1>1, <2>1
  <1>2. CASE AnswerLost(c)
    BY <1>0, <1>2 DEF AnswerLost, Return, Goto
  <1>3. CASE BeginRun(c) \/ BeginRefresh(c) \/ Look(c)
    BY <1>3, BeginRunLocals, BeginRefreshLocals, LookLocals
  <1>4. CASE SaveLastResult(c) \/ Record(c)
    BY <1>4, RecordLocals
  <1>5. CASE BeginFails(c) \/ CallFails(c) \/ Publish(c)
    BY <1>5 DEF BeginFails, CallFails, Publish, cloudVars
  <1> QED
    BY <1>1, <1>2, <1>3, <1>4, <1>5 DEF Check, Work

\* A check that gets to its record with a start has just seen the target running
\* or made it start, or it follows a published start.
LEMMA StartSeenUp ==
    ASSUME CycleInv, NEW c \in Caller, Check(c),
           pc'[c] \in {"record", "save", "publish"}, job'[c].reason \in StartReason
    PROVE  \/ ecs'[Target] \in Up
           \/ BeginRefresh(c) /\ last.reason \in StartReason /\ UNCHANGED ecs
           \/ /\ pc[c] \in {"record", "save", "publish"}
              /\ job[c].reason \in StartReason /\ UNCHANGED ecs
  <1> USE DEF CycleInv
  <1>0. /\ ecs \in [Instance -> CloudStatus] /\ Target \in Instance
        /\ pc \in [Caller -> CallPC \cup SchedPC \cup WebPC]
    BY InstanceAssumption DEF TypeOK
  <1>1. CASE BeginRun(c)
    <2>1. job'[c].todo = {Target}
      BY <1>1, BeginRunLocals DEF Affected, StartReason, ProtectReason
    <2>2. pc'[c] = "look"
      BY <1>1, <2>1, BeginRunLocals DEF Continue
    <2> QED
      BY <2>2
  <1>2. CASE BeginRefresh(c)
    BY <1>2, BeginRefreshLocals
  <1>3. CASE Look(c) \/ Request(c)
    <2>1. /\ pc[c] \in {"look", "request"} /\ job[c].kind = "run"
          /\ job[c].reason \in StartReason
      BY <1>3, ReasonStays DEF Look, Request, Covering
    <2>2. Scope(job[c].reason) = {Target}
      BY <2>1 DEF Scope, StartReason, ProtectReason
    <2>3. job[c].todo \subseteq {Target}
      BY <2>1, <2>2 DEF Covering, InCheck
    <2>4. CASE Look(c)
      BY <1>0, <2>1, <2>3, <2>4, LookLocals DEF Up
    <2>5. CASE Request(c)
      <3>1. job[c].cur = Target
        BY <2>3, <2>5 DEF Covering, Request
      <3>2. Accepted(job[c].reason, Target)
        BY <2>5, <3>1 DEF Request
      <3> QED
        BY <1>0, <2>1, <3>2 DEF Accepted, Up
    <2> QED
      BY <1>3, <2>4, <2>5
  <1>4. CASE SaveLastResult(c) \/ Record(c)
    BY <1>4, RecordLocals
  <1>5. CASE BeginFails(c) \/ AnswerLost(c) \/ CallFails(c) \/ Publish(c)
    BY <1>5, EndLocals
  <1> QED
    BY <1>1, <1>2, <1>3, <1>4, <1>5 DEF Check, Work

\* A step that asks for a stop is the request of a full check that goes on.
LEMMA AskedByRequest ==
    ASSUME CycleInv, Next, Stops
    PROVE  \/ Failing /\ ~Unrecorded'
           \/ \E c \in Caller : Request(c) /\ job[c].reason \notin StartReason
  <1> USE DEF CycleInv
  <1>1. ASSUME NEW c \in Caller, Check(c)
        PROVE  (Failing /\ ~Unrecorded') \/ (Request(c) /\ job[c].reason \notin StartReason)
    <2>1. CASE pc[c] # "err" /\ pc'[c] = "err"
      BY <1>1, <2>1, OthersOutside DEF Failing, Unrecorded, InCheck
    <2> QED
      BY <1>1, <2>1, CheckStops DEF Stops
  <1>2. CASE Loop
    BY <1>2, LoopLocals DEF Stops
  <1>3. ASSUME NEW w \in Web, Handler(w) PROVE FALSE
    BY <1>3, HandlerMoves DEF Stops
  <1>4. CASE Environment
    BY <1>4, EnvironmentMoves DEF Stops, Crash, cloudVars
  <1> QED
    BY <1>1, <1>2, <1>3, <1>4 DEF Next

\* The owner of a stop: a full check that has not recorded it yet.
Owner(c) ==
    /\ pc[c] \in {"look", "request", "record"}
    /\ job[c].kind = "run" /\ job[c].reason \notin StartReason

\* A request that is taken for a stop leaves its check before the record.
LEMMA RequestOwns ==
    ASSUME CycleInv, NEW c \in Caller, Request(c), job[c].reason \notin StartReason
    PROVE  Owner(c)'
  <1>1. /\ pc[c] = "request" /\ job'[c].kind = job[c].kind /\ job'[c].reason = job[c].reason
        /\ pc'[c] = Continue(job'[c].todo)
    BY RequestLocals DEF CycleInv
  <1>2. job[c].kind = "run"
    BY <1>1 DEF CycleInv, Covering
  <1>3. pc'[c] \in {"look", "record"}
    BY <1>1 DEF Continue
  <1> QED
    BY <1>1, <1>2, <1>3 DEF Owner

\* What becomes of an owner: it stays one, records, fails or is lost in a crash.
LEMMA OwnerMoves ==
    ASSUME CycleInv, Next, NEW c \in Caller, Owner(c)
    PROVE  \/ Owner(c)'
           \/ /\ Record(c) \/ Failing \/ Crash
              /\ ~Unrecorded'
  <1> USE DEF CycleInv
  <1>0. /\ Free \notin Caller /\ Web \subseteq Caller /\ Sched \in Caller
        /\ Caller = Web \cup {Sched}
        /\ pc[c] \in InCheck /\ runMu = c
        /\ \A d \in Caller \ {c} : pc[d] \notin InCheck
    BY Callers DEF Caller, Mutex, Owner, InCheck
  <1>1. ASSUME NEW d \in Caller, Check(d)
        PROVE  Owner(c)' \/ ((Record(c) \/ Failing) /\ ~Unrecorded')
    <2>1. d = c /\ pc[c] # "lock"
      BY <1>0, <1>1, CheckMoves DEF InCheck
    <2>2. \A e \in Caller \ {c} : pc'[e] \notin InCheck
      BY <1>0, <1>1, <2>1, CheckMoves
    <2>3. CASE Look(c) \/ Request(c)
      <3>1. pc'[c] \in {"look", "request", "record"}
        BY <2>3, LookLocals, RequestLocals DEF Continue
      <3>2. job'[c].kind = job[c].kind /\ job'[c].reason = job[c].reason
        BY <2>3, LookLocals, RequestLocals
      <3> QED
        BY <3>1, <3>2 DEF Owner
    <2>4. CASE Record(c)
      <3>1. pc'[c] = "save"
        BY <2>4, RecordLocals DEF Owner, Record
      <3> QED
        BY <2>2, <2>4, <3>1 DEF Unrecorded, InCheck
    <2>5. CASE AnswerLost(c) \/ CallFails(c)
      <3>1. pc'[c] = "err" /\ pc[c] # "err"
        BY <1>0, <2>5 DEF AnswerLost, CallFails, Return, Goto, TypeOK, InCheck
      <3> QED
        BY <2>2, <3>1 DEF Unrecorded, Failing, InCheck
    <2>6. CASE BeginRun(c) \/ BeginRefresh(c) \/ BeginFails(c) \/ SaveLastResult(c) \/ Publish(c)
      BY <2>1, <2>6 DEF BeginRun, BeginRefresh, BeginFails, SaveLastResult, Publish, Owner
    <2> QED
      BY <1>1, <2>1, <2>3, <2>4, <2>5, <2>6 DEF Check, Work
  <1>2. CASE Loop
    BY <1>0, <1>2, LoopMoves DEF Owner
  <1>3. ASSUME NEW w \in Web, Handler(w) PROVE Owner(c)'
    BY <1>0, <1>3, HandlerMoves DEF Owner
  <1>4. CASE Environment
    <2>1. CASE Crash
      BY <2>1, CrashMoves DEF Unrecorded
    <2> QED
      BY <1>4, <2>1, EnvironmentMoves DEF Owner
  <1> QED
    BY <1>1, <1>2, <1>3, <1>4 DEF Next

\* Every step keeps a stop that was asked for with its check.
LEMMA StopOwnedStep ==
    ASSUME CycleInv, StopOwned, StopNext
    PROVE  StopOwned'
  <1>1. Next /\ Blame
    BY StopNextIsNext DEF StopNext
  <1>2. ecs'[Target] \in Up => cause' = "none"
    BY <1>1, BlameMoves
  <1>3. ASSUME cause' = "asked" PROVE \E c \in Caller : Owner(c)'
    <2>1. Unrecorded' /\ (cause = "asked" \/ Stops)
      BY <1>1, <1>3, BlameMoves
    <2>2. CASE cause = "asked"
      <3>1. PICK c \in Caller : Owner(c)
        BY <2>2 DEF StopOwned, Owner
      <3> QED
        BY <1>1, <2>1, <3>1, OwnerMoves
    <2>3. CASE Stops
      <3>1. CASE \E c \in Caller : Request(c) /\ job[c].reason \notin StartReason
        BY <3>1, RequestOwns
      <3> QED
        BY <1>1, <2>1, <2>3, <3>1, AskedByRequest
    <2> QED
      BY <2>1, <2>2, <2>3
  <1> QED
    BY <1>2, <1>3 DEF StopOwned, Owner

\* Only the record takes a check to its save, and it writes the rows.
LEMMA RecordIsWhole ==
    ASSUME CycleInv, StopNext, NEW c \in Caller, Record(c)
    PROVE  RecordECSState(c)
  <1> USE DEF CycleInv
  <1>0. /\ Web \subseteq Caller /\ Sched \in Caller /\ Caller = Web \cup {Sched}
        /\ Free \notin Caller /\ pc[c] = "record" /\ pc'[c] = "save"
    BY Callers, RecordLocals DEF Caller, Record
  <1>1. ASSUME NEW d \in Caller, RecordECSState(d) PROVE RecordECSState(c)
    <2>1. pc[d] = "record"
      BY <1>1 DEF RecordECSState, Record
    <2> QED
      BY <1>0, <1>1, <2>1 DEF Mutex, InCheck
  <1>2. ASSUME NEW d \in Caller, Work(d) PROVE FALSE
    <2>1. d = c
      BY <1>0, <1>2, OthersOutside DEF Check, InCheck
    <2>2. CASE BeginRun(c) \/ BeginRefresh(c) \/ Look(c) \/ Request(c) \/ SaveLastResult(c)
      BY <1>0, <2>2 DEF BeginRun, BeginRefresh, Look, Request, SaveLastResult
    <2>3. CASE BeginFails(c) \/ AnswerLost(c) \/ CallFails(c) \/ Publish(c)
      BY <1>0, <2>3, EndLocals
    <2> QED
      BY <1>2, <2>1, <2>2, <2>3 DEF Work
  <1>3. CASE Loop
    BY <1>0, <1>3, LoopMoves DEF InCheck
  <1>4. ASSUME NEW w \in Web, Handler(w) PROVE FALSE
    BY <1>0, <1>4, HandlerMoves DEF InCheck
  <1>5. CASE Environment
    BY <1>0, <1>5, EnvironmentMoves, CrashMoves
  <1> QED
    BY <1>1, <1>2, <1>3, <1>4, <1>5 DEF StopNext

\* A released instance stays released.
LEMMA ReleasedStays ==
    ASSUME TypeOK, Next, ecs[Target] = "Released"
    PROVE  ecs'[Target] = "Released"
  <1>0. ecs \in [Instance -> CloudStatus] /\ Target \in Instance
    BY InstanceAssumption DEF TypeOK
  <1>1. ASSUME NEW c \in Caller, Check(c) PROVE ecs'[Target] = "Released"
    <2>1. CASE Request(c) \/ AnswerLost(c)
      BY <1>0, <2>1 DEF Request, AnswerLost, Accepted, EcsStatus
    <2>2. CASE BeginRun(c) \/ BeginRefresh(c) \/ Look(c) \/ SaveLastResult(c) \/ Record(c)
      BY <2>2, BeginRunLocals, BeginRefreshLocals, LookLocals, RecordLocals
    <2>3. CASE BeginFails(c) \/ CallFails(c) \/ Publish(c)
      BY <2>3 DEF BeginFails, CallFails, Publish, cloudVars
    <2> QED
      BY <1>1, <2>1, <2>2, <2>3 DEF Check, Work
  <1>2. CASE Loop
    BY <1>2, LoopLocals
  <1>3. ASSUME NEW w \in Web, Handler(w) PROVE ecs'[Target] = "Released"
    BY <1>3, HandlerMoves
  <1>4. CASE Environment
    BY <1>0, <1>4, EnvironmentMoves DEF Crash, cloudVars
  <1> QED
    BY <1>1, <1>2, <1>3, <1>4 DEF Next

\* The record of a target that is down makes harmless what the check carries.
LEMMA RecordHarmless ==
    ASSUME CycleInv, StatusCarried, NEW c \in Caller, RecordECSState(c),
           ecs[Target] \notin Up,
           job[c].kind = "refresh" \/ job[c].reason \notin StartReason
    PROVE  /\ (last.reason \in StartReason => Harmless(last.ecs))'
           /\ (job[c].reason \in StartReason => Harmless(job[c].fallback))'
           /\ pc'[c] = "save" /\ job'[c].kind = job[c].kind
  <1> USE DEF CycleInv
  <1> DEFINE seen == Observed(ecs[Target], job[c].fallback)
  <1>0. /\ ecs[Target] \in {"Stopped", "Stopping", "Released"}
        /\ job \in [Caller -> Job]
    BY InstanceAssumption DEF TypeOK, CloudStatus, EcsStatus, Up
  <1>1. /\ pc[c] = "record" /\ pc'[c] = "save"
        /\ job'[c].kind = job[c].kind /\ job'[c].reason = job[c].reason
        /\ UNCHANGED <<ecs, last>>
    BY RecordLocals DEF RecordECSState, Record
  <1>2. job'[c].fallback = seen /\ ecsState'.status = seen
    BY <1>0 DEF RecordECSState, Record, Job
  <1>3. CASE job[c].kind = "refresh"
    <2>1. job[c].fallback = last.ecs /\ job[c].reason = last.reason
      BY <1>1, <1>3 DEF StatusCarried, QuickReason, InCheck
    <2>2. \/ job[c].fallback = "Starting" /\ seen = "Starting"
          \/ seen \notin Up
          \/ ecs[Target] = "Released" /\ seen = job[c].fallback
      BY <1>0 DEF Observed, Up
    <2> QED
      BY <1>1, <1>2, <2>1, <2>2 DEF Harmless, Up
  <1>4. CASE job[c].kind # "refresh"
    <2>1. job[c].fallback \notin Up /\ job[c].reason \notin StartReason
      BY <1>1, <1>4 DEF StatusCarried
    <2>2. seen \notin Up
      BY <1>0, <2>1 DEF Observed, Up
    <2> QED
      BY <1>1, <1>2, <2>1, <2>2 DEF Harmless
  <1> QED
    BY <1>3, <1>4

\* A check that goes on after a stop of the service keeps the blame right.
LEMMA StartNotBlamedWork ==
    ASSUME CycleInv, StartNotBlamed, cause = "service", ecs[Target] \notin Up,
           ecs'[Target] \notin Up, Next, Elsewhere, NEW c \in Caller, Work(c)
    PROVE  StartNotBlamed'
  <1> USE DEF CycleInv
  <1>0. Check(c) /\ ecsState' = ecsState /\ job \in [Caller -> Job]
        /\ (ecs[Target] = "Released" => ecs'[Target] = "Released")
    BY ReleasedStays DEF Check, Elsewhere, TypeOK
  <1>1. last'.reason \in StartReason => Harmless(last.ecs)'
    <2>1. CASE last' = last
      BY <1>0, <2>1 DEF StartNotBlamed, Harmless
    <2>2. CASE pc[c] = "publish" /\ last' = ResultOf(c)
      <3>1. last'.reason = job[c].reason /\ last'.ecs = job[c].fallback
        BY <2>2 DEF ResultOf
      <3> QED
        BY <1>0, <2>2, <3>1 DEF StartNotBlamed, Harmless
    <2> QED
      BY <1>0, <2>1, <2>2, CheckResults
  <1>2. ASSUME pc'[c] \in {"record", "save", "publish"}, job'[c].reason \in StartReason
        PROVE  job'[c].kind = "refresh" /\ Harmless(job[c].fallback)'
    <2>1. CASE BeginRefresh(c) /\ last.reason \in StartReason
      <3>1. job'[c].kind = "refresh" /\ job'[c].fallback = last.ecs
        BY <2>1, BeginRefreshLocals
      <3> QED
        BY <1>0, <2>1, <3>1 DEF StartNotBlamed, Harmless
    <2>2. CASE pc[c] \in {"record", "save", "publish"} /\ job[c].reason \in StartReason
      <3>1. SaveLastResult(c)
        <4>1. ~(BeginFails(c) \/ AnswerLost(c) \/ CallFails(c) \/ Publish(c))
          BY <1>2, EndLocals
        <4> QED
          BY <2>2, <4>1 DEF Work, BeginRun, BeginRefresh, Look, Request
      <3>2. job' = job
        BY <3>1 DEF SaveLastResult
      <3> QED
        BY <1>0, <2>2, <3>2 DEF StartNotBlamed, Harmless
    <2> QED
      BY <1>0, <1>2, <2>1, <2>2, StartSeenUp
  <1>3. \A d \in Caller \ {c} : pc'[d] \notin InCheck
    BY <1>0, OthersOutside
  <1> QED
    BY <1>1, <1>2, <1>3 DEF StartNotBlamed, InCheck

\* Every step keeps the blame right.
LEMMA StartNotBlamedStep ==
    ASSUME CycleInv, StatusCarried, StopOwned, StartNotBlamed, StopNext
    PROVE  StartNotBlamed'
  <1> USE DEF CycleInv
  <1> SUFFICES ASSUME cause' = "service" PROVE StartNotBlamed'
    BY DEF StartNotBlamed
  <1>0. /\ Web \subseteq Caller /\ Sched \in Caller /\ Caller = Web \cup {Sched}
        /\ Next /\ Blame /\ ecs'[Target] \notin Up
    BY Callers, StopNextIsNext, BlameMoves DEF Caller, StopNext
  <1>1. ASSUME \A d \in Caller : pc'[d] \in InCheck => pc'[d] = pc[d] /\ job'[d] = job[d],
               last' = last \/ last'.reason = "", cause = "service", ecsState' = ecsState
        PROVE  StartNotBlamed'
    <2>1. ecs[Target] = "Released" => ecs'[Target] = "Released"
      BY <1>0, ReleasedStays
    <2> QED
      BY <1>1, <2>1 DEF StartNotBlamed, Harmless, InCheck, StartReason
  <1>2. CASE cause = "service" /\ ecs[Target] \notin Up
    <2>1. ASSUME NEW c \in Caller, RecordECSState(c) PROVE StartNotBlamed'
      <3>1. pc[c] = "record" /\ Check(c)
        BY <2>1 DEF RecordECSState, Record, Check
      <3>2. job[c].kind = "refresh" \/ job[c].reason \notin StartReason
        BY <1>2, <3>1 DEF StartNotBlamed
      <3>3. \A d \in Caller \ {c} : pc'[d] \notin InCheck
        BY <3>1, OthersOutside
      <3>4. job'[c].reason \in StartReason => job[c].kind = "refresh"
        BY <2>1, <3>2, RecordLocals DEF RecordECSState
      <3> QED
        BY <1>2, <2>1, <3>2, <3>3, <3>4, RecordHarmless DEF StartNotBlamed, InCheck
    <2>2. ASSUME NEW c \in Caller, Work(c), Elsewhere PROVE StartNotBlamed'
      BY <1>0, <1>2, <2>2, StartNotBlamedWork
    <2>3. CASE Loop /\ Elsewhere
      <3>1. last' \in {last, Bare("uninit"), Bare("failed")}
        BY <2>3 DEF Loop, Top, SetUninitialized, Initialized, Recheck, Handle, Plan, Woken,
                    RunRequested, Timer
      <3> QED
        BY <1>0, <1>1, <1>2, <2>3, <3>1, LoopMoves, BareReason DEF Elsewhere
    <2>4. ASSUME NEW w \in Web, Handler(w), Elsewhere PROVE StartNotBlamed'
      BY <1>0, <1>1, <1>2, <2>4, HandlerMoves DEF Elsewhere
    <2>5. CASE Environment /\ Elsewhere
      <3>1. CASE Crash
        <4>1. last'.reason = "" /\ \A c \in Caller : pc'[c] \notin InCheck
          BY <3>1, CrashMoves, BareReason DEF Crash, InCheck
        <4> QED
          BY <1>1, <1>2, <2>5, <4>1 DEF Elsewhere
      <3> QED
        BY <1>1, <1>2, <2>5, <3>1, EnvironmentMoves DEF Elsewhere
    <2> QED
      BY <2>1, <2>2, <2>3, <2>4, <2>5 DEF StopNext
  <1>3. CASE ~Unrecorded' /\ ~Failing /\ (cause = "asked" \/ Stops)
    <2>1. ~Stops
      <3>1. \A c \in Caller : Owner(c)' => Unrecorded'
        BY DEF Owner, Unrecorded
      <3> QED
        BY <1>0, <1>3, <3>1, AskedByRequest, RequestOwns
    <2>2. PICK c \in Caller : Owner(c)
      BY <1>3, <2>1 DEF StopOwned, Owner
    <2>3. Record(c) \/ Crash
      BY <1>0, <1>3, <2>2, OwnerMoves DEF Owner, Unrecorded
    <2>4. CASE Record(c)
      <3>1. RecordECSState(c) /\ Check(c) /\ job[c].reason \notin StartReason
        BY <2>2, <2>4, RecordIsWhole DEF Check, Owner
      <3>2. ecs[Target] \notin Up
        BY <1>0, <3>1, RecordLocals DEF RecordECSState
      <3>3. job'[c].reason \notin StartReason
        BY <3>1, RecordLocals DEF RecordECSState
      <3>4. \A d \in Caller \ {c} : pc'[d] \notin InCheck
        BY <3>1, OthersOutside
      <3> QED
        BY <3>1, <3>2, <3>3, <3>4, RecordHarmless DEF StartNotBlamed, InCheck
    <2>5. CASE Crash
      <3>1. last'.reason = "" /\ \A d \in Caller : pc'[d] \notin InCheck
        BY <2>5, CrashMoves, BareReason DEF Crash, InCheck
      <3> QED
        BY <3>1 DEF StartNotBlamed, InCheck, StartReason
    <2> QED
      BY <2>3, <2>4, <2>5
  <1> QED
    BY <1>0, <1>2, <1>3, BlameMoves

\* The reason of a stop survives until the stop is recorded.
THEOREM ReasonsSurvive == StopSpec => []StopInv
  <1>1. StopInit => StopInv
    <2> SUFFICES ASSUME StopInit PROVE StopInv
      OBVIOUS
    <2>1. \A c \in Caller : pc[c] \in {"top", "idle"}
      BY DEF StopInit, Init
    <2>2. last.reason = "" /\ last.ecs = "" /\ cause = "none"
      BY BareType, BareReason DEF StopInit, Init
    <2> QED
      BY <2>1, <2>2, Callers
         DEF StopInv, ReasonKnown, StatusCarried, StopOwned, StartNotBlamed, InCheck
  <1>2. ASSUME CycleInv, StopInv, [StopNext]_<<vars, stopVars>> PROVE StopInv'
    <2>1. CASE StopNext
      BY <1>2, <2>1, StopNextIsNext, ReasonKnownStep, StatusCarriedStep, StopOwnedStep,
         StartNotBlamedStep DEF StopInv
    <2>2. CASE UNCHANGED <<vars, stopVars>>
      BY <1>2, <2>2 DEF StopInv, ReasonKnown, StatusCarried, StopOwned, StartNotBlamed,
                        Harmless, vars, stopVars, cloudVars, callVars
    <2> QED
      BY <1>2, <2>1, <2>2
  <1> QED
    BY <1>1, <1>2, CycleHolds, PTL DEF StopSpec

\* A stop the service asked for is never counted as an unexpected one, unless the very
\* check that asked for it ended with an error before its record.
THEOREM OwnStopsAreExpected == StopSpec => UnexpectedOnlyOutside
  <1>1. ASSUME CycleInv, StopTypeOK, StopInv, [StopNext]_<<vars, stopVars>>
        PROVE  [event' = "unexpected" => cause = "none"]_<<vars, stopVars>>
    <2>1. ASSUME NEW c \in Caller, RecordECSState(c), event' = "unexpected"
          PROVE  cause = "none"
      <3>1. /\ pc[c] = "record" /\ ~ServiceInitiated(job[c].reason)
            /\ Observed(ecs[Target], job[c].fallback) \in {"Stopped", "Stopping"}
            /\ ecsState.status \in Up
        BY <2>1 DEF RecordECSState, Record, EventOf, Up
      <3>2. job[c].reason \in Reason
        BY <1>1, <3>1 DEF CycleInv, TypeOK, Job, StopInv, ReasonKnown, InCheck
      <3>3. job[c].reason \in StartReason
        BY <3>1, <3>2 DEF ServiceInitiated, Reason
      <3>4. cause # "asked"
        <4>1. \A d \in Caller : pc[d] \in {"look", "request", "record"} => d = c
          BY <1>1, <3>1, Callers DEF CycleInv, Mutex, InCheck
        <4> QED
          BY <1>1, <3>3, <4>1 DEF StopInv, StopOwned
      <3>5. cause = "service" => Harmless(job[c].fallback)
        BY <1>1, <3>1, <3>3 DEF StopInv, StartNotBlamed
      <3>6. ~Harmless(job[c].fallback)
        BY <3>1 DEF Harmless, Observed
      <3> QED
        BY <1>1, <3>4, <3>5, <3>6 DEF StopTypeOK
    <2>2. CASE Elsewhere
      BY <2>2 DEF Elsewhere
    <2> QED
      BY <1>1, <2>1, <2>2 DEF StopNext
  <1> QED
    BY <1>1, CycleHolds, StopTypeCorrect, ReasonsSurvive, PTL
       DEF StopSpec, UnexpectedOnlyOutside

=============================================================================
