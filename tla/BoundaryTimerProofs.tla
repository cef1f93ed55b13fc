------------------------- MODULE BoundaryTimerProofs -------------------------
(***************************************************************************)
(* Proofs about the clock of Scheduler.Run, for any sets of rules, any     *)
(* interval and any delay.                                                 *)
(*                                                                         *)
(* IntervalInv says, at each point of the loop, how late the next regular  *)
(* check may be.  EdgeInv says what the loop knows of the edges of the     *)
(* windows ahead of the instant it planned at, and what it decided on.     *)
(***************************************************************************)
EXTENDS BoundaryTimer, StartScheduleProofs

-----------------------------------------------------------------------------
(* Types.                                                                  *)

\* No deadline is no instant.
LEMMA UnsetIsNone == Unset \notin Nat
  BY DEF Unset

LEMMA ClockTypes ==
    /\ RunInterval \in Nat \ {0} /\ DefaultInterval \in Nat \ {0} /\ Poll \in Nat \ {0}
    /\ Poll <= DefaultInterval
    /\ Delay \in Nat /\ Spans \subseteq Nat
    /\ Loads \subseteq BOOLEAN /\ Settling \subseteq BOOLEAN /\ Starts \subseteq Nat
    /\ LongestInterval \in Nat /\ RunInterval <= LongestInterval
    /\ DefaultInterval <= LongestInterval
    /\ \A s \in Schedules : s \in SUBSET Rule
  BY TimerAssumption, SchedulesAssumption DEF LongestInterval

\* The deadlines the loop computes are instants, and the timer is set to one.
LEMMA DeadlineTypes ==
    ASSUME TypeOK, NEW known \in BOOLEAN, NEW loaded \in BOOLEAN,
           NEW regular \in Instant, NEW boundary \in Instant
    PROVE  /\ NextRegular(known) \in Instant
           /\ NextBoundary(loaded) \in Instant
           /\ WakeAt(regular, boundary) \in Nat
  <1>1. NextRegular(known) \in Instant
    BY ClockTypes DEF NextRegular, TypeOK, Instant, Unset
  <1>2. NextBoundary(loaded) \in Instant
    <2>1. schedules \in SUBSET Rule /\ now \in Nat /\ Delay \in Nat
      BY ClockTypes DEF TypeOK
    <2>2. NextStartScheduleBoundary(schedules, now) \in Instant
      BY <2>1, NextBoundaryIsRight DEF Instant, Unset
    <2> QED
      BY <2>1, <2>2 DEF NextBoundary, Instant, Unset
  <1>3. WakeAt(regular, boundary) \in Nat
    BY ClockTypes DEF WakeAt, earlier, TypeOK, Instant, Unset
  <1> QED
    BY <1>1, <1>2, <1>3

LEMMA TypeInit == Init => TypeOK
  <1>1. Unset \in Instant /\ 0 \in Nat /\ Starts \subseteq Nat
    BY ClockTypes DEF Instant
  <1> QED
    BY <1>1, Zenon DEF Init, TypeOK

LEMMA TypeStep == TypeOK /\ [Next]_vars => TypeOK'
  <1> SUFFICES ASSUME TypeOK, [Next]_vars PROVE TypeOK'
    OBVIOUS
  <1> USE ClockTypes
  <1>1. CASE Top
    BY <1>1 DEF Top, TypeOK, Instant, Unset, world, tokens, locals, history
  <1>2. CASE Initialized
    BY <1>2 DEF Initialized, TypeOK, Instant, Unset, world, history
  <1>3. CASE RunOnce
    <2>1. /\ UNCHANGED <<configured, schedules, tokens, locals>> /\ pc' = "plan"
          /\ \E span \in Bounded : now' = now + span /\ Noted(runKind = "regular")
          /\ lastFull' \in {Unset, now} /\ transitioning' \in Settling \cup {FALSE}
          /\ decided' \in {decided, withinStartSchedule(schedules, now)} /\ planned' = planned
      BY <1>3 DEF RunOnce, FullCheck, FailedCheck
    <2>2. now' \in Nat /\ lastRegular' \in Nat
      BY <2>1 DEF Bounded, Noted, TypeOK
    <2>3. decided' \in BOOLEAN
      BY <2>1, Zenon DEF withinStartSchedule, TypeOK
    <2>4. lastFull' \in Instant /\ transitioning' \in BOOLEAN
      BY <2>1 DEF TypeOK, Instant
    <2> QED
      BY <2>1, <2>2, <2>3, <2>4 DEF TypeOK, tokens, locals
  <1>4. CASE RefreshECSStatus
    BY <1>4 DEF RefreshECSStatus, Noted, Bounded, TypeOK, Instant, Unset, tokens, locals
  <1>5. CASE Plan
    <2>1. nextRegular' \in Instant /\ nextBoundary' \in Instant
      BY <1>5, DeadlineTypes DEF Plan, Instant, Unset
    <2>2. wakeAt' \in Nat
      BY <1>5, <2>1, DeadlineTypes DEF Plan
    <2>3. planned' \in Instant
      BY <1>5 DEF Plan, TypeOK, Instant
    <2> QED
      BY <1>5, <2>1, <2>2, <2>3 DEF Plan, TypeOK, world, tokens
  <1>6. CASE Woken
    BY <1>6 DEF Woken, TypeOK, Instant, Unset, world, locals, history
  <1>7. CASE RunRequested
    BY <1>7 DEF RunRequested, TypeOK, Instant, Unset, world, history
  <1>8. CASE Timer
    BY <1>8 DEF Timer, TypeOK, Instant, Unset, world, tokens, locals, history
  <1>9. CASE initialize
    BY <1>9 DEF initialize, TypeOK, Instant, Unset, locals, history
  <1>10. CASE saveSettings
    BY <1>10 DEF saveSettings, TypeOK, Instant, Unset, locals, history
  <1>11. CASE runNowHandler
    BY <1>11 DEF runNowHandler, FullCheck, Noted, withinStartSchedule, TypeOK, Instant, Unset, locals
  <1>12. CASE Tick
    BY <1>12 DEF Tick, TypeOK, Instant, Unset, tokens, locals, history
  <1>13. CASE UNCHANGED vars
    BY <1>13 DEF vars, TypeOK, world, tokens, locals, history
  <1> QED
    BY <1>1, <1>2, <1>3, <1>4, <1>5, <1>6, <1>7, <1>8, <1>9, <1>10, <1>11, <1>12, <1>13
       DEF Next

\* Every variable of the loop's clock keeps its type, whatever the rules, intervals
\* and delays: the loop always sleeps until an instant, never for ever.
THEOREM TimerTypeCorrect == Spec => []TypeOK
  BY TypeInit, TypeStep, PTL DEF Spec

\* At every instant the console's next start is the first at which a window begins.
THEOREM ShownStartIsFirst == Spec => []NextStartIsFirst
  <1>1. TypeOK => NextStartIsFirst
    <2> SUFFICES ASSUME TypeOK PROVE NextStartIsFirst
      OBVIOUS
    <2> DEFINE starts == {t \in (now + 1)..(now + 8 * Day) :
                             \E w \in Windows(schedules) : Begins(schedules, w, t)}
    <2>1. schedules \in SUBSET Rule /\ now \in Nat
      BY ClockTypes DEF TypeOK
    <2>2. NextStartScheduleTime(schedules, now) = FirstAfter(starts, now)
      BY <2>1, NextStartIsRight
    <2>3. starts \in SUBSET Int /\ \A t \in starts : t > now /\ t <= now + 8 * Day
      BY <2>1, DayIsLong
    <2>4. LET next == NextStartScheduleTime(schedules, now)
          IN  \/ next = Unset /\ starts = {}
              \/ /\ next \in starts /\ next \in Nat /\ next > now
                 /\ \A t \in starts : next <= t
      BY <2>1, <2>2, <2>3, FirstAfterIs
    <2>5. \A t \in Int : t > now /\ t <= now + 8 * Day /\ t \notin starts
                          => ~ \E w \in Windows(schedules) : Begins(schedules, w, t)
      BY <2>1, DayIsLong
    <2> HIDE DEF starts
    <2> DEFINE next == NextStartScheduleTime(schedules, now)
    <2>6. CASE next = Unset /\ starts = {}
      <3>1. ~ \E w \in Windows(schedules), t \in (now + 1)..(now + 8 * Day) :
                Begins(schedules, w, t)
        BY <2>1, <2>5, <2>6, DayIsLong
      <3> QED
        BY <2>6, <3>1, Zenon DEF NextStartIsFirst
    <2>7. CASE next # Unset
      <3>1. next \in starts /\ next \in Nat /\ next > now /\ next <= now + 8 * Day
        BY <2>3, <2>4, <2>7
      <3>2. \E w \in Windows(schedules), t \in {next} : Begins(schedules, w, t)
        BY <3>1 DEF starts
      <3>3. \A t \in (now + 1)..(next - 1) : t \notin starts
        BY <2>1, <2>3, <2>4, <2>7, <3>1
      <3>4. ~ \E w \in Windows(schedules), t \in (now + 1)..(next - 1) :
                Begins(schedules, w, t)
        BY <2>1, <2>5, <3>1, <3>3, DayIsLong
      <3> QED
        BY <2>7, <3>1, <3>2, <3>4, Zenon DEF NextStartIsFirst
    <2> QED
      BY <2>4, <2>6, <2>7, UnsetIsNone
  <1> QED
    BY <1>1, TimerTypeCorrect, PTL

-----------------------------------------------------------------------------
(* The check interval.                                                     *)

\* Where the loop stands, how late the next regular check may be.
IntervalInv ==
    /\ lastRegular <= now
    /\ nextRegular # Unset => nextRegular <= lastRegular + LongestInterval
    /\ pc = "refresh" => runKind = "none"
    /\ pc = "plan" /\ runKind = "regular" => lastRegular = now
    /\ pc = "asleep" /\ ~wake =>
          IF transitioning THEN wakeAt <= now + Poll
          ELSE nextRegular # Unset => wakeAt <= lastRegular + LongestInterval

\* A check, and the refresh of a poll, move neither clock back.
LEMMA NotedLater ==
    ASSUME TypeOK, IntervalInv, now' \in Nat, now <= now', NEW regular \in BOOLEAN,
           Noted(regular)
    PROVE  /\ lastRegular <= lastRegular' /\ lastRegular' <= now'
           /\ lastRegular' \in Nat
           /\ regular \/ transitioning => lastRegular' = now'
  BY DEF TypeOK, IntervalInv, Noted

\* What the interval allows is still allowed when a later regular check is noted, and
\* so is a poll when the transition is noted to have ended.
LEMMA LaterAllows ==
    ASSUME TypeOK, IntervalInv, lastRegular' \in Nat, lastRegular <= lastRegular'
    PROVE  /\ nextRegular # Unset => nextRegular <= lastRegular' + LongestInterval
           /\ wakeAt <= lastRegular + LongestInterval
                 => wakeAt <= lastRegular' + LongestInterval
           /\ now = lastRegular' /\ wakeAt <= now + Poll
                 => wakeAt <= lastRegular' + LongestInterval
  <1>1. PICK later \in Nat : later = lastRegular'
    OBVIOUS
  <1>2. lastRegular <= later /\ (now = lastRegular' => now = later)
    BY <1>1
  <1>3. /\ now \in Nat /\ lastRegular \in Nat /\ nextRegular \in Int /\ wakeAt \in Nat
        /\ Poll \in Nat /\ LongestInterval \in Nat /\ Poll <= LongestInterval
    BY ClockTypes DEF TypeOK, Instant, Unset
  <1>4. /\ nextRegular # Unset => nextRegular <= later + LongestInterval
        /\ wakeAt <= lastRegular + LongestInterval => wakeAt <= later + LongestInterval
        /\ now = later /\ wakeAt <= now + Poll => wakeAt <= later + LongestInterval
    BY <1>2, <1>3 DEF IntervalInv
  <1> QED
    BY <1>1, <1>2, <1>4, Zenon

LEMMA IntervalStep == TypeOK /\ TypeOK' /\ IntervalInv /\ [Next]_vars => IntervalInv'
  <1> SUFFICES ASSUME TypeOK, TypeOK', IntervalInv, [Next]_vars PROVE IntervalInv'
    OBVIOUS
  <1>0. /\ now \in Nat /\ lastRegular \in Nat /\ nextRegular \in {-1} \cup Nat /\ wakeAt \in Nat
        /\ nextRegular \in Int /\ transitioning \in BOOLEAN /\ wake \in BOOLEAN
        /\ Poll \in Nat /\ LongestInterval \in Nat /\ Poll <= LongestInterval
        /\ RunInterval \in Nat /\ DefaultInterval \in Nat
        /\ RunInterval <= LongestInterval /\ DefaultInterval <= LongestInterval
    BY ClockTypes DEF TypeOK, Instant, Unset
  <1>1. CASE Top
    BY <1>0, <1>1 DEF Top, IntervalInv, world, tokens, locals, history
  <1>2. CASE Initialized
    BY <1>0, <1>2 DEF Initialized, IntervalInv, world, history
  <1>3. CASE RunOnce
    <2>1. PICK span \in Bounded :
             now' = now + span /\ Noted(runKind = "regular")
      BY <1>3 DEF RunOnce, FullCheck, FailedCheck
    <2>2. span \in Nat
      BY ClockTypes DEF Bounded
    <2>3. now' \in Nat /\ now <= now'
      BY <1>0, <2>1, <2>2
    <2>4. /\ lastRegular <= lastRegular' /\ lastRegular' <= now' /\ lastRegular' \in Nat
          /\ runKind = "regular" => lastRegular' = now'
      BY <2>1, <2>3, NotedLater
    <2>5. nextRegular' = nextRegular /\ runKind' = runKind /\ pc' = "plan"
      BY <1>3 DEF RunOnce, locals
    <2>6. nextRegular' # Unset => nextRegular' <= lastRegular' + LongestInterval
      BY <2>4, <2>5, LaterAllows, Zenon
    <2>7. (pc = "plan" /\ runKind = "regular" => lastRegular = now)'
      BY <2>4, <2>5
    <2> QED
      BY <2>4, <2>5, <2>6, <2>7 DEF IntervalInv
  <1>4. CASE RefreshECSStatus
    <2>1. PICK span \in Bounded : now' = now + span /\ Noted(FALSE)
      BY <1>4 DEF RefreshECSStatus
    <2>2. span \in Nat
      BY ClockTypes DEF Bounded
    <2>3. now' \in Nat /\ now <= now'
      BY <1>0, <2>1, <2>2
    <2>4. lastRegular <= lastRegular' /\ lastRegular' <= now' /\ lastRegular' \in Nat
      BY <2>1, <2>3, NotedLater
    <2>5. nextRegular' = nextRegular /\ runKind' = runKind /\ pc = "refresh" /\ pc' = "plan"
      BY <1>4 DEF RefreshECSStatus, locals
    <2>6. nextRegular' # Unset => nextRegular' <= lastRegular' + LongestInterval
      BY <2>4, <2>5, LaterAllows, Zenon
    <2>7. runKind' = "none"
      BY <2>5 DEF IntervalInv
    <2> QED
      BY <2>4, <2>5, <2>6, <2>7 DEF IntervalInv
  <1>5. CASE Plan
    <2>1. PICK known \in BOOLEAN : nextRegular' = NextRegular(known)
      BY <1>5, ClockTypes DEF Plan
    <2>2. /\ UNCHANGED <<now, transitioning, lastRegular, runKind>> /\ pc' = "asleep"
          /\ wakeAt' = WakeAt(nextRegular', nextBoundary')
      BY <1>5 DEF Plan, world, history
    <2>3. nextRegular' # Unset => nextRegular' <= lastRegular + LongestInterval
      BY <1>0, <1>5, <2>1 DEF NextRegular, Plan, IntervalInv
    <2>4. nextRegular' \in {-1} \cup Nat /\ nextBoundary' \in {-1} \cup Nat
      BY DEF TypeOK, Instant, Unset
    <2>5. IF transitioning THEN wakeAt' <= now + Poll
          ELSE nextRegular' # Unset => wakeAt' <= lastRegular + LongestInterval
      BY <1>0, <2>2, <2>3, <2>4 DEF WakeAt, earlier, Unset
    <2> QED
      BY <1>0, <2>2, <2>3, <2>5 DEF IntervalInv
  <1>6. CASE Woken
    BY <1>0, <1>6 DEF Woken, IntervalInv, world, locals, history
  <1>7. CASE RunRequested
    BY <1>0, <1>7 DEF RunRequested, IntervalInv, world, history
  <1>8. CASE Timer
    BY <1>0, <1>8 DEF Timer, IntervalInv, world, tokens, locals, history
  <1>9. CASE initialize
    BY <1>0, <1>9 DEF initialize, IntervalInv, locals, history
  <1>10. CASE saveSettings
    BY <1>0, <1>10 DEF saveSettings, IntervalInv, locals, history
  <1>11. CASE runNowHandler
    <2>1. PICK settling \in Settling :
             /\ now' = now + 0 /\ transitioning' = settling /\ Noted(FALSE)
             /\ wake' = (wake \/ settling)
      BY <1>11 DEF runNowHandler, FullCheck
    <2>2. now' = now /\ now' \in Nat /\ now <= now'
      BY <1>0, <2>1
    <2>3. /\ lastRegular <= lastRegular' /\ lastRegular' <= now' /\ lastRegular' \in Nat
          /\ transitioning => lastRegular' = now'
      BY <2>1, <2>2, NotedLater
    <2>4. /\ nextRegular' = nextRegular /\ wakeAt' = wakeAt
          /\ runKind' = runKind /\ pc' = pc
      BY <1>11 DEF runNowHandler, locals
    <2>5. ~wake' => ~transitioning' /\ ~wake
      BY <2>1
    <2>6. /\ nextRegular' # Unset => nextRegular' <= lastRegular' + LongestInterval
          /\ wakeAt <= lastRegular + LongestInterval
                => wakeAt' <= lastRegular' + LongestInterval
          /\ now = lastRegular' /\ wakeAt <= now + Poll
                => wakeAt' <= lastRegular' + LongestInterval
      BY <2>3, <2>4, LaterAllows, Zenon
    <2>7. pc' = "plan" /\ runKind' = "regular" => lastRegular' = now'
      BY <1>0, <2>2, <2>3, <2>4 DEF IntervalInv
    <2>8. pc' = "asleep" /\ ~wake' /\ nextRegular' # Unset
            => wakeAt' <= lastRegular' + LongestInterval
      BY <2>2, <2>3, <2>4, <2>5, <2>6 DEF IntervalInv
    <2> QED
      BY <2>2, <2>3, <2>4, <2>5, <2>6, <2>7, <2>8 DEF IntervalInv
  <1>12. CASE Tick
    BY <1>0, <1>12 DEF Tick, IntervalInv, tokens, locals, history
  <1>13. CASE UNCHANGED vars
    BY <1>13 DEF vars, IntervalInv, world, tokens, locals, history
  <1> QED
    BY <1>1, <1>2, <1>3, <1>4, <1>5, <1>6, <1>7, <1>8, <1>9, <1>10, <1>11, <1>12, <1>13
       DEF Next

\* However slow or failing checks are, and whatever checks at boundaries and by request
\* do: once a regular check has run, the loop that sleeps with no transition to poll has
\* set its timer no later than the longest of the two check intervals after the last
\* regular check, or after the transition it polled.
THEOREM IntervalKept == Spec => []IntervalIsKept
  <1>1. Init => IntervalInv
    BY ClockTypes DEF Init, IntervalInv, Unset
  <1>2. IntervalInv => IntervalIsKept
    BY DEF IntervalInv, IntervalIsKept, Idle
  <1> QED
    BY <1>1, <1>2, IntervalStep, TimerTypeCorrect, PTL DEF Spec

-----------------------------------------------------------------------------
(* The edges of the windows.                                               *)

\* The rules the loop planned for are those in force, and it knows the first edge after
\* the instant it planned at.
EdgesKnown ==
    /\ ~configured => pc \in {"top", "uninit"} /\ planned = Unset /\ lastFull = Unset
    /\ pc = "uninit" => planned = Unset
    /\ planned # Unset =>
          /\ planned <= now
          /\ \A t \in Int : t > planned /\ Edge(schedules, t)
                => nextBoundary # Unset /\ nextBoundary <= t + Delay

\* It sleeps no longer than to the boundary it knows.
SleepsToEdge ==
    pc = "asleep" =>
        /\ nextBoundary # Unset => wakeAt <= nextBoundary
        /\ planned # Unset => now <= wakeAt \/ now = planned

\* The last full check asked the rules in force, at the instant it began.
DecidedByRules ==
    lastFull # Unset =>
        lastFull <= now /\ decided = withinStartSchedule(schedules, lastFull)

EdgeInv == EdgesKnown /\ SleepsToEdge /\ DecidedByRules

\* The boundary the loop plans for: no edge to come is later than it by more than the
\* delay, and it lies ahead.
LEMMA PlannedBoundary ==
    ASSUME TypeOK
    PROVE  /\ NextBoundary(TRUE) # Unset => NextBoundary(TRUE) > now
           /\ \A t \in Int : t > now /\ Edge(schedules, t)
                 => NextBoundary(TRUE) # Unset /\ NextBoundary(TRUE) <= t + Delay
  <1> DEFINE b == NextStartScheduleBoundary(schedules, now)
  <1>1. schedules \in SUBSET Rule /\ now \in Nat /\ Delay \in Nat
    BY ClockTypes DEF TypeOK
  <1>2. \/ /\ b = Unset
           /\ \A t \in Int : t > now => ~Edge(schedules, t)
        \/ /\ b \in Nat /\ b > now
           /\ \A t \in Int : t > now /\ t < b => ~Edge(schedules, t)
    BY <1>1, NextBoundaryIsRight
  <1>3. NextBoundary(TRUE) = IF b # Unset THEN b + Delay ELSE Unset
    BY DEF NextBoundary
  <1> HIDE DEF b
  <1>4. CASE b = Unset
    <2>1. NextBoundary(TRUE) = Unset
      BY <1>3, <1>4, Zenon
    <2>2. \A t \in Int : t > now => ~Edge(schedules, t)
      BY <1>2, <1>4, UnsetIsNone
    <2> QED
      BY <2>1, <2>2
  <1>5. CASE b # Unset
    <2>1. b \in Nat /\ b > now /\ \A t \in Int : t > now /\ t < b => ~Edge(schedules, t)
      BY <1>2, <1>5
    <2>2. NextBoundary(TRUE) = b + Delay
      BY <1>3, <1>5
    <2>3. b + Delay \in Nat /\ b + Delay > now
      BY <1>1, <2>1
    <2>4. \A t \in Int : t > now /\ Edge(schedules, t) => b + Delay <= t + Delay
      BY <1>1, <2>1
    <2>5. b + Delay # Unset
      BY <2>3, UnsetIsNone
    <2> QED
      BY <2>2, <2>3, <2>4, <2>5, Zenon
  <1> QED
    BY <1>4, <1>5

LEMMA EdgesKnownStep ==
    ASSUME TypeOK, EdgesKnown, [Next]_vars PROVE EdgesKnown'
  <1> USE UnsetIsNone
  <1>0. now \in Nat /\ planned \in Instant /\ Spans \subseteq Nat /\ Loads \subseteq BOOLEAN
    BY ClockTypes DEF TypeOK
  <1>1. CASE Plan
    <2>1. /\ pc = "plan" /\ pc' = "asleep" /\ UNCHANGED <<now, configured, schedules, lastFull>>
      BY <1>1 DEF Plan, world
    <2>2. PICK loaded \in BOOLEAN :
             nextBoundary' = NextBoundary(loaded) /\ planned' = IF loaded THEN now ELSE Unset
      BY <1>0, <1>1 DEF Plan
    <2>3. configured
      BY <2>1 DEF EdgesKnown
    <2>4. CASE loaded
      <3>1. nextBoundary' = NextBoundary(TRUE) /\ planned' = now
        BY <2>2, <2>4
      <3>2. \A t \in Int : t > now /\ Edge(schedules, t)
                => NextBoundary(TRUE) # Unset /\ NextBoundary(TRUE) <= t + Delay
        BY PlannedBoundary
      <3>3. now <= now
        BY <1>0
      <3> QED
        BY <2>1, <2>3, <3>1, <3>2, <3>3, Zenon DEF EdgesKnown
    <2>5. CASE ~loaded
      BY <2>1, <2>2, <2>3, <2>5 DEF EdgesKnown
    <2> QED
      BY <2>4, <2>5
  <1>2. CASE Top
    <2>1. /\ UNCHANGED <<now, configured, schedules, planned, lastFull>>
          /\ nextBoundary' = nextBoundary
          /\ pc = "top" /\ pc' \in {"uninit", "run", "refresh", "plan"}
          /\ configured <=> pc' # "uninit"
      BY <1>2 DEF Top, world, locals, history
    <2> QED
      BY <2>1 DEF EdgesKnown
  <1>3. CASE Initialized
    <2>1. /\ UNCHANGED <<now, configured, schedules, planned, lastFull>>
          /\ pc = "uninit" /\ pc' = "top"
      BY <1>3 DEF Initialized, world, history
    <2> QED
      BY <2>1 DEF EdgesKnown
  <1>4. CASE RunOnce \/ RefreshECSStatus
    <2>1. /\ UNCHANGED <<configured, schedules, planned, nextBoundary>>
          /\ pc \in {"run", "refresh"} /\ pc' = "plan"
          /\ \E span \in Bounded : now' = now + span
      BY <1>4 DEF RunOnce, RefreshECSStatus, FullCheck, FailedCheck, locals
    <2>2. now' \in Nat /\ now <= now'
      BY <1>0, <2>1 DEF Bounded
    <2>3. planned # Unset => planned <= now'
      <3>1. planned \in Int
        BY <1>0 DEF Instant, Unset
      <3> QED
        BY <1>0, <2>2, <3>1 DEF EdgesKnown
    <2>4. configured
      BY <2>1 DEF EdgesKnown
    <2> QED
      BY <2>1, <2>3, <2>4, Zenon DEF EdgesKnown
  <1>5. CASE Woken \/ RunRequested \/ Timer
    <2>1. /\ UNCHANGED <<now, configured, schedules, planned, lastFull, nextBoundary>>
          /\ pc = "asleep" /\ pc' = "top"
      BY <1>5 DEF Woken, RunRequested, Timer, world, locals, history
    <2> QED
      BY <2>1 DEF EdgesKnown
  <1>6. CASE initialize
    <2>1. configured' = TRUE /\ UNCHANGED <<now, pc, planned, lastFull, nextBoundary>>
      BY <1>6 DEF initialize, locals, history
    <2>2. planned' = Unset
      BY <1>6, <2>1 DEF initialize, EdgesKnown
    <2> QED
      BY <2>1, <2>2 DEF EdgesKnown
  <1>7. CASE saveSettings
    BY <1>7 DEF saveSettings, EdgesKnown
  <1>8. CASE runNowHandler
    <2>1. /\ UNCHANGED <<configured, schedules, pc, planned, nextBoundary>>
          /\ configured /\ \E settling \in Settling : now' = now + 0
      BY <1>8 DEF runNowHandler, FullCheck, locals
    <2>2. now' = now
      BY <1>0, <2>1
    <2> QED
      BY <2>1, <2>2, Zenon DEF EdgesKnown
  <1>9. CASE Tick
    <2>1. now' = now + 1 /\ UNCHANGED <<configured, schedules, pc, planned, lastFull, nextBoundary>>
      BY <1>9 DEF Tick, locals, history
    <2>2. planned # Unset => planned <= now'
      <3>1. planned \in Int
        BY <1>0 DEF Instant, Unset
      <3> QED
        BY <1>0, <2>1, <3>1 DEF EdgesKnown
    <2> QED
      BY <2>1, <2>2, Zenon DEF EdgesKnown
  <1>10. CASE UNCHANGED vars
    <2>1. UNCHANGED <<now, configured, schedules, pc, planned, lastFull, nextBoundary>>
      BY <1>10 DEF vars, world, locals, history
    <2> QED
      BY <2>1, Zenon DEF EdgesKnown
  <1> QED
    BY <1>1, <1>2, <1>3, <1>4, <1>5, <1>6, <1>7, <1>8, <1>9, <1>10 DEF Next

LEMMA SleepsToEdgeStep ==
    ASSUME TypeOK, TypeOK', SleepsToEdge, [Next]_vars PROVE SleepsToEdge'
  <1>0. now \in Nat /\ wakeAt \in Nat
    BY DEF TypeOK
  <1>1. CASE Plan
    <2>1. /\ now' = now /\ planned' \in {now, Unset}
          /\ wakeAt' = WakeAt(nextRegular', nextBoundary')
      BY <1>1 DEF Plan, world
    <2>2. PICK r \in Int, b \in Int : r = nextRegular' /\ b = nextBoundary'
      BY DEF TypeOK, Instant, Unset
    <2>3. b # Unset => WakeAt(r, b) <= b
      BY <1>0, ClockTypes DEF WakeAt, earlier, Unset
    <2>4. nextBoundary' # Unset => wakeAt' <= nextBoundary'
      BY <2>1, <2>2, <2>3
    <2> QED
      BY <2>1, <2>4, Zenon DEF SleepsToEdge
  <1>2. CASE Top \/ Initialized \/ RunOnce \/ RefreshECSStatus \/ Woken \/ RunRequested \/ Timer
    <2>1. pc' # "asleep"
      BY <1>2 DEF Top, Initialized, RunOnce, RefreshECSStatus, Woken, RunRequested, Timer
    <2> QED
      BY <2>1 DEF SleepsToEdge
  <1>3. CASE saveSettings
    <2>1. planned' = Unset /\ UNCHANGED <<pc, nextBoundary, wakeAt>>
      BY <1>3 DEF saveSettings, locals
    <2> QED
      BY <2>1, Zenon DEF SleepsToEdge
  <1>4. CASE initialize \/ runNowHandler
    <2>1. UNCHANGED <<pc, nextBoundary, wakeAt, planned>>
      BY <1>4 DEF initialize, runNowHandler, FullCheck, locals, history
    <2>2. now' = now \/ \E settling \in Settling : now' = now + 0
      BY <1>4 DEF initialize, runNowHandler, FullCheck
    <2>3. now' = now
      BY <1>0, <2>2
    <2> QED
      BY <2>1, <2>3, Zenon DEF SleepsToEdge
  <1>5. CASE Tick
    <2>1. /\ now' = now + 1
          /\ pc = "asleep" => now < wakeAt
          /\ UNCHANGED <<pc, nextBoundary, wakeAt, planned>>
      BY <1>5 DEF Tick, locals, history
    <2>2. pc = "asleep" => now' <= wakeAt
      BY <1>0, <2>1
    <2> QED
      BY <2>1, <2>2, Zenon DEF SleepsToEdge
  <1>6. CASE UNCHANGED vars
    <2>1. UNCHANGED <<now, pc, nextBoundary, wakeAt, planned>>
      BY <1>6 DEF vars, world, locals, history
    <2> QED
      BY <2>1, Zenon DEF SleepsToEdge
  <1> QED
    BY <1>1, <1>2, <1>3, <1>4, <1>5, <1>6 DEF Next

LEMMA DecidedByRulesStep ==
    ASSUME TypeOK, EdgesKnown, DecidedByRules, [Next]_vars PROVE DecidedByRules'
  <1>0. now \in Nat /\ lastFull \in Int /\ Spans \subseteq Nat
    BY ClockTypes DEF TypeOK, Instant, Unset
  <1>1. CASE RunOnce \/ runNowHandler
    <2>1. /\ \E span \in Bounded \cup {0} : now' = now + span
          /\ UNCHANGED schedules
          /\ \/ lastFull' = now /\ decided' = withinStartSchedule(schedules, now)
             \/ lastFull' = Unset
      BY <1>1 DEF RunOnce, runNowHandler, FullCheck, FailedCheck
    <2>2. now <= now'
      BY <1>0, <2>1 DEF Bounded
    <2> QED
      BY <2>1, <2>2, Zenon DEF DecidedByRules
  <1>2. CASE RefreshECSStatus \/ Tick
    <2>1. /\ \E span \in Bounded \cup {1} : now' = now + span
          /\ UNCHANGED <<schedules, lastFull, decided>>
      BY <1>2 DEF RefreshECSStatus, Tick, history
    <2>2. lastFull <= now => lastFull <= now'
      BY <1>0, <2>1 DEF Bounded
    <2> QED
      BY <2>1, <2>2, Zenon DEF DecidedByRules
  <1>3. CASE saveSettings
    BY <1>3 DEF saveSettings, DecidedByRules
  <1>4. CASE initialize
    <2>1. lastFull' = Unset
      BY <1>4 DEF initialize, EdgesKnown, history
    <2> QED
      BY <2>1 DEF DecidedByRules
  <1>5. CASE Top \/ Initialized \/ Plan \/ Woken \/ RunRequested \/ Timer \/ UNCHANGED vars
    <2>1. UNCHANGED <<now, schedules, lastFull, decided>>
      BY <1>5 DEF Top, Initialized, Plan, Woken, RunRequested, Timer, vars, world, history
    <2> QED
      BY <2>1, Zenon DEF DecidedByRules
  <1> QED
    BY <1>1, <1>2, <1>3, <1>4, <1>5 DEF Next

LEMMA EdgesHold == Spec => [](TypeOK /\ EdgeInv)
  <1>1. Init => EdgeInv
    BY DEF Init, EdgeInv, EdgesKnown, SleepsToEdge, DecidedByRules
  <1>2. TypeOK /\ TypeOK' /\ EdgeInv /\ [Next]_vars => EdgeInv'
    BY EdgesKnownStep, SleepsToEdgeStep, DecidedByRulesStep DEF EdgeInv
  <1> QED
    BY <1>1, <1>2, TimerTypeCorrect, PTL DEF Spec

\* Whatever the rules, the interval, the delay and the checks are, and whenever the
\* rules change: the loop does not sleep past the execution delay of an edge it had
\* ahead when it planned, and when it wakes after that delay it runs a full check.
THEOREM BoundariesAreChecked == Spec => BoundaryIsChecked
  <1>1. ASSUME TypeOK, TypeOK', EdgeInv, Tick, pc = "asleep"
        PROVE  ~EdgeAhead(now' - Delay - 1)
    <2> SUFFICES ASSUME planned # Unset, NEW t \in (planned + 1)..(now' - Delay - 1),
                        Edge(schedules, t)
                 PROVE  FALSE
      BY DEF EdgeAhead
    <2>1. /\ now \in Nat /\ planned \in Int /\ nextBoundary \in Int /\ wakeAt \in Nat
          /\ Delay \in Nat
      BY <1>1, ClockTypes DEF TypeOK, Instant, Unset
    <2>2. now' = now + 1 /\ now < wakeAt
      BY <1>1 DEF Tick
    <2>3. t \in Int /\ t > planned /\ t + Delay < now'
      BY <2>1, <2>2
    <2>4. /\ nextBoundary # Unset /\ nextBoundary <= t + Delay
          /\ wakeAt <= nextBoundary
      BY <1>1, <2>3, Zenon DEF EdgeInv, EdgesKnown, SleepsToEdge
    <2> QED
      BY <2>1, <2>2, <2>3, <2>4
  <1>2. ASSUME TypeOK, EdgeInv, Top, EdgeAhead(now - Delay)
        PROVE  pc' = "run"
    <2>1. PICK t \in (planned + 1)..(now - Delay) : planned # Unset /\ Edge(schedules, t)
      BY <1>2 DEF EdgeAhead
    <2>2. now \in Nat /\ planned \in Int /\ nextBoundary \in Int /\ Delay \in Nat
      BY <1>2, ClockTypes DEF TypeOK, Instant, Unset
    <2>3. t \in Int /\ t > planned /\ t + Delay <= now
      BY <2>1, <2>2
    <2>4. configured /\ nextBoundary # Unset /\ nextBoundary <= t + Delay
      BY <1>2, <2>1, <2>3, Zenon DEF EdgeInv, EdgesKnown
    <2>5. now >= nextBoundary
      BY <2>2, <2>3, <2>4
    <2> QED
      BY <1>2, <2>4, <2>5 DEF Top
  <1>3. TypeOK /\ TypeOK' /\ EdgeInv /\ [Next]_vars =>
           [/\ Tick /\ pc = "asleep" => ~EdgeAhead(now' - Delay - 1)
            /\ Top /\ EdgeAhead(now - Delay) => pc' = "run"]_vars
    BY <1>1, <1>2
  <1> QED
    BY <1>3, EdgesHold, PTL DEF Spec, BoundaryIsChecked

\* While the loop sleeps, what the last full check decided on is what the rules say at
\* this instant, but for the edges that came before the loop planned and within the
\* delay after an edge: if no window that begins on a Saturday lasts beyond midnight.
THEOREM DecisionStaysCurrent ==
    (\A s \in Schedules : NoSaturdayNight(s)) /\ Spec => []DecisionIsCurrent
  <1> SUFFICES ASSUME \A s \in Schedules : NoSaturdayNight(s)
               PROVE  Spec => []DecisionIsCurrent
    OBVIOUS
  <1>1. TypeOK /\ EdgeInv => DecisionIsCurrent
    <2> SUFFICES ASSUME TypeOK, EdgeInv, Idle, lastFull # Unset, planned # Unset PROVE
               \/ decided = Covered(schedules, now)
               \/ \E t \in ((lastFull + 1)..planned) \cup ((now - Delay)..now) :
                     Edge(schedules, t)
      BY DEF DecisionIsCurrent
    <2>1. /\ now \in Nat /\ lastFull \in Int /\ planned \in Int
          /\ nextBoundary \in Int /\ wakeAt \in Nat /\ Delay \in Nat /\ lastFull <= now
      <3>1. lastFull <= now
        BY DEF EdgeInv, DecidedByRules
      <3> QED
        BY <3>1, ClockTypes DEF TypeOK, Instant, Unset
    <2>0. schedules \in SUBSET Rule /\ NoSaturdayNight(schedules)
      BY ClockTypes DEF TypeOK
    <2>2. decided = withinStartSchedule(schedules, lastFull)
      BY DEF EdgeInv, DecidedByRules
    <2>3. withinStartSchedule(schedules, lastFull) <=> Covered(schedules, lastFull)
      BY <2>0, <2>1, WithinIsCovered
    <2>4. decided = Covered(schedules, lastFull)
      BY <2>2, <2>3, Zenon DEF withinStartSchedule, Covered
    <2>5. CASE Covered(schedules, lastFull) <=> Covered(schedules, now)
      BY <2>4, <2>5, Zenon DEF Covered
    <2>6. CASE ~(Covered(schedules, lastFull) <=> Covered(schedules, now))
      <3>1. lastFull < now
        BY <2>1, <2>6
      <3>2. PICK e \in (lastFull + 1)..now : Edge(schedules, e)
        BY <2>0, <2>1, <2>6, <3>1, CoveredChangesAtEdges
      <3>3. e \in Int /\ e > lastFull /\ e <= now
        BY <2>1
      <3>4. CASE e <= planned
        BY <2>1, <3>2, <3>3, <3>4
      <3>5. CASE e > planned
        <4>1. /\ nextBoundary # Unset /\ nextBoundary <= e + Delay
              /\ wakeAt <= nextBoundary /\ (now <= wakeAt \/ now = planned)
          BY <3>2, <3>3, <3>5, Zenon DEF EdgeInv, EdgesKnown, SleepsToEdge, Idle
        <4>2. e \in (now - Delay)..now
          BY <2>1, <3>3, <3>5, <4>1
        <4> QED
          BY <3>2, <4>2
      <3> QED
        BY <2>1, <3>3, <3>4, <3>5
    <2> QED
      BY <2>5, <2>6
  <1> QED
    BY <1>1, EdgesHold, PTL
=============================================================================
