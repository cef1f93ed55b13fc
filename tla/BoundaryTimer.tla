---------------------------- MODULE BoundaryTimer ----------------------------
(***************************************************************************)
(* The clock of Scheduler.Run: when the loop sleeps, until when, and which *)
(* kind of check it runs when it wakes.  The module CheckCycle models what *)
(* a check does; here a check takes some ticks, may fail, and may leave    *)
(* the instance in transition.                                             *)
(*                                                                         *)
(* The loop is prompt: the clock advances while the loop sleeps and while  *)
(* a check runs, and never past the instant the timer is set to or past a  *)
(* token in a channel.                                                     *)
(***************************************************************************)
EXTENDS StartSchedule

CONSTANTS
    Schedules,       \* the sets of rules the owner chooses from
    RunInterval,     \* cfg.RunIntervalSeconds
    DefaultInterval, \* the interval when the configuration cannot be read
    Poll,            \* TransitionPollInterval
    Delay,           \* boundaryExecutionDelay
    Spans,           \* how long a check may take
    Loads,           \* {TRUE}, or BOOLEAN when reading the configuration may fail
    Settling,        \* {FALSE}, or BOOLEAN when a check may leave a transition
    Starts,          \* when the process may start
    Horizon          \* the bound on the clock

ASSUME TimerAssumption ==
    /\ {RunInterval, DefaultInterval, Poll} \subseteq Nat \ {0}
    /\ Poll <= DefaultInterval
    /\ Delay \in Nat /\ Spans \subseteq Nat /\ Starts \subseteq Nat /\ Horizon \in Nat
    /\ Loads \subseteq BOOLEAN /\ Settling \subseteq BOOLEAN
ASSUME SchedulesAssumption == \A s \in Schedules : s \subseteq Rule

VARIABLES
    now,          \* the clock
    configured,   \* config.Exists()
    schedules,    \* cfg.DailyStartSchedules
    transitioning,\* Service.IsTransitioning()
    wake, runNow, \* a token is in the channel
    pc, forceRun, runKind, nextRegular, nextBoundary, wakeAt, \* of Scheduler.Run; the
                  \* empty runKind is "none"
    \* history
    lastFull,     \* the instant the last full check looked at, Unset if it failed or
                  \* looked at rules that have been replaced since
    decided,      \* what it was told about the schedules
    planned,      \* the instant the loop last planned for the rules in force, Unset if
                  \* it could not read them or they have been replaced since
    lastRegular   \* the last instant a regular check ended or a transition was known

world == <<now, configured, schedules>>
tokens == <<wake, runNow>>
locals == <<forceRun, runKind, nextRegular, nextBoundary, wakeAt>>
history == <<lastFull, decided, planned, lastRegular>>
vars == <<world, transitioning, tokens, pc, locals, history>>

-----------------------------------------------------------------------------
(* The deadlines and the loop.                                             *)

\* The zero time stands for no deadline.
earlier(left, right) == IF left = Unset \/ right < left THEN right ELSE left

\* A mutated form: a transition is polled before a boundary is looked at.
Top_PollFirst ==
    /\ pc = "top"
    /\ IF ~configured
       THEN /\ pc' = "uninit" /\ transitioning' = FALSE
            /\ UNCHANGED locals
       ELSE LET boundaryDue == nextBoundary # Unset /\ now >= nextBoundary
                regularDue == forceRun \/ nextRegular = Unset \/ now >= nextRegular
            IN /\ runKind' = IF regularDue /\ ~transitioning THEN "regular"
                             ELSE IF boundaryDue /\ ~transitioning THEN "boundary" ELSE "none"
               /\ pc' = IF runKind' # "none" THEN "run"
                        ELSE IF transitioning THEN "refresh" ELSE "plan"
               /\ UNCHANGED <<transitioning, forceRun, nextRegular, nextBoundary, wakeAt>>
    /\ UNCHANGED <<world, tokens, history>>

Top ==
    /\ pc = "top"
    /\ IF ~configured
       THEN /\ pc' = "uninit" /\ transitioning' = FALSE
            /\ UNCHANGED locals
       ELSE LET boundaryDue == nextBoundary # Unset /\ now >= nextBoundary
                regularDue == forceRun \/ nextRegular = Unset \/ now >= nextRegular
            IN /\ runKind' = IF regularDue /\ ~transitioning THEN "regular"
                             ELSE IF boundaryDue THEN "boundary" ELSE "none"
               /\ pc' = IF runKind' # "none" THEN "run"
                        ELSE IF transitioning THEN "refresh" ELSE "plan"
               /\ UNCHANGED <<transitioning, forceRun, nextRegular, nextBoundary, wakeAt>>
    /\ UNCHANGED <<world, tokens, history>>

Initialized ==
    /\ pc = "uninit" /\ wake
    /\ wake' = FALSE /\ pc' = "top"
    /\ nextRegular' = Unset /\ nextBoundary' = Unset
    /\ UNCHANGED <<world, transitioning, runNow, forceRun, runKind, wakeAt, history>>

Bounded == {span \in Spans : now + span <= Horizon}

Noted(regular) == lastRegular' = IF regular \/ transitioning THEN now' ELSE lastRegular

\* A full check looks at the clock when it begins and ends span ticks later.
FullCheck(span, settling, regular) ==
    /\ now' = now + span
    /\ lastFull' = now
    /\ decided' = withinStartSchedule(schedules, now)
    /\ transitioning' = settling
    /\ Noted(regular)
    /\ UNCHANGED planned

\* SetFailure forgets that the instance was in transition.
FailedCheck(span, regular) ==
    /\ now' = now + span
    /\ transitioning' = FALSE
    /\ Noted(regular)
    /\ lastFull' = Unset
    /\ UNCHANGED <<decided, planned>>

RunOnce ==
    /\ pc = "run" /\ pc' = "plan"
    /\ \E span \in Bounded :
          \/ \E settling \in Settling : FullCheck(span, settling, runKind = "regular")
          \/ FALSE \in Loads /\ FailedCheck(span, runKind = "regular")
    /\ UNCHANGED <<configured, schedules, tokens, locals>>

RefreshECSStatus ==
    /\ pc = "refresh" /\ pc' = "plan"
    /\ \E span \in Bounded, ok \in Loads, settling \in Settling :
          /\ now' = now + span
          /\ transitioning' = (ok /\ settling)
          /\ Noted(FALSE)
    /\ UNCHANGED <<configured, schedules, tokens, locals, lastFull, decided, planned>>

\* A mutated form: a boundary check puts the regular check off.
NextRegular_Boundary(loaded) ==
    IF runKind # "none" THEN now + (IF loaded THEN RunInterval ELSE DefaultInterval)
    ELSE nextRegular

NextRegular(loaded) ==
    IF runKind = "regular" THEN now + (IF loaded THEN RunInterval ELSE DefaultInterval)
    ELSE nextRegular

NextBoundary(loaded) ==
    IF loaded /\ NextStartScheduleBoundary(schedules, now) # Unset
    THEN NextStartScheduleBoundary(schedules, now) + Delay
    ELSE Unset

\* A mutated form: with no deadline at all the loop waits for the zero time.
WakeAt_NoFallback(regular, boundary) ==
    IF transitioning THEN earlier(boundary, now + Poll)
    ELSE IF regular # Unset THEN earlier(boundary, regular) ELSE boundary

WakeAt(regular, boundary) ==
    LET first == IF transitioning THEN earlier(boundary, now + Poll)
                 ELSE IF regular # Unset THEN earlier(boundary, regular)
                 ELSE boundary
    IN IF first = Unset THEN now + DefaultInterval ELSE first

Plan ==
    /\ pc = "plan" /\ pc' = "asleep"
    /\ \E known \in Loads, loaded \in Loads :
          /\ nextRegular' = NextRegular(known)
          /\ nextBoundary' = NextBoundary(loaded)
          /\ planned' = IF loaded THEN now ELSE Unset
    /\ forceRun' = (forceRun /\ runKind # "regular")
    /\ wakeAt' = WakeAt(nextRegular', nextBoundary')
    /\ UNCHANGED <<world, transitioning, tokens, runKind, lastFull, decided, lastRegular>>

Woken ==
    /\ pc = "asleep" /\ wake
    /\ wake' = FALSE /\ pc' = "top"
    /\ UNCHANGED <<world, transitioning, runNow, locals, history>>

RunRequested ==
    /\ pc = "asleep" /\ runNow
    /\ runNow' = FALSE /\ forceRun' = TRUE /\ pc' = "top"
    /\ UNCHANGED <<world, transitioning, wake, runKind, nextRegular, nextBoundary, wakeAt,
                   history>>

Timer ==
    /\ pc = "asleep" /\ now >= wakeAt
    /\ pc' = "top"
    /\ UNCHANGED <<world, transitioning, tokens, locals, history>>

Loop == \/ Top \/ Initialized \/ RunOnce \/ RefreshECSStatus \/ Plan
        \/ Woken \/ RunRequested \/ Timer

-----------------------------------------------------------------------------
(* The handlers, each seen as one step between two steps of the loop.      *)

initialize ==
    /\ ~configured
    /\ configured' = TRUE /\ wake' = TRUE
    /\ schedules' \in Schedules
    /\ UNCHANGED <<now, transitioning, runNow, pc, locals, history>>

saveSettings ==
    /\ configured
    /\ schedules' \in Schedules /\ runNow' = TRUE
    /\ lastFull' = Unset /\ planned' = Unset
    /\ UNCHANGED <<now, configured, transitioning, wake, pc, locals, decided, lastRegular>>

\* POST /api/run: a full check of the handler's own.
runNowHandler ==
    /\ configured
    /\ \E settling \in Settling : FullCheck(0, settling, FALSE) /\ wake' = (wake \/ settling)
    /\ UNCHANGED <<configured, schedules, runNow, pc, locals>>

Tick ==
    /\ pc \in {"asleep", "uninit"} /\ ~wake
    /\ pc = "asleep" => ~runNow /\ now < wakeAt
    /\ now < Horizon
    /\ now' = now + 1
    /\ UNCHANGED <<configured, schedules, transitioning, tokens, pc, locals, history>>

Init ==
    /\ now \in Starts
    /\ configured \in BOOLEAN /\ schedules \in Schedules
    /\ transitioning = FALSE /\ wake = FALSE /\ runNow = FALSE
    /\ pc = "top" /\ forceRun = FALSE /\ runKind = "none"
    /\ nextRegular = Unset /\ nextBoundary = Unset /\ wakeAt = 0
    /\ lastFull = Unset /\ decided = FALSE /\ planned = Unset /\ lastRegular = now

Next == \/ Top \/ Initialized \/ RunOnce \/ RefreshECSStatus \/ Plan
        \/ Woken \/ RunRequested \/ Timer
        \/ initialize \/ saveSettings \/ runNowHandler \/ Tick

Spec == Init /\ [][Next]_vars

-----------------------------------------------------------------------------
(* Every variable keeps its type.  Unset is the only negative instant.     *)
Instant == {Unset} \cup Nat

TypeOK ==
    /\ now \in Nat /\ configured \in BOOLEAN /\ schedules \in Schedules
    /\ transitioning \in BOOLEAN /\ wake \in BOOLEAN /\ runNow \in BOOLEAN
    /\ pc \in {"top", "uninit", "run", "refresh", "plan", "asleep"}
    /\ forceRun \in BOOLEAN /\ runKind \in {"none", "regular", "boundary"}
    /\ nextRegular \in Instant /\ nextBoundary \in Instant /\ wakeAt \in Nat
    /\ lastFull \in Instant /\ decided \in BOOLEAN
    /\ planned \in Instant /\ lastRegular \in Nat

\* The loop sleeps and nothing has asked it to check at once.
Idle == pc = "asleep" /\ ~runNow /\ ~wake

\* Edges of the rules that lay ahead when the loop planned.
EdgeAhead(until) == planned # Unset /\ \E t \in (planned + 1)..until : Edge(schedules, t)

\* A start or end of a window that lies ahead when the loop plans wakes it before the
\* execution delay is over, however many deadlines compete, and the loop that wakes
\* when the delay is over runs a full check, in a transition too: "到达每日开机时段的
\* 开始或结束时间时，会额外立即执行一次完整检查" (README.md:232).
BoundaryIsChecked ==
    [][/\ Tick /\ pc = "asleep" => ~EdgeAhead(now' - Delay - 1)
       /\ Top /\ EdgeAhead(now - Delay) => pc' = "run"]_vars

\* While the loop sleeps, the answer its last full check had from withinStartSchedule
\* is the one the rules give for the present instant (README.md:44, 215), unless an
\* edge came between that check and the last planning of the loop, which looks only
\* ahead, or the execution delay of an edge is not over.
DecisionIsCurrent ==
    Idle /\ lastFull # Unset /\ planned # Unset =>
        \/ decided = Covered(schedules, now)
        \/ \E t \in ((lastFull + 1)..planned) \cup ((now - Delay)..now) :
              Edge(schedules, t)

\* Once a regular check has run, the loop never sets its timer to later than the
\* check interval after the last one, or after the end of the transition it polled:
\* the checks made at a boundary or by POST /api/run do not put the next regular
\* check off (README.md:232).
LongestInterval == IF RunInterval < DefaultInterval THEN DefaultInterval ELSE RunInterval

IntervalIsKept ==
    Idle /\ ~transitioning /\ nextRegular # Unset => wakeAt <= lastRegular + LongestInterval

\* What the console shows as the next scheduled start is the first instant
\* ahead at which a window begins, or nothing when no window ever begins.
NextStartIsFirst ==
    LET next == NextStartScheduleTime(schedules, now)
        Opens(instants) ==
            \E w \in Windows(schedules), t \in instants : Begins(schedules, w, t)
    IN IF next = Unset THEN ~Opens((now + 1)..(now + 8 * Day))
       ELSE next > now /\ Opens({next}) /\ ~Opens((now + 1)..(next - 1))

-----------------------------------------------------------------------------
(* What a document says and the code does not do.                          *)

\* README.md:232 without the exceptions above: the loop does not sleep while an edge
\* whose delay is over has had no full check.
EveryBoundaryIsChecked ==
    Idle /\ lastFull # Unset =>
        \A t \in (lastFull + 1)..(now - Delay - 1) : ~Edge(schedules, t)
=============================================================================
