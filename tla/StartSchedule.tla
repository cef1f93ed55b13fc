---------------------------- MODULE StartSchedule ----------------------------
(***************************************************************************)
(* The daily start schedules: which instants a set of rules covers, and    *)
(* the instants at which that changes, as the service computes them.       *)
(*                                                                         *)
(* An instant counts ticks from the midnight that begins a Sunday.  A      *)
(* "minute" of a window is Minute ticks long and a day has Minutes of      *)
(* them: in the program 60 and 1440, one tick being a second.  All days    *)
(* have the same length: changes to daylight saving time are left out.     *)
(***************************************************************************)
EXTENDS Integers, FiniteSetsExt

CONSTANTS
    Minute,  \* ticks in a minute
    Minutes  \* minutes in a day

ASSUME ClockAssumption == Minute \in Nat \ {0} /\ Minutes \in Nat \ {0}

Day == Minute * Minutes

\* The zero value of time.Time, or no instant at all.
Unset == -1

Rule == [weekdays : SUBSET (1..7),
         windows  : SUBSET {w \in (0..Minutes-1) \X (0..Minutes) : w[1] # w[2]}]

-----------------------------------------------------------------------------
(* The code.                                                               *)

\* A rule without a weekday or without a window is dropped.
ValidateStartSchedules(schedules) ==
    {r \in schedules : r.weekdays # {} /\ r.windows # {}}

\* time.Weekday of the day that begins at midnight: Sunday is 0.
Weekday(midnight) == (midnight \div Day) % 7

stopWeekdaySelected(weekdays, weekday) ==
    (IF weekday = 0 THEN 7 ELSE weekday) \in weekdays

\* The code asks for Monday; for Sunday the answer is the weekday -1.
previousWeekday(weekday) == IF weekday = 1 THEN 0 ELSE weekday - 1

\* A mutated form: the end of a window belongs to it.
withinStartSchedule_Closed(schedules, now) ==
    LET current == (now % Day) \div Minute
        today == Weekday(now)
    IN \E r \in schedules : \E w \in r.windows :
        \/ w[1] < w[2] /\ current \in w[1]..w[2] /\ stopWeekdaySelected(r.weekdays, today)
        \/ w[1] > w[2] /\ current >= w[1] /\ stopWeekdaySelected(r.weekdays, today)
        \/ w[1] > w[2] /\ current <= w[2]
                       /\ stopWeekdaySelected(r.weekdays, previousWeekday(today))

withinStartSchedule(schedules, now) ==
    LET current == (now % Day) \div Minute
        today == Weekday(now)
    IN \E r \in schedules : \E w \in r.windows :
        \/ w[1] < w[2] /\ current \in w[1]..(w[2] - 1)
                       /\ stopWeekdaySelected(r.weekdays, today)
        \/ w[1] > w[2] /\ current >= w[1] /\ stopWeekdaySelected(r.weekdays, today)
        \/ w[1] > w[2] /\ current < w[2]
                       /\ stopWeekdaySelected(r.weekdays, previousWeekday(today))

\* The windows of the days at the given offsets from today, with their day.
WindowsAt(offsets, schedules, now) ==
    LET midnights == {(now - (now % Day)) + o * Day : o \in offsets}
        selected == {p \in midnights \X ValidateStartSchedules(schedules) :
                        stopWeekdaySelected(p[2].weekdays, Weekday(p[1]))}
    IN UNION {{<<p[1], w>> : w \in p[2].windows} : p \in selected}

StartOf(d, w) == d + w[1] * Minute
EndOf(d, w) == (IF w[1] > w[2] THEN d + Day ELSE d) + w[2] * Minute

FirstAfter(instants, now) ==
    LET later == {t \in instants : t > now}
    IN IF later = {} THEN Unset ELSE Min(later)

\* A mutated form: a window that began yesterday is forgotten.
NextStartScheduleBoundary_Today(schedules, now) ==
    LET ws == WindowsAt(0..8, schedules, now)
    IN FirstAfter({StartOf(p[1], p[2]) : p \in ws} \cup {EndOf(p[1], p[2]) : p \in ws}, now)

NextStartScheduleBoundary(schedules, now) ==
    LET ws == WindowsAt(-1..8, schedules, now)
    IN FirstAfter({StartOf(p[1], p[2]) : p \in ws} \cup {EndOf(p[1], p[2]) : p \in ws}, now)

\* A mutated form: today's weekday is not looked at again a week later.
NextStartScheduleTime_SixDays(schedules, now) ==
    FirstAfter({StartOf(p[1], p[2]) : p \in WindowsAt(0..6, schedules, now)}, now)

NextStartScheduleTime(schedules, now) ==
    FirstAfter({StartOf(p[1], p[2]) : p \in WindowsAt(0..8, schedules, now)}, now)

-----------------------------------------------------------------------------
(* What README.md:215 promises of the rules: weekdays run from Monday, 1,  *)
(* to Sunday, 7, and a window that crosses midnight belongs to the day it  *)
(* begins on.  A window lasts from its start up to, not including, its end.*)

IsoWeekday(day) == ((day + 6) % 7) + 1
Length(w) == (IF w[1] < w[2] THEN w[2] - w[1] ELSE w[2] - w[1] + Minutes) * Minute

\* A window of some rule begins at the instant t.
Begins(schedules, w, t) ==
    \E r \in schedules :
        /\ w \in r.windows
        /\ IsoWeekday(t \div Day) \in r.weekdays
        /\ t % Day = w[1] * Minute

Windows(schedules) == UNION {r.windows : r \in schedules}

Covered(schedules, t) ==
    \E w \in Windows(schedules) :
        \E age \in 0..(Length(w) - 1) : Begins(schedules, w, t - age)

Edge(schedules, t) ==
    \E w \in Windows(schedules) :
        Begins(schedules, w, t) \/ Begins(schedules, w, t - Length(w))
=============================================================================
