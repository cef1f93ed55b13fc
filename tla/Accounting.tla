------------------------------ MODULE Accounting ------------------------------
(***************************************************************************)
(* The figures the dashboard computes from samples: the traffic of today,  *)
(* what was spent in 24 hours and in the month, the stops of the last      *)
(* days.  Checks store the samples, a daily maintenance deletes old ones,  *)
(* the process may be down for any time.                                   *)
(*                                                                         *)
(* Instants are ticks since the midnight that begins a month; days and     *)
(* months all have the same length.  runMu makes the checks serial, and    *)
(* each statement of the store is one step: rows are inserted in the order *)
(* of their timestamps.                                                    *)
(***************************************************************************)
EXTENDS Integers, SequencesExt

CONSTANTS
    Day,      \* ticks in a day
    Month,    \* days in a month
    Window,   \* days for which stops are counted
    Horizon,  \* bound: the last instant
    MaxRows,  \* bound: rows in a table when one is added
    MaxMoves, \* bound: changes of the meters
    Scenes    \* what may happen: sets of Event

\* Meters move, instances stop, checks fail, the process ends or fails to prune,
\* requests come.
Event == {"traffic", "money", "stops", "errors", "crashes", "requests"}

ASSUME AccountingAssumption ==
    /\ {Day, Window, MaxRows} \subseteq Nat \ {0}
    /\ Month \in Nat /\ Month > 2
    /\ Horizon \in Nat /\ MaxMoves \in Nat
    /\ Scenes \subseteq SUBSET Event

VARIABLES
    now, scene, moves,
    traffic,  \* the cumulative CDT counter of the month
    balance,  \* the balance of the account
    up, nextPrune,  \* the process, and the ticker of dailyMaintenance
    check,    \* the check that holds runMu
    trafficSamples, balanceSamples, stopEvents, \* the tables
    lastResult, \* the timestamp of the row last_result
    dash,       \* a request to Dashboard
    \* history
    paid, refilled, \* since the last balance sample
    missed          \* a prune failed since the process started

vars == <<now, scene, moves, traffic, balance, up, nextPrune, check, trafficSamples,
          balanceSamples, stopEvents, lastResult, dash, paid, refilled, missed>>
tables == <<trafficSamples, balanceSamples, stopEvents, lastResult>>
meters == <<now, scene, moves, traffic, balance>>
ticker == <<up, nextPrune, missed>>

None == -1  \* no such row

-----------------------------------------------------------------------------
(* The calendar.                                                           *)

DayStart(t) == t - (t % Day)
MonthStart(t) == t - (t % (Month * Day))
PreviousMonthStart(t) == MonthStart(t) - Month * Day
DayOfMonth(t) == (t % (Month * Day)) \div Day + 1

-----------------------------------------------------------------------------
(* The figures.                                                            *)

\* The tables are ordered by time: the rows before an instant come first.
OlderThan(rows, t) == Cardinality({i \in DOMAIN rows : rows[i].t < t})
Before(rows, t) == SubSeq(rows, 1, OlderThan(rows, t))
Since(rows, t) == SubSeq(rows, OlderThan(rows, t) + 1, Len(rows))

AtLeastZero(n) == IF n < 0 THEN 0 ELSE n
Total(terms) == FoldLeft(LAMBDA sum, n : sum + n, 0, terms)

\* A mutated form: the month changes like any other day.
TodayTraffic_AnyDay(rows, at) ==
    LET today == Since(rows, DayStart(at))
        earlier == Before(rows, DayStart(at))
        baseline == IF earlier = <<>> THEN 0 ELSE Last(earlier).gb
    IN  IF today = <<>> THEN 0 ELSE AtLeastZero(Last(today).gb - baseline)

\* A mutated form: a month of falling readings is shown as it is.
TodayTraffic_Signed(rows, at) ==
    LET today == Since(rows, DayStart(at))
        earlier == Before(rows, DayStart(at))
        baseline == IF DayOfMonth(at) = 1 \/ earlier = <<>> THEN 0 ELSE Last(earlier).gb
    IN  IF today = <<>> THEN 0 ELSE Last(today).gb - baseline

\* The traffic of the day of an instant, as shown: the last reading less the last
\* one of the days before.  The counter restarts each month.
TodayTraffic(rows, at) ==
    LET today == Since(rows, DayStart(at))
        earlier == Before(rows, DayStart(at))
        baseline == IF DayOfMonth(at) = 1 \/ earlier = <<>> THEN 0 ELSE Last(earlier).gb
    IN  IF today = <<>> THEN 0 ELSE AtLeastZero(Last(today).gb - baseline)

\* A mutated form: rises of the balance offset what was spent.
spentSince_Net(rows, since) ==
    Total([i \in DOMAIN rows |-> IF i = 1 \/ rows[i].t < since THEN 0
                                 ELSE rows[i - 1].amount - rows[i].amount])

\* The falls of the balance between adjacent samples, since an instant.
spentSince(rows, since) ==
    Total([i \in DOMAIN rows |-> IF i = 1 \/ rows[i].t < since THEN 0
                                 ELSE AtLeastZero(rows[i - 1].amount - rows[i].amount)])

Distance(t, u) == IF t > u THEN t - u ELSE u - t

\* A mutated form: the oldest sample is the baseline.
Baseline_First(rows) == rows[1]

\* The sample nearest to a day before the last; the earliest of equals.
Baseline(rows) ==
    LET far(i) == Distance(rows[i].t, Last(rows).t - Day)
    IN  rows[CHOOSE i \in DOMAIN rows :
                \A j \in DOMAIN rows : far(i) < far(j) \/ (far(i) = far(j) /\ i <= j)]

Spent24(rows) ==
    IF rows = <<>> THEN 0 ELSE AtLeastZero(Baseline(rows).amount - Last(rows).amount)

StopCounts(events, at) ==
    [kind \in {"scheduled", "unexpected"} |->
        Cardinality({i \in DOMAIN events : /\ events[i].kind = kind
                                            /\ events[i].t >= at - Window * Day})]

-----------------------------------------------------------------------------
(* Time and the meters.  At most one tick passes inside a check or a       *)
(* request, none while a prune is due, and a meter moves with a tick.      *)

Idle == check.at = "idle"

Use == traffic' = traffic + 1 /\ UNCHANGED <<balance, paid, refilled>>
Spend == balance' = balance - 1 /\ paid' = paid + 1 /\ UNCHANGED <<traffic, refilled>>
Refill == balance' = balance + 2 /\ refilled' = refilled + 2 /\ UNCHANGED <<traffic, paid>>
NewMonth == traffic' = 0 /\ UNCHANGED <<balance, paid, refilled>>

Meters ==
    \/ /\ moves < MaxMoves /\ moves' = moves + 1
       /\ \/ "traffic" \in scene /\ Use
          \/ "money" \in scene /\ (Spend \/ Refill)
    \/ UNCHANGED <<moves, traffic, balance, paid, refilled>>

Tick ==
    /\ now < Horizon
    /\ up => nextPrune > now
    /\ Idle \/ check.t = now
    /\ dash.at = "idle" \/ dash.t = now
    /\ now' = now + 1
    /\ IF MonthStart(now') = now' THEN NewMonth /\ UNCHANGED moves ELSE Meters
    /\ UNCHANGED <<scene, check, dash, tables, ticker>>

-----------------------------------------------------------------------------
(* Checks.  A full check stamps its samples with the instant at which it   *)
(* took the mutex; a quick check only records the state of the instance.   *)
(* Bounds: at most one full check stores its balance in a tick, and the    *)
(* scene "stops" has quick checks only, which record in the same way.      *)

NoCheck == [at |-> "idle", t |-> 0, full |-> FALSE]
Goto(place) == check' = [check EXCEPT !.at = place]
InCheck(place) ==
    /\ check.at = place
    /\ UNCHANGED <<meters, ticker, dash>>

BeginCheck ==
    /\ up /\ Idle
    /\ \E full \in BOOLEAN :
          /\ full => /\ "stops" \notin scene /\ Len(balanceSamples) < MaxRows
                     /\ Since(balanceSamples, now) = <<>>
          /\ check' = [at |-> IF full THEN "balance" ELSE "record", t |-> now, full |-> full]
    /\ UNCHANGED <<meters, ticker, dash, tables, paid, refilled>>

\* A mutated form: a balance that did not change is not stored again.
AddBalance_IfChanged ==
    /\ InCheck("balance")
    /\ IF balanceSamples # <<>> /\ Last(balanceSamples).amount = balance
       THEN UNCHANGED <<balanceSamples, paid, refilled>>
       ELSE /\ balanceSamples' = Append(balanceSamples,
                    [t |-> check.t, amount |-> balance, paid |-> paid, refilled |-> refilled])
            /\ paid' = 0 /\ refilled' = 0
    /\ Goto("traffic")
    /\ UNCHANGED <<trafficSamples, stopEvents, lastResult>>

\* Service.RunOnce reads the balance and stores it.  An answer without an amount,
\* which the client takes for 0, is left out.
AddBalance ==
    /\ InCheck("balance")
    /\ balanceSamples' = Append(balanceSamples,
            [t |-> check.t, amount |-> balance, paid |-> paid, refilled |-> refilled])
    /\ paid' = 0 /\ refilled' = 0
    /\ Goto("traffic")
    /\ UNCHANGED <<trafficSamples, stopEvents, lastResult>>

AddTraffic ==
    /\ InCheck("traffic")
    /\ trafficSamples' = Append(trafficSamples, [t |-> check.t, gb |-> traffic])
    /\ Goto("record")
    /\ UNCHANGED <<balanceSamples, stopEvents, lastResult, paid, refilled>>

\* recordInstanceState notes the time before it asks the cloud, and SaveLastResult
\* follows; StopHistory says which stops are events.  A quick check keeps the
\* timestamp of the result it refreshes.
Record ==
    /\ InCheck("record")
    /\ \/ UNCHANGED stopEvents
       \/ /\ "stops" \in scene /\ Len(stopEvents) < MaxRows
          /\ \E kind \in {"scheduled", "unexpected"}, t \in check.t..now :
                stopEvents' = Append(stopEvents, [t |-> t, kind |-> kind])
    /\ lastResult' = IF check.full THEN check.t ELSE lastResult
    /\ check' = NoCheck
    /\ UNCHANGED <<trafficSamples, balanceSamples, paid, refilled>>

CheckFails ==
    /\ "errors" \in scene /\ ~Idle
    /\ check' = NoCheck
    /\ UNCHANGED <<meters, ticker, dash, tables, paid, refilled>>

-----------------------------------------------------------------------------
(* Maintenance, restarts.                                                  *)

NoRequest == [at |-> "idle", t |-> 0, result |-> None, updated |-> None]

\* A mutated form: the samples of the previous month go too.
Prune_ThisMonth ==
    /\ trafficSamples' = Since(trafficSamples, MonthStart(now))
    /\ balanceSamples' = Since(balanceSamples, MonthStart(now))
    /\ stopEvents' = Since(stopEvents, now - Window * Day)

\* A mutated form: a table is forgotten.
Prune_KeepsTraffic ==
    /\ balanceSamples' = Since(balanceSamples, PreviousMonthStart(now))
    /\ stopEvents' = Since(stopEvents, now - Window * Day)
    /\ UNCHANGED trafficSamples

Prune ==
    /\ trafficSamples' = Since(trafficSamples, PreviousMonthStart(now))
    /\ balanceSamples' = Since(balanceSamples, PreviousMonthStart(now))
    /\ stopEvents' = Since(stopEvents, now - Window * Day)

dailyMaintenance ==
    /\ up /\ nextPrune = now
    /\ nextPrune' = now + Day
    /\ \/ Prune /\ UNCHANGED missed
       \/ /\ "crashes" \in scene /\ missed' = TRUE
          /\ UNCHANGED <<trafficSamples, balanceSamples, stopEvents>>
    /\ UNCHANGED <<meters, up, check, dash, lastResult, paid, refilled>>

Crash ==
    /\ "crashes" \in scene /\ up
    /\ up' = FALSE /\ check' = NoCheck /\ dash' = NoRequest
    /\ UNCHANGED <<meters, nextPrune, missed, tables, paid, refilled>>

\* main: a process that cannot prune does not start.
Start ==
    /\ ~up
    /\ Prune
    /\ up' = TRUE /\ nextPrune' = now + Day /\ missed' = FALSE
    /\ UNCHANGED <<meters, check, dash, lastResult, paid, refilled>>

-----------------------------------------------------------------------------
(* Dashboard reads the row last_result, then the samples.                  *)

ReadResult ==
    /\ "requests" \in scene /\ up /\ dash.at = "idle"
    /\ dash' = [at |-> "samples", t |-> now, result |-> lastResult, updated |-> None]
    /\ UNCHANGED <<meters, ticker, check, tables, paid, refilled>>

ReadSamples ==
    /\ dash.at = "samples"
    /\ dash' = [dash EXCEPT !.at = "shown",
           !.updated = IF balanceSamples = <<>> THEN None ELSE Last(balanceSamples).t]
    /\ UNCHANGED <<meters, ticker, check, tables, paid, refilled>>

Answer ==
    /\ dash.at = "shown"
    /\ dash' = NoRequest
    /\ UNCHANGED <<meters, ticker, check, tables, paid, refilled>>

-----------------------------------------------------------------------------
Init ==
    /\ now = 0 /\ scene \in Scenes /\ moves = 0 /\ traffic = 0 /\ balance = 0
    /\ up = TRUE /\ nextPrune = Day /\ missed = FALSE
    /\ check = NoCheck /\ dash = NoRequest
    /\ trafficSamples = <<>> /\ balanceSamples = <<>> /\ stopEvents = <<>>
    /\ lastResult = None
    /\ paid = 0 /\ refilled = 0

Next ==
    \/ Tick
    \/ BeginCheck \/ AddBalance \/ AddTraffic \/ Record \/ CheckFails
    \/ dailyMaintenance \/ Crash \/ Start
    \/ ReadResult \/ ReadSamples \/ Answer

Spec == Init /\ [][Next]_vars

-----------------------------------------------------------------------------
(* Properties.                                                             *)

Kind == {"scheduled", "unexpected"}
InOrder(rows) == \A i, j \in DOMAIN rows : i < j => rows[i].t <= rows[j].t

\* Every variable has its type; the tables are ordered by time, as the queries
\* read them; no amount shown is negative (service.go:298, :311, :617).
TypeOK ==
    /\ now \in 0..Horizon /\ scene \in Scenes /\ moves \in 0..MaxMoves
    /\ traffic \in Nat /\ balance \in Int /\ paid \in Nat /\ refilled \in Nat
    /\ up \in BOOLEAN /\ missed \in BOOLEAN /\ nextPrune \in Nat
    /\ check \in [at : {"idle", "balance", "traffic", "record"},
                  t : 0..now, full : BOOLEAN]
    /\ trafficSamples \in Seq([t : 0..now, gb : Nat]) /\ InOrder(trafficSamples)
    /\ balanceSamples \in Seq([t : 0..now, amount : Int, paid : Nat, refilled : Nat])
    /\ InOrder(balanceSamples)
    /\ stopEvents \in Seq([t : 0..now, kind : Kind]) /\ InOrder(stopEvents)
    /\ lastResult \in {None} \cup (0..now)
    /\ dash \in [at : {"idle", "samples", "shown"}, t : 0..now,
                 result : {None} \cup (0..now), updated : {None} \cup (0..now)]
    /\ TodayTraffic(trafficSamples, now) \in Nat
    /\ spentSince(balanceSamples, MonthStart(now)) \in Nat
    /\ Spent24(balanceSamples) \in Nat

\* Traffic of the day, over gaps and the change of the month: what was shown at
\* the end of each day of the month so far, and is shown now, adds up to the last
\* reading of the month, if the first day of the month has one.
DaysAddUp ==
    LET month == Since(trafficSamples, MonthStart(now))
        day(d) == MonthStart(now) + (d - 1) * Day
        shown(d) == TodayTraffic(Before(trafficSamples, day(d) + Day), day(d))
    IN  month # <<>> /\ DayOfMonth(Head(month).t) = 1
            => Total([d \in 1..DayOfMonth(now) |-> shown(d)]) = Last(month).gb

\* What was really spent between the sample k and the last.
PaidAfter(k) == Total([i \in DOMAIN balanceSamples |->
                          IF i > k THEN balanceSamples[i].paid ELSE 0])
MaxOf(a, b) == IF a > b THEN a ELSE b

\* The amount spent in the month is never more than what was spent since the last
\* sample before the month, and is all of it if no refill came between two samples
\* with something spent (README.md:230).
MonthSpentIsReal ==
    LET base == MaxOf(Len(Before(balanceSamples, MonthStart(now))), 1)
        shown == spentSince(balanceSamples, MonthStart(now))
        mixed == \E i \in DOMAIN balanceSamples :
                    i > base /\ balanceSamples[i].paid > 0 /\ balanceSamples[i].refilled > 0
    IN  shown <= PaidAfter(base) /\ (~mixed => shown = PaidAfter(base))

\* Whatever gaps the samples have, the amount spent in 24 hours is never more than
\* what was spent since the last sample older than 48 hours.
DaySpentIsRecent ==
    balanceSamples # <<>> =>
        Spent24(balanceSamples)
            <= PaidAfter(MaxOf(Len(Before(balanceSamples, Last(balanceSamples).t - 2 * Day)), 1))

\* The tables are bounded: unless a prune failed, nothing is kept for more than a
\* day beyond its term while the process is up, whatever checks do meanwhile.
RowsAreBounded ==
    LET lastPrune == now - Day
        kept(rows, term) == \A i \in DOMAIN rows : rows[i].t >= term
    IN  up /\ ~missed =>
            /\ kept(trafficSamples, PreviousMonthStart(lastPrune))
            /\ kept(balanceSamples, PreviousMonthStart(lastPrune))
            /\ kept(stopEvents, lastPrune - Window * Day)

\* A dashboard read while checks run: the balance shown is at least as recent as
\* the result shown, unless both are older than what is kept.
ShownIsNoOlder ==
    dash.at = "shown" =>
        dash.updated >= dash.result \/ dash.result < PreviousMonthStart(now)

Figures == [today |-> TodayTraffic(trafficSamples, now),
            month |-> spentSince(balanceSamples, MonthStart(now)),
            day   |-> Spent24(balanceSamples)]

\* The rows the figures rest on: a reading of the month before, not of its first
\* two days.
Sampled(rows) ==
    \E i \in DOMAIN rows : /\ rows[i].t >= PreviousMonthStart(now) + 2 * Day
                           /\ rows[i].t < MonthStart(now)

\* Deleting old rows is invisible: no prune changes a count of stops, nor an amount
\* if the month before was sampled.
PruneInvisible ==
    [][(\/ dailyMaintenance \/ Start) =>
            /\ StopCounts(stopEvents', now) = StopCounts(stopEvents, now)
            /\ Sampled(trafficSamples) /\ Sampled(balanceSamples) => Figures' = Figures]_vars

=============================================================================
