---------------------------- MODULE LegacySchedule ----------------------------
(***************************************************************************)
(* How the configuration turns the stop windows of older versions into     *)
(* start schedules (migrateStopSchedules).                                 *)
(***************************************************************************)
EXTENDS StartSchedule, SequencesExt

StopWindow == {w \in (0..Minutes-1) \X (0..Minutes-1) : w[1] # w[2]}

\* The intervals of one weekday in which the instance was to be stopped.
StopsOf(windows, weekdays, weekday) ==
    LET previous == IF weekday = 1 THEN 7 ELSE weekday - 1
        Today(w) == IF weekday \notin weekdays THEN {}
                    ELSE {<<w[1], IF w[1] < w[2] THEN w[2] ELSE Minutes>>}
        Night(w) == IF w[1] > w[2] /\ previous \in weekdays THEN {<<0, w[2]>>} ELSE {}
    IN UNION {Today(w) \cup Night(w) : w \in windows}

\* The intervals by their starts; which of two with the same start comes first
\* is open (sort.Slice).
InOrder(intervals) ==
    CHOOSE s \in SetToSeqs(intervals) : \A i, j \in DOMAIN s : i < j => s[i][1] <= s[j][1]

\* A mutated form: the end of the later interval counts, even an earlier one.
Merged_LastEnd(merged, i) ==
    IF i[1] >= i[2] THEN merged
    ELSE IF merged = <<>> \/ i[1] > Last(merged)[2] THEN Append(merged, i)
    ELSE Front(merged) \o <<(<<Last(merged)[1], i[2]>>)>>

\* One interval more, in the order of their starts.
Merged(merged, i) ==
    IF i[1] >= i[2] THEN merged
    ELSE IF merged = <<>> \/ i[1] > Last(merged)[2] THEN Append(merged, i)
    ELSE IF i[2] > Last(merged)[2]
         THEN Front(merged) \o <<(<<Last(merged)[1], i[2]>>)>>
         ELSE merged

mergeIntervals(intervals) ==
    IF Cardinality(intervals) < 2 THEN InOrder(intervals)
    ELSE FoldLeft(Merged, <<>>, InOrder(intervals))

\* A mutated form: a stop that begins where the last one ended leaves a window.
Before_Closed(from, stop) == {w \in {<<from, stop[1]>>} : from <= stop[1]}

Before(from, stop) == {w \in {<<from, stop[1]>>} : from < stop[1]}

\* One stop more: the window before it, and the end of what is stopped.
Complemented(acc, stop) ==
    [from |-> IF stop[2] > acc.from THEN stop[2] ELSE acc.from,
     windows |-> acc.windows \cup Before(acc.from, stop)]

complementWindows(stops) ==
    LET all == FoldLeft(Complemented, [from |-> 0, windows |-> {}], stops)
    IN all.windows \cup Before(all.from, <<Minutes, Minutes>>)

\* The weekdays with the same windows share a rule.
migrateStopSchedules(windows, weekdays) ==
    LET windowsForDay == [d \in 1..7 |->
                            complementWindows(mergeIntervals(StopsOf(windows, weekdays, d)))]
        rules == {[weekdays |-> {d \in 1..7 : windowsForDay[d] = ws}, windows |-> ws] :
                     ws \in {windowsForDay[d] : d \in 1..7}}
    IN {r \in rules : r.windows # {}}

-----------------------------------------------------------------------------
(* What README.md:216 promises: stop windows become start windows.  So the *)
(* rules cover exactly the instants the stop windows did not.              *)

IsComplement(windows, weekdays, rules) ==
    \A t \in 0..(7 * Day - 1) :
        Covered(rules, t) <=> ~Covered({[weekdays |-> weekdays, windows |-> windows]}, t)
=============================================================================
