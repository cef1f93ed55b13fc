--------------------------- MODULE MCBoundaryTimer ---------------------------
(* Small calendars for TLC: days of four minutes, each of two ticks.       *)
EXTENDS BoundaryTimer

RuleOf(days, windows) == [weekdays |-> days, windows |-> windows]

\* The calendars of the run from a Saturday morning to a Sunday evening: no rules; a window
\* inside a day; windows that cross midnight and are open when the run begins, overlap,
\* run up to midnight, touch the next day's, or belong to a rule that is dropped.
MCWeekend ==
    {{}, {RuleOf({7}, {<<1, 3>>})},
     {RuleOf({5}, {<<3, 1>>}), RuleOf({6}, {<<2, 0>>}), RuleOf({6, 7}, {<<3, 4>>}),
      RuleOf({7}, {<<0, 1>>}), RuleOf({}, {<<0, 1>>})}}

\* A window across the midnight that ends Saturday.
MCSaturday == {{}, {RuleOf({6}, {<<3, 1>>})}}

\* The edges of one window, for a check that is slow.
MCSunday == {{}, {RuleOf({7}, {<<1, 3>>})}}
=============================================================================
