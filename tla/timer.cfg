SPECIFICATION Spec
CONSTANTS
    Minute = 2
    Minutes = 4
    Schedules <- MCWeekend
    RunInterval = 5
    DefaultInterval = 7
    Poll = 3
    Delay = 1
    Spans = {0, 1}
    Loads = {TRUE, FALSE}
    Settling = {TRUE, FALSE}
    Starts = {49}
    Horizon = 62
INVARIANTS
    TypeOK
    DecisionIsCurrent
    NextStartIsFirst
    IntervalIsKept
PROPERTIES
    BoundaryIsChecked
