SPECIFICATION Spec
CONSTANTS
    Minute = 2
    Minutes = 4
    Schedules <- MCSunday
    RunInterval = 5
    DefaultInterval = 7
    Poll = 3
    Delay = 1
    Spans = {0, 2}
    Loads = {TRUE}
    Settling = {FALSE}
    Starts = {56}
    Horizon = 66
INVARIANT
    EveryBoundaryIsChecked
