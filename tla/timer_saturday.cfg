SPECIFICATION Spec
CONSTANTS
    Minute = 2
    Minutes = 4
    Schedules <- MCSaturday
    RunInterval = 5
    DefaultInterval = 7
    Poll = 3
    Delay = 1
    Spans = {0}
    Loads = {TRUE}
    Settling = {FALSE}
    Starts = {48}
    Horizon = 63
INVARIANT
    DecisionIsCurrent
