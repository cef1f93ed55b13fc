SPECIFICATION Spec
CONSTANTS
    Day = 2
    Month = 3
    Window = 3
    Horizon = 14
    MaxRows = 3
    MaxMoves = 3
    Scenes <- MCScenes
INVARIANTS
    TypeOK
    DaysAddUp
    MonthSpentIsReal
    DaySpentIsRecent
    RowsAreBounded
    ShownIsNoOlder
PROPERTIES
    PruneInvisible
