SPECIFICATION Spec
CONSTANTS
    Freezes = 2
    Window = 4
    FreeDays = 2
    ProDaysMax = 5
    Tracks = {3, 6}
    Ahead = 1
    LastDay = 6
INVARIANT TypeOK
INVARIANT ShownIsTrue
PROPERTY NothingCostsADay
CHECK_DEADLOCK FALSE
