SPECIFICATION MCSpec
CONSTANTS
    Workers = {w1, w2}
    Browsers = {1}
    Accounts = {ann}
    Nobody = nobody
    Rounds = {1, 2, 3}
    Lengths = {1}
    Heard = {0, 2}
    Most = 2
    Free = 2
    Pro = 3
    Kills = TRUE
    Cases = {TRUE, FALSE}
    Twice = {1}
    MaxMonth = 1
    MaxDevice = 2
    Timeout = 6
    Poll = 5
    Every = 2
    Slow = 1
    Drops = TRUE
    Patience = 40
    Horizon = 30
INVARIANTS
    ReportsTypeOK
    MonthIsCounted
    ToldIsKept
    PollIsBounded
SYMMETRY Alike
CHECK_DEADLOCK FALSE
