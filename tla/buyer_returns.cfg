SPECIFICATION MCFairSpec
CHECK_DEADLOCK FALSE
CONSTANTS
    u1 = u1
    r1 = r1
    r2 = r2
    Scenes = {"whole"}
    None = None
    Users <- MCUsers
    Refs <- MCOneRef
    Owner <- MCOwner
    Referred = {r1}
    Attempts = 1
    PassDays = 2
    Grace = 1
    Recheck = 1
    Period = 1
    MaxTime = 0
    Events = {"process"}
    Reqs = {q1}
    Jobs = {"start", "settle", "visit"}
    OnSale = {"pass"}
    Omits = {}
    Outages = TRUE
    Deaths = {}
    Marks = {}
PROPERTY PaymentBecomesPro
