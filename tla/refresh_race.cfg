SPECIFICATION MCSpec
CHECK_DEADLOCK FALSE
SYMMETRY Workers
CONSTANTS
    u1 = u1
    r1 = r1
    r2 = r2
    Scenes = {"renewals", "abroad", "passes"}
    None = None
    Users <- MCUsers
    Refs <- MCRefs
    Owner <- MCOwner
    Referred = {r1}
    Attempts = 1
    PassDays = 2
    Grace = 1
    Recheck = 1
    Period = 1
    MaxTime = 2
    Events = {"renew", "end"}
    Reqs = {q1, q2}
    Jobs = {"start", "settle", "catchup", "admin"}
    OnSale = {"monthly", "pass"}
    Omits = {"next", "sub"}
    Outages = TRUE
    Deaths = {}
    Marks = {"refunded"}
INVARIANT TypeOK
INVARIANT PaidIsBound
INVARIANT DatesPaidFor
INVARIANT PassesStack
