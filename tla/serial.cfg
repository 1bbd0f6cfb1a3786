SPECIFICATION MCSpec
CONSTANTS
    u1 = u1
    r1 = r1
    r2 = r2
    Scenes = {"ledger", "subscriber"}
    None = None
    Users <- MCUsers
    Refs <- MCRefs
    Owner <- MCOwner
    Referred = {r1}
    Attempts = 1
    PassDays = 2
    Grace = 1
    Recheck = 1
    Period = 2
    MaxTime = 6
    Events = {"process", "renew", "hold", "stop", "end"}
    Reqs = {q1}
    Jobs = {"start", "settle", "catchup", "portal", "admin", "gift", "visit"}
    OnSale = {"monthly", "pass", "lifetime"}
    Omits = {"customer"}
    Outages = TRUE
    Deaths <- MostPoints
    Marks = {"refunded"}
PROPERTY RefundSaidOnFlip
PROPERTY KeepsLedger
PROPERTY PaidTimeKept
PROPERTY AskedAtMostHourly
