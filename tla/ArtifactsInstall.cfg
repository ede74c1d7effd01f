SPECIFICATION MCSpec
CONSTANTS
    Digest = {d1, d2}
    d1 = d1
    d2 = d2
    w1 = w1
    w2 = w2
    Damage = {x}
    Writer = {w1, w2}
    Quota <- MCQuota
    NoPlan = NoPlan
    NoQuota = NoQuota
    Size = 2
    MaxPlans = 1
    MaxStoreCrashes = 0
    MaxDamage = 0
    Corners = {"deep"}
INVARIANT EveryReferenceKept
CHECK_DEADLOCK FALSE
