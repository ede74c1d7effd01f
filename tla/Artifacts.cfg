SPECIFICATION MCSpec
CONSTANTS
    Digest = {d1, d2}
    d1 = d1
    d2 = d2
    w1 = w1
    w2 = w2
    Damage = {x}
    Writer = {w1, w2}
    Quota <- MCQuota
    NoPlan = NoPlan
    NoQuota = NoQuota
    Size = 2
    MaxPlans = 2
    MaxStoreCrashes = 2
    MaxDamage = 1
    Corners = {"deep", "retried", "wide", "busy", "full"}
INVARIANTS
    ReferencedKept
    RepairsRecoverable
PROPERTIES
    ReviewedRetired
    QuotaHeld
    
CHECK_DEADLOCK FALSE
