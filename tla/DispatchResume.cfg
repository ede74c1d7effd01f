SPECIFICATION FairDispatch
CONSTANTS
    a = a
    sa = sa
    o1 = o1
    o2 = o2
    NoToken = NoToken
    Installation = Installation
    Op = {o1}
    Plan <- MCInstall
    Package <- MCPackage
    Surface <- MCSurface
    SurfacePackage <- MCSurfacePackage
    RequiredSurface <- MCSurface
    Executable = {}
    Depends <- MCDepends
    Order <- MCOrder
    MaxRelease = 2
    Token <- MCToken
    MaxTime = 6
    MaxLease = 1
    MaxDeferral = 1
    MaxAttempt = 8
    Worker = {w1}
    MaxIterations = 6
    MaxStreak = 1
    MaxCrashes = 1
    MaxDeferrals = 0
    MaxClock = 1
    Faulty = FALSE
PROPERTY PendingTakenUp
CHECK_DEADLOCK FALSE
