SPECIFICATION SafetySpec
CONSTANTS
    a = a
    sa = sa
    o1 = o1
    o2 = o2
    NoToken = NoToken
    Installation = Installation
    Op = {o1, o2}
    Plan <- MCPlan
    Package <- MCPackage
    Surface <- MCSurface
    SurfacePackage <- MCSurfacePackage
    RequiredSurface <- MCSurface
    Executable = {}
    Depends <- MCDepends
    Order <- MCOrder
    MaxRelease = 2
    Token <- MCToken
    MaxTime = 6
    MaxLease = 1
    MaxDeferral = 1
    MaxAttempt = 8
    Worker = {w1, w2}
    MaxIterations = 5
    MaxStreak = 1
    MaxCrashes = 1
    MaxDeferrals = 1
    MaxClock = 1
    Faulty = TRUE
INVARIANT Truthful
CHECK_DEADLOCK FALSE
SYMMETRY WorkerSymmetry
