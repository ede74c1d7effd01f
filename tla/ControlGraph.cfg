SPECIFICATION MCSpec
CONSTANTS
    a = a
    b = b
    sa = sa
    sb = sb
    NoToken = NoToken
    Installation = Installation
    Op = {o1, o2, o3}
    Plan <- MCPlan
    Package <- MCPackage
    Surface <- MCSurface
    SurfacePackage <- MCSurfacePackage
    RequiredSurface = {sa}
    Executable = {sb}
    Depends <- MCDepends
    Order <- MCOrder
    MaxRelease = 2
    Token <- MCToken
    MaxTime = 1
    MaxLease = 1
    MaxDeferral = 1
    MaxAttempt = 1
SYMMETRY OpSymmetry
CHECK_DEADLOCK FALSE
INVARIANTS
    Consistent
    ClaimedCutoverCanPublish
    PublishedSurfacesPrepared
    IncarnationsNeverReused
    SoundWithoutRejection
PROPERTY
    ImplementsLedger
