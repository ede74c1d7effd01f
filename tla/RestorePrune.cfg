SPECIFICATION MCSpec
CONSTANTS
    k = k
    export = export
    old = old
    new = new
    File <- MCFile
    Authority <- MCAuthority
    Content <- MCContent
    Absent = Absent
    Nothing = Nothing
    MaxHistory = 1
    MaxPlans = 2
    MaxBackups = 1
    MaxAttempts = 2
    MaxCrashes = 0
    TornWrites = FALSE
    ReplayCompleted = FALSE
    MaxDeaths = 0
    MaxWork = 0
PROPERTY Converges
CHECK_DEADLOCK FALSE
