SPECIFICATION MCSpec
CONSTANTS
    k = k
    export = export
    old = old
    new = new
    File <- MCFile
    Authority <- MCAuthority
    Content <- MCContent
    Absent = Absent
    Nothing = Nothing
    MaxHistory = 1
    MaxPlans = 2
    MaxBackups = 1
    MaxAttempts = 2
    MaxCrashes = 2
    TornWrites = TRUE
    ReplayCompleted = TRUE
    MaxDeaths = 2
    MaxWork = 1
INVARIANT RestoreRecoverable
INVARIANT RestoreWhole
 
PROPERTY CompleteRestoreEnds
CHECK_DEADLOCK FALSE
