CONSTANTS
    app = app
    lib = lib
    tool = tool
    view = view
    extra = extra
    Package = {app, lib, tool}
    MaxGeneration = 2
    MaxPending = 2
    Needs <- MCNeeds
    Op = {1, 2}
    Call = {c1}
    Changes <- MCChanges
    InstallOrder <- MCInstallOrder
    Surfaces <- MCSurfaces
    Optional = {extra}
    MaxOpen = 1
    MaxCrashes = 1
    MaxFaults = 2
    TornRemovals = FALSE
SPECIFICATION FairSpec
INVARIANTS Served GraphClosed EndsClean
PROPERTIES CutoverAtomic LeaseIsOnePublication OperationsEnd
CHECK_DEADLOCK FALSE
