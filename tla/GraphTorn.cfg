CONSTANTS
    app = app
    lib = lib
    tool = tool
    view = view
    extra = extra
    Package = {app, lib, tool}
    MaxGeneration = 2
    MaxPending = 2
    Needs <- MCNeeds
    Op = {1, 2}
    Call = {c1}
    Changes <- MCChanges
    InstallOrder <- MCInstallOrder
    Surfaces <- MCSurfaces
    Optional = {extra}
    MaxOpen = 1
    MaxCrashes = 1
    MaxFaults = 0
    TornRemovals = TRUE
SPECIFICATION Spec
INVARIANT GraphClosed
CHECK_DEADLOCK FALSE
