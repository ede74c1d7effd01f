SPECIFICATION MCSpec
CONSTANTS
    Session = {s1, s2}
    Package = {a, b}
    MaxGeneration = 3
    MaxLife = 2
    Writer = {w1, w2}
    MaxLosses = 2
    MaxExits = 2
    p1 = p1
    p2 = p2
    t1 = t1
    t2 = t2
    t3 = t3
    q1 = q1
    q2 = q2
    o3 = o3
    Process = {p1, p2}
    Task = {t1, t2, t3}
    ProcessOf <- MCProcessOf
    MaxRequests = 2
    Tool = {tool}
    Version = {v1, v2}
    Executable = {run}
    Payload = {x, y}
    None = None
    MaxAborts = 3
    Plugin = {q1, q2}
    Generation = {g1, g2}
    Operation = {o1, o2, o3}
    Nothing = Nothing
CHECK_DEADLOCK FALSE
INVARIANTS
    CallsKeepTheirSurfaces
    CallsSeeOneGeneration
    IndexSafe
    Exclusion
    RestoreIsolated
    
    GrantsExact
PROPERTIES
    
    EventuallyPublished
    ExclusiveServed
