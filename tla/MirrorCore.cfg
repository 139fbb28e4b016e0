\* Everything the environment may do except failing writes.
CONSTANTS
    k1 = k1  k2 = k2  w1 = w1  w2 = w2  r1 = r1  r2 = r2
    v1 = v1  v2 = v2  p1 = p1  p2 = p2  None = None
    Keys = {k1, k2}
    Workers = {w1, w2}
    Requests = {r1}
    Versions = {v1}
    SizeOf <- OneSize
    Paths = {p1, p2}
    Destinations <- OwnPaths
    RetryAttempts = 1
    MaxId = 3
    Events = {"cancel", "evict", "abort", "reload", "crash"}
SPECIFICATION Spec
SYMMETRY Interchange
INVARIANTS TypeOK SingleWriter NoStranded
PROPERTIES ImplementsLifecycle
