\* A cancellation meets a download that is about to resume.
CONSTANTS
    k1 = k1  k2 = k2  w1 = w1  w2 = w2  r1 = r1  r2 = r2
    v1 = v1  v2 = v2  p1 = p1  p2 = p2  None = None
    Keys = {k1}
    Workers = {w1}
    Requests = {r1}
    Versions = {v1}
    SizeOf <- OneSize
    Paths = {p1, p2}
    Destinations <- EitherPath
    RetryAttempts = 2
    MaxId = 2
    Events = {"cancel", "reload"}
SPECIFICATION Spec
INVARIANT StrayPartialHarmless
