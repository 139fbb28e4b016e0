\* One small component per scene; see Portal for their instances.
CONSTANTS
    k1 = k1  k2 = k2  show = show  s1 = s1  p1 = p1
    Keys = {k1, k2}
    Visits <- Opened
    MaxId = 2
    PageScenes = {"page", "two items"}
    Root = show  Seasons = {s1}  Trees <- Shows  PageSize = 1
    NavPages = {p1}  TTL = 2  Timeout = 1  MaxCfg = 2
    MaxResources = 2  MaxConns = 3  Budgets = {2}
SPECIFICATION FairPortal
INVARIANTS PortalTypeOK ClosedDrawerIsQuiet BoundedStaleness SavedIsShown PicksBest
PROPERTIES NeverShownMissing ClicksHitTheirItem EvictSparesDownloads LeavesNothingOut DialogKeepsItsWord
PROPERTIES QueuePageConverges OpenDrawerFills HealthRecovers
\* Discover returns, and bounded tables leave a bulk call nothing to do.
CHECK_DEADLOCK FALSE
