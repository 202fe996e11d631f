CONSTANTS
    Requests = {r1, r2}
    Collectors = {c1, c2}
    ChanCap = 1
    EnvValidity = 2
    MaxMetrics = 1
    MaxTime = 3
    NoRequest = NoRequest
SPECIFICATION Spec
INVARIANTS TypeOK NoSendOnClosedChannel NoGoroutineLeft CollectOnWholeEnvironment
PROPERTIES EnvFreshAtLaunch ImplementsService EveryScrapeEnds
