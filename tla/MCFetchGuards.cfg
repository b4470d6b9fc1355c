CONSTANTS
    Keys = {k1, k2, k3}
    Buckets = {k1, k2, k3}
    Breakers = {k1, k2, k3}
    RateScope = "key"
    BreakerScope = "key"
    Fetches = {f1, f2, f3}
    MaxConcurrent = 1
    MaxPerInterval = 1
    Interval = 2
    Bypass = TRUE
    MaxBuckets = 2
    MaxQueue = 1
    FailureThreshold = 2
    Cooldown = 2
    MaxEntries = 1
SPECIFICATION FairSpec
INVARIANT RatesHold
PROPERTIES
    BreakersJudgeFetches
    QueuedFetchesRun
