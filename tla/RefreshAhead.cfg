CONSTANTS
    TenYears = 12
    MaxTime = 4
    MaxSets = 2
    WriteOptions <- Options
    DefaultTtl <- Defaults
    NegativeTtl = 1
    HotAfter = 1
    Step = 1
    MaxTtl = 2
    RefreshAhead = 1
SPECIFICATION Spec
CHECK_DEADLOCK FALSE
INVARIANT RefreshAheadFetches
