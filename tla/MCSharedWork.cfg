CONSTANTS
    NoEntry = NoEntry
    Keys = {1, 2, 3, 4}
    Ops = {o1, o2, o3}
    NoTail = NoTail
    MaxPendingWrites = 5
    MaxActiveWriteKeys = 3
    MaxPendingWritesPerKey = 2
    GuardKeys = {k1}
    Callers = {c1, c2, c3}
    MaxInFlight = 2
    HasTimeout = TRUE
    NoToken = NoToken
    Processes = {p1, p2}
    Lease = 3
    RenewInterval = 2
    Timeout = 2
    Graceful = {TRUE, FALSE}
    Stacks = {s1, s2, s3}
    MaxMessages = 2
    MaxFailures = 1
SPECIFICATION MCSpec
INVARIANTS
    CountersMatch
    MessagesReachHandlers
PROPERTIES
    ImplementsOrderedWrites
    AdmittedWritesFinish
    EveryCallerReturns
    OthersSpareTheLock
    WaitersReturn
