CONSTANTS
    Instance = {a, b}
    MaxCalls = 4
    Clients = {a, b}
    TagKeys = {k0}
    Tags = {t1}
    None = None
    StoreKeys = {m1, m2, m3}
    MaxSize = 2
    MaxTime = 3
    MaxCount = 2
    TenYears = 12
    EntriesMaxTime = 4
    MaxEntrySets = 2
    WriteOptions <- Options
    DefaultTtl <- Defaults
    NegativeTtl = 1
    HotAfter = 1
    Step = 1
    MaxTtl = 2
    RefreshAhead = 1
    Keys = {k1, k2}
    Gens = {1, 2}
    BatchSize = 1
    MaxMatches = 2
    MaxSets = 2
    MaxBumps = 2
    Calls = {a, b}
    Parts = 3
    MaxWrites = 3
    MaxCommands = 3
    Serializers <- Formats
    MaxFiles = 1
    MaxWriteQueueDepth = 2
    Callers = {f1, f2, f3}
    NoEntry = NoEntry
    MaxInFlight = 2
    HasTimeout = TRUE
    MaxKeyEpochs = 1
    MaxSafeInteger = 2
SPECIFICATION MCSpec
SYMMETRY Symmetry
CHECK_DEADLOCK FALSE
INVARIANTS
    NoOvertakenValueAtRest
    TagsFindTheirKeys
    SearchFindsKnownKeys
    LayersSpanWindows
    GenerationsStayApart
    RestoresReadWholeSnapshots
    AnsweredWritesAreLast
    NoOldReads
    ActiveTasksBounded
    OneTaskPerKey
    NothingLeaks
    OneStorableTask
PROPERTIES
    LiveEntriesStay
    FreshnessNotRegained
    SetsBoundFiles
