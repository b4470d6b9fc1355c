CONSTANTS
    None = None
    Keys = {k1, k2}
    MaxKeyEpochs = 10
    MaxSafeInteger = 20
    Ops = {o1, o2}
    NumLayers = 2
    Calls = {"set", "mset", "fetch", "delete"}
    MaxList = 2
    WritePolicy = "best-effort"
    Graceful = FALSE
    MayFail = {1}
SPECIFICATION FairSpec
INVARIANT NoOvertakenEntryAtRest
PROPERTY EveryCallReturns
