CONSTANTS
    None = None
    Keys = {k1, k2}
    MaxKeyEpochs = 1
    MaxSafeInteger = 3
    Ops = {o1, o2, o3}
    NumLayers = 2
    Calls = {"set", "mset", "delete"}
    MaxList = 2
    WritePolicy = "strict"
    Graceful = FALSE
    MayFail = {}
SPECIFICATION Spec
SYMMETRY Symmetry
INVARIANT NoOvertakenEntryAtRest
