CONSTANTS
    None = None
    Keys = {k1}
    MaxKeyEpochs = 10
    MaxSafeInteger = 20
    Ops = {o1, o2, o3}
    NumLayers = 2
    Calls = {"set", "get", "delete"}
    MaxList = 1
    WritePolicy = "strict"
    Graceful = FALSE
    MayFail = {}
SPECIFICATION Spec
SYMMETRY Symmetry
INVARIANT NoInvalidatedValueAtRest
