CONSTANTS
    None = None
    Keys = {k1}
    MaxKeyEpochs = 10
    MaxSafeInteger = 20
    Ops = {o1, o2, o3}
    NumLayers = 2
    Calls = {"set", "mset", "get", "fetch", "delete", "clear"}
    MaxList = 1
    WritePolicy = "strict"
    Graceful = TRUE
    MayFail = {2}
SPECIFICATION Spec
SYMMETRY Symmetry
INVARIANTS
    NoOvertakenEntryAtRest
    CleanupSparesNewer
PROPERTY NewerNeverOverwritten
