CONSTANTS
    Keys = {k1, k2, k3}
    MaxKeyEpochs = 2
    MaxSafeInteger = 6
    Holders = {h1}
    MaxList = 2
    MaxClearEpoch = 3
SPECIFICATION Spec
INVARIANTS
    OvertakenFenceIsOutdated
    BumpAllIsTheLoop
PROPERTY UnrelatedInvalidationKeepsFences
