CONSTANTS
    None = None
    Keys = {k1,k2}
    MaxKeyEpochs = 0
    MaxSafeInteger = 20
    Ops <- MCOps
    o1 = o1 o2 = o2 o3 = o3
    QueueOptions <- MCQueueOptions
    MaxList = 1
    Written = {k1}
    MayFail = TRUE
SPECIFICATION MCSpec
INVARIANT RemoteAgreesAtRest
PROPERTIES EveryCallReturns QueueDrains
