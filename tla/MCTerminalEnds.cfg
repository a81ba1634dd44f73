CONSTANTS
    w1 = w1
    w2 = w2
    Workloads = {w1, w2}
    Cancellable = {w1}
    LeaseOwner = w1
    Loop = Loop
    NoIntent = NoIntent
    Effects <- AllEffectsInOrder
    Limits <- EndingLimits
SPECIFICATION FairSpec
CHECK_DEADLOCK FALSE
PROPERTIES
    ContinuationDelivers
