CONSTANTS
    w1 = w1
    w2 = w2
    Workloads = {w1, w2}
    Cancellable = {w1}
    LeaseOwner = w1
    Loop = Loop
    NoIntent = NoIntent
    Effects <- AllEffectsInOrder
    Limits <- SafetyLimits
SPECIFICATION Spec
CHECK_DEADLOCK FALSE
INVARIANTS
    
    EffectsMatchStatus
