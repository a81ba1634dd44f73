CONSTANTS
    fast = fast
    slow = slow
    Jobs = {1}
    Items = {1, 2, 3}
    JobOf <- ThreeItems
    Workers = {fast, slow}
    Slots <- SlotsOf
    NoWorker = NoWorker
    MaxAttempts = 2
    MaxReaps = 1
    Webhooks <- MCWebhooks
    NotificationAttempts = 2
    OutboxLimits <- MCOutboxLimits
SPECIFICATION MCSpec
CHECK_DEADLOCK FALSE
INVARIANTS
    ZeroGapDispatch
    DuplicatesExplained
PROPERTIES
    
    NotificationsEnd
