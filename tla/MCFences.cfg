CONSTANTS
    Accelerators = {gpu0}
    Workloads = {w1, w2}
    Operations = {op1, op2}
    NoLease = NoLease
    NoRow = NoRow
    MaxFence = 4
    Troubles <- CrashAndFaults
    MaxTries = 2
SPECIFICATION MCSpec
SYMMETRY Symmetry
INVARIANTS
    SlotExclusive
    SnapshotKept
    StopIsReal
PROPERTIES
    StaleCredentialIsPowerless
CHECK_DEADLOCK FALSE
