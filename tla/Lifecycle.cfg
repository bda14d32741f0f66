SPECIFICATION Spec
CONSTANTS
    Ids = {c1}
    Bodies = {b1, b2}
    Owners = {u1}
    TtlOf <- NoTtl
    Clients = {r1}
    BackoffBase = 1
    BackoffCeil = 1
    IntentRetention = 1
    TerminatedRetention = 1
    Workloads <- LifecycleWorkloads
SYMMETRY Symmetry
INVARIANT TypeOK
INVARIANT TaskInv
INVARIANT SweepLeavesNoOrphan
INVARIANT NoPolicyLeak
PROPERTY IntentBeforeActuation
PROPERTY BackoffRespected
PROPERTY KnownNeverRollsBack
PROPERTY QuarantineFence
PROPERTY QueueOwnsSuspend
