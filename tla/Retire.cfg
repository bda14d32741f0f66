SPECIFICATION FairSpec
CONSTANTS
    Ids = {c1}
    Bodies = {b1}
    Owners = {u1}
    TtlOf <- AllExpire
    Clients = {r1}
    BackoffBase = 1
    BackoffCeil = 1
    IntentRetention = 1
    TerminatedRetention = 1
    Workloads <- RetireWorkloads
PROPERTY TombstonesSwept
PROPERTY SuspendConverges
PROPERTY ExpiryReaps
