SPECIFICATION FairSpec
CONSTANTS
    Ids = {c1}
    Bodies = {b1, b2}
    Owners = {u1}
    TtlOf <- NoTtl
    Clients = {r1}
    BackoffBase = 1
    BackoffCeil = 1
    IntentRetention = 1
    TerminatedRetention = 1
    Workloads <- DegradedWorkloads
PROPERTY GenerationConverges
