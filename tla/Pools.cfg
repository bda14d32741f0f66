SPECIFICATION FairPoolSpec
CONSTANTS
    PoolNames = {"p1", "p2"}
    Projects = {"a", "b"}
    BadNames = {""}
    Specs <- MCSpecs
    Allocations <- MCAllocations
    Ledgers <- MCLedgers
    GpuDefault = "whole-gpu"
    Clients = {c1, c2}
    Workloads <- PoolWorkloads
CHECK_DEADLOCK FALSE
INVARIANT PoolTypeOK
INVARIANT OrphansExplained
PROPERTY QuarantinedPassInert
PROPERTY PoolConverges
PROPERTY VanishedTornDown
