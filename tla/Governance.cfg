\* Quota and budget admission, the settings API, metering and usage reports.
SPECIFICATION FairAdmissionSpec
CHECK_DEADLOCK FALSE
CONSTANTS
    PoolNames = {"p1", "p2"}
    Projects = {"ml", "etl"}
    BadNames = {}
    Ids = {"k1", "k2"}
    Bodies <- MCBodies
    Edits <- MCEdits
    SeedPolicy <- MCSeed
    PoolRows <- MCPoolRows
    AllocRows <- MCAllocRows
    QueueLedgers <- MCQueueLedgers
    GpuDefault = "exclusive"
    Clients = {c1, c2}
    Workloads <- AdmissionWorkloads
INVARIANT AdmissionTypeOK
INVARIANT QuotaHolds
INVARIANT IntegralIsArea
INVARIANT ReportsAgree
PROPERTY EditsOutliveSeed
PROPERTY RequestsAnswered
