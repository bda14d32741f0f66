\* The SQLite and Postgres stores implement the atomic store.
SPECIFICATION FairSqlSpec
CHECK_DEADLOCK FALSE
CONSTANTS
    Ids = {"a"}
    Bodies = {"b1", "b2"}
    Owners = {"u"}
    TtlOf <- NoTtl
    Calls <- MCCalls
    Callers = {c1, c2}
    HashText <- MCHashText
    PoolText <- MCPoolText
    OldRows <- MCOldRows
    Workloads <- SqlWorkloads
INVARIANT TrailChained
PROPERTY ImplementsStore
PROPERTY CallsReturn
