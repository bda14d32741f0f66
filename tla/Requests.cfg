\* Requests through authentication, authorization, the gateway and the audit
\* trail.
SPECIFICATION RouterSpec
CHECK_DEADLOCK FALSE
CONSTANTS
    BadScopes = {"?"}
    ProjectOf <- MCProjectOf
    Users = {"admin", "ann", "bob"}
    Passwords = {"pw1", "pw2"}
    TokenIds = {"t1", "t2", "t3"}
    Kids = {k1, k2}
    Claims <- MCClaims
    Patterns <- MCPatterns
    ProjectPatterns <- MCProjectPatterns
    Routes <- MCRoutes
    Filters <- MCFilters
    Threshold = 2
    LockoutSecs = 2
    LoginTtl = 2
    MaxTtl = 3
    Cooldown = 2
    PageLimit = 1
    Clients = {c1, c2}
    Workloads <- AccessWorkloads
    FirstTokens <- MCFirstTokens
    Registries <- MCRegistries
    AllowInsecure = FALSE
    Folded <- MCFolded
    FirstFleet <- MCFleet
    Specs <- MCSpecs
    JobIds = {"j1", "j2"}
    Streams = {"s1"}
    MaxInflight = 1
    ObsInflight = 1
    BridgeIdle = 1
SYMMETRY RequestSymmetry
INVARIANT AccessTypeOK
INVARIANT AuthorityIsCurrent
INVARIANT AuditReadsFaithful
INVARIANT JwksRefreshSpaced
INVARIANT PermitsAccounted
INVARIANT CacheNamesOwner
PROPERTY IdleReapSparesBusy
