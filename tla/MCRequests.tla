----------------------------- MODULE MCRequests -----------------------------
(* A small instance of EngineRouter, and of JobPlane and AccessControl within *)
(* it, for TLC.                                                               *)
EXTENDS EngineRouter, TLC

Account(role) == NewUser(role, "pw1")
Stored == [u \in {"admin", "ann"} |->
            Account(IF u = "admin" THEN "admin" ELSE "auditor")]
Load(w) == [k \in Kinds |-> IF k \in DOMAIN w THEN w[k] ELSE 0]
Fleet == {<<"c1", "ray">>, <<"d1", "dask">>}
Booted(w, crs, cached) ==
    [stored |-> Stored, load |-> Load(w), backing |-> crs, engines |-> cached]
Workload(w) == Booted(w, Fleet, EmptyTable)
Fresh(w) == [Workload(w) EXCEPT !.stored = EmptyTable]

MCProjectOf == [g \in {"g-ml", "g-bad", "ops"} |->
                    IF g = "g-ml" THEN "ml" ELSE IF g = "ops" THEN "ops" ELSE "?"]
MCPatterns == [r \in Roles |-> IF r = "operator" THEN {"ops"} ELSE {}]
MCProjectPatterns ==
    [r \in Roles |-> IF r = "operator" THEN {"g-ml", "g-bad"} ELSE {}]
Jwt(sub, username, groups, exp) ==
    [sub |-> sub, username |-> username, groups |-> groups, exp |-> exp]
MCClaims == {Jwt("s1", "dana", {"g-ml", "g-bad"}, 9), Jwt("", "none", {}, 9),
             Jwt("s2", "none", {"ops"}, 1)}

MCFirstTokens ==
    [p \in {"t1", "t2"} |->
        [username |-> IF p = "t1" THEN "admin" ELSE "ann", revoked |-> FALSE,
         expires |-> IF p = "t1" THEN 3 ELSE 2]]

Route(kind, area, verb, target) ==
    [kind |-> kind, area |-> area, method |-> "POST", cluster |-> FALSE,
     verb |-> verb, target |-> target, project |-> "none"]
Admin(kind) == Route(kind, "auth", "admin", "cluster")
Own(kind) == Route(kind, "auth", "own", "job")
Reads(kind) == Route(kind, "audit", "read", "audit")
Work(project) == [Route("work", "clusters", "write", "cluster") EXCEPT
                    !.project = project]
Proxied(kind, host) ==
    [Route(kind, "jobs", "own", "job") EXCEPT !.cluster = TRUE] @@ [host |-> host]
OfCluster(kind, target, id) ==
    Route(kind, "clusters", "read", target) @@ [id |-> id]
Grant(principal, role, scope) ==
    [principal |-> principal, role |-> role, scope |-> scope]
Binding(kind, g) == Admin(kind) @@ [grant |-> g]
Update(user, role, disabled, password) ==
    Admin("update_user") @@ [user |-> user, role |-> role,
                             disabled |-> disabled, password |-> password]

MCRoutes ==
    {Work("ml"), Proxied("proxy", "RAY1:80"), Proxied("submit", "ray1"),
     Proxied("stream", "ray1"),
     OfCluster("cluster_jobs", "job", "c1"), OfCluster("cluster_jobs", "job", "d1"),
     OfCluster("cluster_metrics", "cluster", "c1"),
     OfCluster("cluster_metrics", "cluster", "d1"),
     OfCluster("cluster_nodes", "cluster", "x1"),
     OfCluster("cluster_nodes", "cluster", "c1"),
     OfCluster("cluster_nodes", "cluster", "d1"),
     OfCluster("cluster_events", "cluster", "c1"),
     OfCluster("cluster_logs", "cluster", "c1"),
     Route("jobs", "jobs", "read", "job"),
     Route("ext_authz", "clusters", "own", "job"),
     Reads("page"), Reads("verify"), Own("logout"),
     Binding("assign", Grant("dana", "operator", "ml")),
     Binding("assign", Grant("dana", "owner", "ml")),
     Binding("unassign", Grant("dana", "operator", "ml")),
     Update("ann", "viewer", "yes", "pw2"), Update("ann", "admin", "keep", "keep"),
     Admin("create_user") @@ [user |-> "bob", role |-> "viewer",
                              password |-> "pw1"],
     Own("revoke") @@ [prefix |-> "t2"],
     Own("create_token") @@ [ttl |-> 2], Own("create_token") @@ [ttl |-> 4],
     Route("login", "login", "own", "job") @@ [user |-> "ann",
                                               password |-> "pw1"],
     Route("login", "login", "own", "job") @@ [user |-> "ann",
                                               password |-> "pw2"]}

All == [subject |-> "any", decision |-> "any", from |-> 0, to |-> 0]
MCFilters == {All, [All EXCEPT !.decision = "allow"]}

AccessWorkloads ==
    { \* accounts change under requests in flight
      Workload([update_user |-> 1, work |-> 1, pat |-> 2, fail |-> 1]),
      Workload([update_user |-> 1, create_token |-> 1, pat |-> 2,
                second |-> 1]),
      Workload([logout |-> 1, revoke |-> 1, work |-> 1, pat |-> 3,
                second |-> 1]),
      Fresh([create_user |-> 2, pat |-> 2]),
      \* failed logins race each other and a success
      Workload([login |-> 3, none |-> 3, second |-> 2]),
      Workload([login |-> 2, none |-> 2, fail |-> 1]),
      Workload([create_token |-> 1, pat |-> 1, fail |-> 1]),
      \* bindings change under scoped requests
      Workload([assign |-> 1, unassign |-> 1, pat |-> 2, work |-> 1,
                jwt |-> 1]),
      Workload([work |-> 1, ext_authz |-> 1, pat |-> 1, jwt |-> 1,
                none |-> 1, fail |-> 1]),
      \* key rotation
      Workload([work |-> 3, jwt |-> 3, rotate |-> 1, second |-> 2,
                fail |-> 1]),
      \* reading the trail
      Workload([page |-> 3, work |-> 1, pat |-> 4]),
      Workload([verify |-> 1, work |-> 1, pat |-> 2]),
      \* the gateway at its limit
      Workload([proxy |-> 1, stream |-> 1, pat |-> 2, frame |-> 1, close |-> 1,
                second |-> 1]),
      Workload([proxy |-> 1, stream |-> 1, pat |-> 2, gone |-> 1, fail |-> 1]),
      \* jobs, their history and the reaper
      Workload([submit |-> 1, pat |-> 1, progress |-> 2, refresh |-> 2,
                reap |-> 1, second |-> 2]),
      Workload([submit |-> 2, pat |-> 2, progress |-> 2, refresh |-> 1,
                reap |-> 1, second |-> 1]),
      Workload([submit |-> 1, pat |-> 1, progress |-> 1, refresh |-> 1,
                reap |-> 1, gone |-> 1, fail |-> 1]),
      Workload([submit |-> 1, pat |-> 1, progress |-> 1, repost |-> 1,
                reap |-> 1]),
      \* reads of one cluster
      Workload([cluster_jobs |-> 2, cluster_metrics |-> 1, pat |-> 3,
                fail |-> 1]),
      Workload([cluster_nodes |-> 2, jobs |-> 1, jwt |-> 3, fail |-> 1]),
      Workload([cluster_events |-> 1, cluster_logs |-> 1, pat |-> 2]),
      \* ... beside the loop: clusters still to be made, after a boot check
      \* that failed and after one that found nothing; clusters that exist
      Booted([cluster_nodes |-> 1, pat |-> 1, pass |-> 2, delete |-> 1,
              fail |-> 1], {}, EmptyTable),
      Booted([cluster_nodes |-> 1, pat |-> 1, pass |-> 2, delete |-> 1],
             {}, [k \in {"c1", "d1"} |-> "ray"]),
      Booted([cluster_nodes |-> 1, cluster_metrics |-> 1, pat |-> 2,
              pass |-> 1, delete |-> 1], Fleet, EmptyTable),
      Workload([cluster_jobs |-> 1, pat |-> 1, pass |-> 1]),
      Workload([pass |-> 2, delete |-> 1, fail |-> 1, cluster_events |-> 1,
                pat |-> 1]),
      \* ... and as their engine changes
      Workload([pass |-> 3, repost |-> 1, delete |-> 1]),
      Workload([pass |-> 2, repost |-> 1, cluster_nodes |-> 1, pat |-> 1]) }

Endpoint(id, hostname, scheme, authority) ==
    [id |-> id, hostname |-> hostname, scheme |-> scheme,
     authority |-> authority, token |-> FALSE]
MCRegistries ==
    LET first == Endpoint("c1", "ray1", "http", "name")
    IN  { << first, Endpoint("x1", "ray2", "https", "ip") >>,
          << first, Endpoint("x1", "RAY1", "http", "name") >>,
          << first, Endpoint("x1", "ray2", "http", "denied_ip") >> }
MCFolded == [h \in {"c1", "x1", "ray1", "ray2", "RAY1", "RAY1:80"} |->
                IF h \in {"RAY1", "RAY1:80"} THEN "ray1" ELSE h]
MCFleet ==
    [k \in {"c1", "d1"} |->
        [project |-> IF k = "c1" THEN "ml" ELSE "web",
         engine |-> IF k = "c1" THEN "ray" ELSE "dask",
         desired |-> "Running", observed |-> "Running", created_at |-> 0,
         ttl |-> IF k = "c1" THEN NoTime ELSE 2,
         idle |-> IF k = "c1" THEN 1 ELSE NoTime]]

\* A spec of the other engine, whose idle timeout is 0.
MCSpecs == {[project |-> "ml", engine |-> "dask", ttl |-> NoTime, idle |-> 0]}

RequestSymmetry == Permutations(Clients) \cup Permutations(Kids)
=============================================================================
