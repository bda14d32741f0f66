---------------------------- MODULE EngineRouter ----------------------------
(***************************************************************************)
(* The engine router (mobula-provision/src/router.rs): one Provisioner in  *)
(* front of the Ray and the Dask backend (kuberay_client.rs,               *)
(* dask_client.rs), with a cache of which cluster is whose.  Its callers   *)
(* are a pass of the reconcile loop (mobula-controller/src/reconcile.rs),  *)
(* which observes, applies and terminates, and the reads of one cluster    *)
(* (mobula-api/src/cluster_obs.rs), which run beside it.                   *)
(*                                                                         *)
(* Of the loop only what reaches the router is here; ClusterLifecycle has  *)
(* the rest.  A CR is there or not; what it reports is not looked at.      *)
(***************************************************************************)
EXTENDS JobPlane

Engines == {"ray", "dask"}

\* At startup a cluster has one CR at most, and what is cached of it is right.
ASSUME RouterAssumption ==
    /\ \A k \in DOMAIN FirstFleet :
        "engine" \in DOMAIN FirstFleet[k] /\ FirstFleet[k].engine \in Engines
    /\ \A s \in Specs : s.engine \in Engines
    /\ \A w \in Workloads :
        /\ \A p, q \in w.backing : p[1] = q[1] => p = q
        /\ \A k \in DOMAIN w.engines, e \in Engines :
            <<k, e>> \in w.backing => w.engines[k] = e

VARIABLES
    engines,    \* the cache: id -> engine
    backing,    \* the CRs: pairs <<id, engine>>
    loop,       \* where the reconcile pass over one cluster is
    guess,      \* history: clients about to remember an unfounded answer
    misled,     \* history: ids whose cached engine came from a guess
    left        \* history: CRs left behind by a change of engine

router == << engines, backing, loop, guess, misled, left >>
rvars == << jvars, router >>

\* A workload also says which CRs exist at startup and what the boot check
\* (detect_stale_restore observes row after row until one fails) has cached.
RouterInit ==
    /\ PlaneInit
    /\ \E w \in Workloads :
        load = w.load /\ backing = w.backing /\ engines = w.engines
    /\ loop = Waiting /\ guess = {} /\ misled = {} /\ left = {}

-----------------------------------------------------------------------------
(* Reads of one cluster.                                                   *)

Requested(c) == req[c].route.id

RouterFrame == UNCHANGED << store, trail, jwks, now, walk, plane >>

\* engine_of: the cache, or else a probe of the DaskCluster CRD ...
EngineOf(c) ==
    /\ IF Requested(c) \in DOMAIN engines THEN Drops(c) ELSE Goto(c, "probe")
    /\ UNCHANGED << load, router >> /\ RouterFrame

ClusterNodes(c) == Acts(c, "cluster_nodes") /\ EngineOf(c)
ClusterEvents(c) == Acts(c, "cluster_events") /\ EngineOf(c)
ClusterLogs(c) == Acts(c, "cluster_logs") /\ EngineOf(c)

\* ... that finds it or not ...
ProbeDask(c) ==
    /\ At(c, "probe")
    /\ LET k == Requested(c)
           answer == IF <<k, "dask">> \in backing THEN "dask" ELSE "ray"
       IN  /\ req' = [req EXCEPT ![c].pc = "remember", ![c].reply = answer]
           /\ guess' = IF \/ answer = "dask" /\ <<k, "dask">> \in left
                          \/ /\ loop.pc = "create" /\ loop.id = k
                             /\ loop.row.engine # answer
                       THEN guess \cup {c} ELSE guess
    /\ UNCHANGED << load, engines, backing, loop, misled, left >> /\ RouterFrame

\* ... or fails, which counts as Ray ...
ProbeFails(c) ==
    /\ At(c, "probe") /\ Spend("fail")
    /\ req' = [req EXCEPT ![c].pc = "remember", ![c].reply = "ray"]
    /\ guess' = guess \cup {c}
    /\ UNCHANGED << engines, backing, loop, misled, left >> /\ RouterFrame

\* ... and is cached; then the backend answers.
Remember(c) ==
    /\ At(c, "remember")
    /\ engines' = Put(engines, Requested(c), req[c].reply)
    /\ misled' = IF c \in guess THEN misled \cup {Requested(c)} ELSE misled
    /\ guess' = guess \ {c}
    /\ Drops(c)
    /\ UNCHANGED << load, backing, loop, left >> /\ RouterFrame

\* dashboard_api_base takes the cache without waiting for a writer: Dask has
\* no dashboard, everything else is asked of Ray.
NoDashboard(k) ==
    /\ ~ById(registry, k)
    /\ k \in DOMAIN engines /\ engines[k] = "dask"
CacheWritten == loop.pc \in {"warm", "apply"} \/ \E c \in Clients : At(c, "remember")

\* Jobs are a Ray surface: the row says which clusters have none.
ClusterJobs(c) ==
    /\ Acts(c, "cluster_jobs")
    /\ \/ Southbound(c, RunsDask(Requested(c)) \/ NoDashboard(Requested(c)))
       \/ CacheWritten /\ Southbound(c, RunsDask(Requested(c)))
    /\ UNCHANGED router

ClusterMetrics(c) ==
    /\ Acts(c, "cluster_metrics")
    /\ \/ Southbound(c, NoDashboard(Requested(c)))
       \/ CacheWritten /\ Southbound(c, FALSE)
    /\ UNCHANGED router

-----------------------------------------------------------------------------
(* A pass of the loop over one cluster.                                    *)

LoopFrame == UNCHANGED << store, trail, jwks, now, req, walk, registry, heads,
                          jobs, inflight, obs_inflight, bridges, refresh,
                          reaper >>

\* create_cluster of a cluster that exists: the row takes the new spec.
UpsertCluster(k) ==
    /\ Spend("repost")
    /\ \E s \in Specs :
        fleet' = [fleet EXCEPT ![k] = [@ EXCEPT
                    !.project = s.project, !.engine = s.engine,
                    !.ttl = s.ttl, !.idle = s.idle]]
    /\ UNCHANGED router /\ LoopFrame

DeleteCluster(k) ==
    /\ Spend("delete") /\ fleet[k].desired # "Terminated"
    /\ fleet' = [fleet EXCEPT ![k].desired = "Terminated"]
    /\ UNCHANGED router /\ LoopFrame

BeginPass(k) ==
    /\ loop = Waiting /\ Spend("pass")
    /\ loop' = [pc |-> "observe", then |-> "decide", id |-> k,
                row |-> fleet[k], engine |-> "none", found |-> FALSE]
    /\ UNCHANGED << fleet, engines, backing, guess, misled, left >> /\ LoopFrame

\* observe: the backend that is cached, or else a probe of Dask first ...
Observe ==
    /\ loop.pc = "observe"
    /\ LET k == loop.id
       IN  loop' = IF k \in DOMAIN engines
                   THEN [loop EXCEPT !.pc = loop.then,
                                     !.found = <<k, engines[k]>> \in backing]
                   ELSE [loop EXCEPT !.pc = "warm",
                            !.engine = IF <<k, "dask">> \in backing
                                       THEN "dask" ELSE "ray"]
    /\ UNCHANGED << load, fleet, engines, backing, guess, misled, left >> /\ LoopFrame

\* ... whose answer is cached ...
Warm ==
    /\ loop.pc = "warm"
    /\ engines' = Put(engines, loop.id, loop.engine)
    /\ loop' = IF loop.engine = "dask"
               THEN [loop EXCEPT !.pc = loop.then, !.found = TRUE]
               ELSE [loop EXCEPT !.pc = "ray"]
    /\ UNCHANGED << load, fleet, backing, guess, misled, left >> /\ LoopFrame

\* ... and Ray is asked where Dask has nothing.
RayObserve ==
    /\ loop.pc = "ray"
    /\ loop' = [loop EXCEPT !.pc = loop.then,
                            !.found = <<loop.id, "ray">> \in backing]
    /\ UNCHANGED << load, fleet, engines, backing, guess, misled, left >> /\ LoopFrame

Reobserves(l) == [l EXCEPT !.pc = "observe", !.then = "record"]

\* A CR that is there is applied again if it is behind the row's generation,
\* which a change of the engine alone does not raise.
DecideOne ==
    /\ loop.pc = "decide"
    /\ \/ /\ loop.row.desired = "Terminated" /\ loop.found
          /\ loop' = [loop EXCEPT !.pc = "terminate"]
       \/ /\ loop.row.desired = "Running"
          /\ loop' = [loop EXCEPT !.pc = "apply"]
       \/ /\ loop.row.desired = "Running" <=> loop.found
          /\ loop' = Reobserves(loop)
    /\ UNCHANGED << load, fleet, engines, backing, guess, misled, left >> /\ LoopFrame

\* An apply with another engine leaves the CR of the old one behind, and an
\* answer of an earlier probe that is still to be cached is out of date.
Superseded(k, engine) ==
    (left \ {<<k, engine>>}) \cup
    {<<k, e>> : e \in {f \in Engines \ {engine} : <<k, f>> \in backing}}
OutOfDate(k, engine) ==
    {c \in Clients : /\ At(c, "remember") /\ Requested(c) = k
                     /\ req[c].reply # engine}

\* Mutant: an apply does not correct what is cached.
ApplyRemembersForgetful ==
    /\ loop.pc = "apply"
    /\ loop' = [loop EXCEPT !.pc = "create"]
    /\ engines' = IF loop.id \in DOMAIN engines THEN engines
                  ELSE Put(engines, loop.id, loop.row.engine)
    /\ misled' = misled \ {loop.id}
    /\ left' = Superseded(loop.id, loop.row.engine)
    /\ guess' = guess \cup OutOfDate(loop.id, loop.row.engine)
    /\ UNCHANGED << load, fleet, backing >> /\ LoopFrame

\* apply knows the engine: it is cached before the backend is called.
ApplyRemembers ==
    /\ loop.pc = "apply"
    /\ loop' = [loop EXCEPT !.pc = "create"]
    /\ engines' = Put(engines, loop.id, loop.row.engine)
    /\ misled' = misled \ {loop.id}
    /\ left' = Superseded(loop.id, loop.row.engine)
    /\ guess' = guess \cup OutOfDate(loop.id, loop.row.engine)
    /\ UNCHANGED << load, fleet, backing >> /\ LoopFrame

Created == backing \cup {<<loop.id, loop.row.engine>>}
Create ==
    /\ loop.pc = "create"
    /\ backing' = Created
    /\ loop' = Reobserves(loop)
    /\ UNCHANGED << load, fleet, engines, guess, misled, left >> /\ LoopFrame

\* What is not there is as good as deleted.
Deleted == backing \ {<<loop.id, engines[loop.id]>>}
Terminate ==
    /\ loop.pc = "terminate"
    /\ backing' = Deleted
    /\ loop' = Reobserves(loop)
    /\ UNCHANGED << load, fleet, engines, guess, misled, left >> /\ LoopFrame

Record ==
    /\ loop.pc = "record"
    /\ fleet' = [fleet EXCEPT ![loop.id].observed =
                    IF loop.found THEN "Running" ELSE "none"]
    /\ loop' = Waiting
    /\ UNCHANGED << load, engines, backing, guess, misled, left >> /\ LoopFrame

\* A call that fails, of the store or of a backend, ends the pass; a probe that
\* failed is not cached.  An apply or a terminate that fails may have done its
\* work.
PassFails ==
    /\ loop.pc \notin {"idle", "warm"}
    /\ Spend("fail")
    /\ loop' = Waiting
    /\ \/ UNCHANGED backing
       \/ loop.pc = "create" /\ backing' = Created
       \/ loop.pc = "terminate" /\ backing' = Deleted
    /\ UNCHANGED << fleet, engines, guess, misled, left >> /\ LoopFrame

-----------------------------------------------------------------------------
RouterStep ==
    \/ \E c \in Clients :
        \/ ClusterNodes(c) \/ ClusterEvents(c) \/ ClusterLogs(c)
        \/ ProbeDask(c) \/ ProbeFails(c) \/ Remember(c)
        \/ ClusterJobs(c) \/ ClusterMetrics(c)
    \/ \E k \in DOMAIN fleet : UpsertCluster(k) \/ DeleteCluster(k) \/ BeginPass(k)
    \/ Observe \/ Warm \/ RayObserve \/ DecideOne \/ ApplyRemembers \/ Create
    \/ Terminate \/ Record \/ PassFails

RouterNext == (PlaneNext /\ UNCHANGED router) \/ (RouterStep /\ Witness)

RouterSpec == RouterInit /\ [][RouterNext]_rvars

-----------------------------------------------------------------------------
\* The router and its two backends: the engine cached for a cluster is that of
\* its CR, so that a pass that finds a terminated cluster gone, and lets the
\* sweep drop its row, leaves no CR behind.  Failed probes of observe, passes
\* that break off anywhere and reads that run beside the loop do not change
\* this.  What does is a read that caches, until the next apply, what a failed
\* probe, a probe overtaken by an apply, or a probe that met a CR left behind
\* told it; and a change of a cluster's engine, which leaves its old CR behind
\* for good.
CacheNamesOwner ==
    /\ \A k \in DOMAIN engines \ misled, e \in Engines :
        <<k, e>> \in backing \ left => engines[k] = e
    /\ loop.pc = "record" /\ loop.row.desired = "Terminated" /\ ~loop.found
       /\ loop.id \notin misled
       => \A e \in Engines : <<loop.id, e>> \notin backing \ left

-----------------------------------------------------------------------------
(* What makes it inductive.                                                *)

\* The rows and the pass have their shape.
LoopShape ==
    /\ \A k \in DOMAIN fleet :
        "engine" \in DOMAIN fleet[k] /\ fleet[k].engine \in Engines
    /\ \/ loop = Waiting
       \/ /\ DOMAIN loop = {"pc", "then", "id", "row", "engine", "found"}
          /\ loop.then \in {"decide", "record"}
          /\ loop.row.engine \in Engines

\* The engine of the CR that is there or about to be made.
Owns(k, e) ==
    \/ <<k, e>> \in backing \ left
    \/ loop.pc = "create" /\ loop.id = k /\ loop.row.engine = e

\* There is one at most; what was never cached was never applied.
OneOwner ==
    /\ \A k : ~(Owns(k, "ray") /\ Owns(k, "dask"))
    /\ \A k : k \notin DOMAIN engines =>
        \A e \in Engines : <<k, e>> \notin left

Names(k, engine) == \A e \in Engines : Owns(k, e) => engine = e

\* What is cached, and every answer still to be cached, is right.
AnswersRight ==
    /\ \A k \in DOMAIN engines \ misled : Names(k, engines[k])
    /\ \A c \in Clients \ guess :
        At(c, "remember") => Names(Requested(c), req[c].reply)
    /\ loop.pc = "warm" => Names(loop.id, loop.engine)
    /\ loop.pc = "ray" => <<loop.id, "dask">> \notin backing \ left

RouterInv == LoopShape /\ OneOwner /\ AnswersRight /\ CacheNamesOwner
=============================================================================
