------------------------------ MODULE Capacity ------------------------------
(***************************************************************************)
(* Pools of capacity: the vocabulary of mobula-core/src/pool.rs, its       *)
(* validation, the GPU tenancy rule of mobula-policy/src/gpu.rs, the pool  *)
(* rows and allocations of the store, and the Kueue objects a pool is      *)
(* translated to (mobula-provision/src/kueue.rs).  Pure operators only.    *)
(***************************************************************************)
EXTENDS Quantity, Tables, Sequences, SequencesExt

CONSTANTS
    PoolNames,
    Projects,
    BadNames            \* the strings is_k8s_name refuses

\* Option::None for an observation: nothing reserved, no queue.
NoObservation == EmptyTable
NoQueue == "none"

IsK8sName(n) == n \notin BadNames

-----------------------------------------------------------------------------
(* Validation of specs.  A spec is [cohort, flavors, weight, elastic, gpu];*)
(* a flavor is [name, resources, taints], resources mapping a resource     *)
(* name to a quantity; a taint is [key, value, effect].                    *)

ValidTaint(t) == t.key # "" /\ t.value # "" /\ t.effect # ""

ValidFlavor(f) ==
    /\ IsK8sName(f.name)
    /\ "" \notin DOMAIN f.resources
    /\ \A t \in f.taints : ValidTaint(t)

ValidPool(name, s) ==
    /\ IsK8sName(name) /\ IsK8sName(s.cohort)
    /\ s.flavors # << >>
    /\ s.weight >= 0
    /\ \A i \in DOMAIN s.flavors :
        /\ ValidFlavor(s.flavors[i])
        /\ \A j \in 1 .. i - 1 : s.flavors[j].name # s.flavors[i].name

ValidAllocation(pool, project, a) ==
    IsK8sName(pool) /\ IsK8sName(project) /\ IsK8sName(a.namespace)

Resources(s) == UNION {DOMAIN s.flavors[i].resources : i \in DOMAIN s.flavors}

\* The flavors of a spec that quota resource k, by position.
Quoting(s, k) == {i \in DOMAIN s.flavors : k \in DOMAIN s.flavors[i].resources}

\* Mutant: quantities are taken on trust.
ValidQuantitiesUnchecked(s) == TRUE

ValidQuantities(s) ==
    \A k \in Resources(s) : \A i \in Quoting(s, k) :
        ParseQuantity(s.flavors[i].resources[k]) # Bad

-----------------------------------------------------------------------------
(* GPU sharing.                                                            *)

EffectiveGpuSharing(s, default) == IF s.gpu = "unset" THEN default ELSE s.gpu

PoolGpuIsolated(s, default, tenants) ==
    ~(tenants > 1 /\ EffectiveGpuSharing(s, default) = "time-slice")

\* gpus: the gpu quantities of the worker groups of the cluster.
ClusterGpuIsolated(s, default, tenants, gpus) ==
    /\ PoolGpuIsolated(s, default, tenants)
    /\ tenants > 1 =>
        \A q \in gpus : GpuMilli(q) # Bad /\ GpuMilli(q) % 1000 = 0

-----------------------------------------------------------------------------
(* Rows.  A pool that is deleted leaves its allocations in their table.    *)

UpsertPool(pools, name, spec) ==
    Put(pools, name,
        IF name \notin DOMAIN pools
        THEN [spec |-> spec, generation |-> 1, observed |-> NoObservation]
        ELSE [pools[name] EXCEPT
                !.spec = spec,
                !.generation = IF spec = pools[name].spec THEN @ ELSE @ + 1])

\* A pool deleted meanwhile is skipped.
RecordPoolObservation(pools, name, obs) ==
    IF name \in DOMAIN pools THEN [pools EXCEPT ![name].observed = obs]
    ELSE pools

UpsertAllocation(allocs, pool, project, a) == Put(allocs, <<pool, project>>, a)
DeleteAllocation(allocs, pool, project) == Drop(allocs, <<pool, project>>)

\* project -> allocation, for one pool.
ListAllocations(allocs, pool) ==
    [q \in {r \in Projects : <<pool, r>> \in DOMAIN allocs} |->
        allocs[<<pool, q>>]]

\* The answers queue_assignment_for_project may give: the first allocation
\* met, in the order the store lists pools.
QueueAssignments(pools, allocs, project) ==
    LET homes == {p \in DOMAIN pools : <<p, project>> \in DOMAIN allocs}
    IN  IF homes = {} THEN {NoQueue}
        ELSE {[queue_name |-> project, elastic |-> pools[p].spec.elastic] :
                p \in homes}

-----------------------------------------------------------------------------
(* What the API shows of a pool. *)

Unparseable(s) ==
    {k \in Resources(s) : \E i \in Quoting(s, k) :
        ParseQuantity(s.flavors[i].resources[k]) = Bad}

\* A resource that fails to parse on any flavor has no total.
TotalNominal(s) ==
    [k \in Resources(s) \ Unparseable(s) |->
        MapThenSumSet(LAMBDA i : ParseQuantity(s.flavors[i].resources[k]),
                      Quoting(s, k))]

\* An observation maps a flavor to the amounts reserved in it, by resource.
\* Amounts that do not parse are skipped.
SumQuantities(obs, k) ==
    MapThenSumSet(LAMBDA f : ParseQuantity(obs[f][k]),
        {f \in DOMAIN obs : k \in DOMAIN obs[f] /\ ParseQuantity(obs[f][k]) # Bad})

\* Reserved in the last observation against the nominal quota; percent is 0
\* where there is no quota.
PoolUsage(row) ==
    LET used == UNION {{k \in DOMAIN row.observed[f] :
                            ParseQuantity(row.observed[f][k]) # Bad} :
                        f \in DOMAIN row.observed}
        nominal == TotalNominal(row.spec)
        Quota(k) == IF k \in DOMAIN nominal THEN nominal[k] ELSE 0
        Reserved(k) == SumQuantities(row.observed, k)
    IN  [k \in used \cup DOMAIN nominal |->
            [allocated |-> Reserved(k), nominal |-> Quota(k),
             pct |-> IF Quota(k) > 0 THEN (Reserved(k) * 100) \div Quota(k)
                     ELSE 0]]

-----------------------------------------------------------------------------
(* Kueue objects.  An object is found by kind, namespace and name, and     *)
(* carries the pool it was made for as its label.                          *)

Object(kind, ns, name, pool, body) ==
    [ref |-> <<kind, ns, name>>, pool |-> pool, body |-> body]

ToCohort(pool, s) == Object("Cohort", "", s.cohort, pool, {})

ToResourceFlavor(pool, f) ==
    Object("ResourceFlavor", "", f.name, pool, f.taints)

ToClusterQueue(pool, s) ==
    Object("ClusterQueue", "", pool, pool,
           [cohort |-> s.cohort, weight |-> s.weight,
            covered |-> Resources(s), flavors |-> s.flavors])

ToLocalQueue(pool, project, a) ==
    Object("LocalQueue", a.namespace, project, pool,
           [cluster_queue |-> pool, limits |-> a.limits])

\* The objects of a pool in the order they are applied: Cohort, flavors,
\* ClusterQueue, then one LocalQueue for each allocation.
Manifests(pool, s, allocs) ==
    <<ToCohort(pool, s)>>
    \o [i \in DOMAIN s.flavors |-> ToResourceFlavor(pool, s.flavors[i])]
    \o <<ToClusterQueue(pool, s)>>
    \o SetToSeq({ToLocalQueue(pool, q, allocs[q]) : q \in DOMAIN allocs})
=============================================================================
