----------------------------- MODULE Admission ------------------------------
(***************************************************************************)
(* Governance at work: cluster creation against quotas and budgets         *)
(* (mobula-api/src/clusters.rs), the settings API and the store-backed     *)
(* policy row (mobula-api/src/settings.rs), the metering loop              *)
(* (mobula-controller/src/metering.rs) and usage reports                   *)
(* (mobula-api/src/usage.rs).                                              *)
(*                                                                         *)
(* Of a cluster row only the spec and the desired state matter here; the   *)
(* rest is the subject of ClusterLifecycle.  Pools and allocations stay as *)
(* the constants give them; PoolReconcile has them change.                 *)
(***************************************************************************)
EXTENDS Policy

CONSTANTS
    Ids,            \* cluster ids
    Bodies,         \* the specs POST /clusters may carry
    Edits,          \* the bodies PUT /settings/policy may carry
    SeedPolicy,     \* the --policy file, or NoPolicy
    PoolRows,       \* pool -> [spec, generation, observed]
    AllocRows,      \* <<pool, project>> -> allocation
    QueueLedgers,   \* what Kueue may report: [flavors, queues] of each pool
    GpuDefault,     \* [gpu] default_sharing of the policy file
    Clients,        \* API requests that may be in flight together
    Workloads       \* how many events of each kind the environment has

\* A policy is [prices, quotas, budgets, seeded]; each section is a table.
NoPolicy == EmptyTable
Amounts(m) == \A k \in DOMAIN m : m[k] \in Nat

\* The sections of the file are stored as they were read: parse_policy
\* validates none of them.
FromFile(p, section) ==
    SeedPolicy # NoPolicy /\ p[section] = SeedPolicy[section]

\* A section is the file's, or has no negative amount and no empty window.
PolicyTyped(p) ==
    /\ DOMAIN p = {"prices", "quotas", "budgets", "seeded"}
    /\ FromFile(p, "prices") \/ Amounts(p.prices)
    /\ FromFile(p, "quotas") \/ \A q \in DOMAIN p.quotas : Amounts(p.quotas[q])
    /\ FromFile(p, "budgets") \/ \A q \in DOMAIN p.budgets :
            p.budgets[q].window > 0 /\ Amounts(p.budgets[q].limits)

\* A file, where there is one, has the sections of a policy; the amounts an
\* edit carries are numbers.
ASSUME GovernanceAssumption ==
    /\ \A s \in Bodies : s.project \in Projects
    /\ SeedPolicy # NoPolicy =>
           DOMAIN SeedPolicy = {"prices", "quotas", "budgets", "seeded"}
    /\ \A e \in Edits :
        /\ \A k \in DOMAIN e.prices : e.prices[k] \in Int
        /\ \A q \in DOMAIN e.quotas : \A k \in DOMAIN e.quotas[q] :
               e.quotas[q][k] \in Int
        /\ \A q \in DOMAIN e.budgets : \A k \in DOMAIN e.budgets[q].limits :
               e.budgets[q].limits[k] \in Int

VARIABLES
    policy,         \* the policy row of the store, or NoPolicy
    clusters,       \* id -> [spec, desired]
    samples,        \* usage_samples, in insertion order
    now,            \* unix seconds
    admit_locks,    \* project -> the clients queued for its lock, holder first
    req,            \* client -> its request in flight
    meter,          \* samples collected by the current tick, not yet recorded
    load,           \* events the environment still has
    granted,        \* history: project -> limit of its last quota admission
    unchecked       \* history: projects that gained demand without admission

avars == << policy, clusters, samples, now, admit_locks, req, meter, load,
            granted, unchecked >>
grants == << granted, unchecked >>

AKinds == {"create", "edit", "view", "suspend", "resume", "delete", "purge",
           "second", "tick", "ktick", "fail"}
Spend(kind) == load[kind] > 0 /\ load' = [load EXCEPT ![kind] = @ - 1]

DefaultPolicy == [prices |-> EmptyTable, quotas |-> EmptyTable,
                  budgets |-> EmptyTable, seeded |-> FALSE]

NoRequest == [op |-> "none"]
Asleep == [pc |-> "idle"]

AdmissionInit ==
    /\ policy = NoPolicy /\ clusters = EmptyTable /\ samples = << >>
    /\ now = 0
    /\ admit_locks = [p \in Projects |-> << >>]
    /\ req = [c \in Clients |-> NoRequest]
    /\ meter = Asleep
    /\ load \in Workloads
    /\ granted = EmptyTable /\ unchecked = {}

-----------------------------------------------------------------------------
(* The effective policy.                                                   *)

At(c, pc) == req[c].op # "none" /\ req[c].pc = pc
Goto(c, r) == req' = [req EXCEPT ![c] = r]

\* The pools a project has an allocation in, and the first one the store
\* lists; "" without an allocation.
Homes(project) ==
    {p \in DOMAIN PoolRows : <<p, project>> \in DOMAIN AllocRows}
Home(project) ==
    IF Homes(project) = {} THEN "" ELSE CHOOSE p \in Homes(project) : TRUE

GpuAllowed(s) ==
    LET p == Home(s.project)
    IN  p = "" \/ ClusterGpuIsolated(PoolRows[p].spec, GpuDefault,
                        Cardinality(DOMAIN ListAllocations(AllocRows, p)),
                        GpusOf(s))

Merged(row, edit) ==
    [prices  |-> IF "prices" \in edit.sections THEN edit.prices ELSE row.prices,
     quotas  |-> IF "quotas" \in edit.sections THEN edit.quotas ELSE row.quotas,
     budgets |-> IF "budgets" \in edit.sections THEN edit.budgets
                 ELSE row.budgets,
     seeded  |-> FALSE]

\* What a handler does once it knows the policy: a create goes on to its
\* GPU check and its lock, an edit to its write, a view is answered.
Knowing(c, row) ==
    LET r == req[c] IN
    CASE r.op = "view" -> NoRequest
      [] r.op = "edit" -> [op |-> "edit", pc |-> "write",
                           next |-> Merged(row, r.edit)]
      [] r.op = "create" /\ ~GpuAllowed(r.spec) -> NoRequest
      [] OTHER -> [r EXCEPT
                    !.policy = row,
                    !.pc = IF r.spec.project \in DOMAIN row.quotas
                           THEN "lock" ELSE "budget"]

\* effective_policy, first read.
ReadPolicy(c) ==
    /\ At(c, "policy")
    /\ Goto(c, IF policy # NoPolicy THEN Knowing(c, policy)
               ELSE IF SeedPolicy = NoPolicy THEN Knowing(c, DefaultPolicy)
               ELSE [req[c] EXCEPT !.pc = "seed"])
    /\ UNCHANGED << policy, clusters, samples, now, admit_locks, meter, load,
                    grants >>

\* Mutant: the seed overwrites whatever row is there.
InsertSeedOverwrites(c) ==
    /\ At(c, "seed")
    /\ policy' = SeedPolicy
    /\ Goto(c, Knowing(c, policy'))
    /\ UNCHANGED << clusters, samples, now, admit_locks, meter, load, grants >>

\* Insert-if-absent; who loses the race reads the row that won.
InsertSeed(c) ==
    /\ At(c, "seed")
    /\ policy' = IF policy = NoPolicy THEN SeedPolicy ELSE policy
    /\ Goto(c, Knowing(c, policy'))
    /\ UNCHANGED << clusters, samples, now, admit_locks, meter, load, grants >>

-----------------------------------------------------------------------------
(* Settings.                                                               *)

ViewPolicy(c) ==
    /\ req[c] = NoRequest /\ Spend("view")
    /\ Goto(c, [op |-> "view", pc |-> "policy"])
    /\ UNCHANGED << policy, clusters, samples, now, admit_locks, meter,
                    grants >>

\* Mutant: negative amounts pass.
ValidAmountsSigned(m) == TRUE

ValidAmounts(m) == \A k \in DOMAIN m : m[k] >= 0

\* Only the incoming sections are validated.
ValidEdit(e) ==
    /\ "prices" \in e.sections => ValidAmounts(e.prices)
    /\ "quotas" \in e.sections =>
        \A p \in DOMAIN e.quotas : ValidAmounts(e.quotas[p])
    /\ "budgets" \in e.sections =>
        \A p \in DOMAIN e.budgets :
            e.budgets[p].window > 0 /\ ValidAmounts(e.budgets[p].limits)

UpdatePolicy(c) ==
    /\ req[c] = NoRequest /\ Spend("edit")
    /\ \E e \in Edits :
        /\ ValidEdit(e)
        /\ Goto(c, [op |-> "edit", pc |-> "policy", edit |-> e])
    /\ UNCHANGED << policy, clusters, samples, now, admit_locks, meter,
                    grants >>

SetPolicy(c) ==
    /\ At(c, "write")
    /\ policy' = req[c].next
    /\ Goto(c, NoRequest)
    /\ UNCHANGED << clusters, samples, now, admit_locks, meter, load, grants >>

-----------------------------------------------------------------------------
(* Creation.                                                               *)

CreateCluster(c) ==
    /\ req[c] = NoRequest /\ Spend("create")
    /\ \E id \in Ids, s \in Bodies :
        Goto(c, [op |-> "create", pc |-> "policy", id |-> id, spec |-> s,
                 policy |-> NoPolicy])
    /\ UNCHANGED << policy, clusters, samples, now, admit_locks, meter,
                    grants >>

Project(c) == req[c].spec.project
Holds(c) == admit_locks[Project(c)] # << >>
            /\ Head(admit_locks[Project(c)]) = c

\* The guard is dropped with the request, whatever its answer.
DropGuard(c) ==
    admit_locks' = IF Holds(c)
                   THEN [admit_locks EXCEPT ![Project(c)] = Tail(@)]
                   ELSE admit_locks

\* tokio's mutex serves waiters in the order they came.
QueueForLock(c) ==
    /\ At(c, "lock")
    /\ admit_locks' = [admit_locks EXCEPT ![Project(c)] = Append(@, c)]
    /\ Goto(c, [req[c] EXCEPT !.pc = "admit"])
    /\ UNCHANGED << policy, clusters, samples, now, meter, load, grants >>

Charged(project, id) ==
    {k \in DOMAIN clusters \ {id} :
        clusters[k].spec.project = project /\ clusters[k].desired = "Running"}

TotalDemand(ids) ==
    FoldLeft(LAMBDA acc, k : AddMaps(acc, MaxDemand(clusters[k].spec)),
             EmptyTable, SetToSeq(ids))

\* Refused: the spec or a stored one does not parse, or the quota is exceeded.
Admissible(c) ==
    LET others == Charged(Project(c), req[c].id) IN
    /\ DemandOk(req[c].spec)
    /\ \A k \in others : DemandOk(clusters[k].spec)
    /\ Admit(req[c].policy.quotas[Project(c)], TotalDemand(others),
             MaxDemand(req[c].spec))

\* Mutant: the lock is not waited for.
AdmitQuotaUnlocked(c) ==
    /\ At(c, "admit")
    /\ IF Admissible(c)
       THEN Goto(c, [req[c] EXCEPT !.pc = "budget"]) /\ UNCHANGED admit_locks
       ELSE Goto(c, NoRequest) /\ DropGuard(c)
    /\ UNCHANGED << policy, clusters, samples, now, meter, load, grants >>

\* Mutant: a refused request keeps the lock.
AdmitQuotaLeaks(c) ==
    /\ At(c, "admit") /\ Holds(c)
    /\ Goto(c, IF Admissible(c) THEN [req[c] EXCEPT !.pc = "budget"]
               ELSE NoRequest)
    /\ UNCHANGED << policy, clusters, samples, now, admit_locks, meter, load,
                    grants >>

AdmitQuota(c) ==
    /\ At(c, "admit") /\ Holds(c)
    /\ IF Admissible(c)
       THEN Goto(c, [req[c] EXCEPT !.pc = "budget"]) /\ UNCHANGED admit_locks
       ELSE Goto(c, NoRequest) /\ DropGuard(c)
    /\ UNCHANGED << policy, clusters, samples, now, meter, load, grants >>

\* windowed_consumption over the budget's trailing window.
Start(window) == IF window > now THEN 0 ELSE now - window
Consumed(project, window) ==
    WindowedHours(samples, project, Start(window), now)

CheckBudget(c) ==
    /\ At(c, "budget")
    /\ LET budgets == req[c].policy.budgets
           p == Project(c)
       IN  IF /\ p \in DOMAIN budgets
              /\ ~AdmitBudget(budgets[p], Consumed(p, budgets[p].window))
           THEN Goto(c, NoRequest) /\ DropGuard(c)
           ELSE Goto(c, [req[c] EXCEPT !.pc = "upsert"])
                /\ UNCHANGED admit_locks
    /\ UNCHANGED << policy, clusters, samples, now, meter, load, grants >>

\* A new row runs; an existing one keeps its desired state.
UpsertDesired(c) ==
    /\ At(c, "upsert")
    /\ LET id == req[c].id
           desired == IF id \in DOMAIN clusters THEN clusters[id].desired
                      ELSE "Running"
       IN  clusters' = Put(clusters, id,
                           [spec |-> req[c].spec, desired |-> desired])
    /\ LET p == Project(c)
           quotas == req[c].policy.quotas
       IN  IF p \in DOMAIN quotas
           THEN granted' = Put(granted, p, quotas[p]) /\ UNCHANGED unchecked
           ELSE unchecked' = unchecked \cup {p} /\ UNCHANGED granted
    /\ DropGuard(c)
    /\ Goto(c, NoRequest)
    /\ UNCHANGED << policy, samples, now, meter, load >>

\* A store error anywhere before the write answers 500.
RequestFails(c) ==
    /\ \/ \E pc \in {"policy", "seed", "write", "budget", "upsert"} : At(c, pc)
       \/ At(c, "admit") /\ Holds(c)
    /\ Spend("fail")
    /\ IF req[c].op = "create" THEN DropGuard(c) ELSE UNCHANGED admit_locks
    /\ Goto(c, NoRequest)
    /\ UNCHANGED << policy, clusters, samples, now, meter, grants >>

-----------------------------------------------------------------------------
(* The other writers of cluster rows.  Resuming asks neither the quota nor *)
(* the budget.                                                             *)

SetDesired(id, d) == clusters' = [clusters EXCEPT ![id].desired = d]

Suspend(id) ==
    /\ Spend("suspend")
    /\ clusters[id].desired = "Running"
    /\ SetDesired(id, "Suspended")
    /\ UNCHANGED << policy, samples, now, admit_locks, req, meter, grants >>

Resume(id) ==
    /\ Spend("resume")
    /\ clusters[id].desired = "Suspended"
    /\ SetDesired(id, "Running")
    /\ unchecked' = unchecked \cup {clusters[id].spec.project}
    /\ UNCHANGED << policy, samples, now, admit_locks, req, meter, granted >>

Terminate(id) ==
    /\ Spend("delete")
    /\ clusters[id].desired # "Terminated"
    /\ SetDesired(id, "Terminated")
    /\ UNCHANGED << policy, samples, now, admit_locks, req, meter, grants >>

Purge(id) ==
    /\ Spend("purge")
    /\ clusters[id].desired = "Terminated"
    /\ clusters' = Drop(clusters, id)
    /\ UNCHANGED << policy, samples, now, admit_locks, req, meter, grants >>

-----------------------------------------------------------------------------
(* Metering.                                                               *)

Sample(project, pool, r, q) ==
    [ts |-> now, project |-> project, pool |-> pool, resource |-> r,
     quantity |-> q]

\* Per running cluster and resource, the demand at its smallest size.
ObservedSpec ==
    LET running == {k \in DOMAIN clusters :
                        clusters[k].desired = "Running"
                        /\ DemandOk(clusters[k].spec)}
        Readings(k) ==
            LET s == clusters[k].spec
                m == MinDemand(s)
            IN  SetToSeq({Sample(s.project, Home(s.project), r, m[r]) :
                            r \in DOMAIN m})
    IN  FoldLeft(LAMBDA acc, k : acc \o Readings(k), << >>, SetToSeq(running))

\* Readings of a status: rows -> resource -> quantity.  A quantity that does
\* not parse is skipped.  The rows are projects, or belong to none.
Parsed(pool, status, owned) ==
    LET cells == {x \in UNION {{<<row, r>> : r \in DOMAIN status[row]} :
                                row \in DOMAIN status} :
                    ParseQuantity(status[x[1]][x[2]]) # Bad}
    IN  [i \in 1 .. Cardinality(cells) |->
            LET x == SetToSeq(cells)[i]
            IN  Sample(IF owned THEN x[1] ELSE "", pool, x[2],
                       ParseQuantity(status[x[1]][x[2]]))]

\* Per pool that has a ClusterQueue: its flavors for the project "", then its
\* LocalQueues for theirs.
KueueLedger(report) ==
    FoldLeft(LAMBDA acc, p :
                acc \o Parsed(p, report[p].flavors, FALSE)
                    \o Parsed(p, report[p].queues, TRUE),
             << >>, SetToSeq(DOMAIN report \cap DOMAIN PoolRows))

\* A tick with nothing to record is over.
Collect(got) ==
    /\ meter = Asleep
    /\ meter' = IF got = << >> THEN Asleep ELSE [pc |-> "record", got |-> got]
    /\ UNCHANGED << policy, clusters, samples, now, admit_locks, req, grants >>

CollectObservedSpec == Spend("tick") /\ Collect(ObservedSpec)

CollectKueue ==
    Spend("ktick") /\ \E report \in QueueLedgers : Collect(KueueLedger(report))

RecordSamples ==
    /\ meter # Asleep
    /\ samples' = samples \o meter.got
    /\ meter' = Asleep
    /\ UNCHANGED << policy, clusters, now, admit_locks, req, load, grants >>

\* Errors are logged; the tick's samples are gone.
RecordFails ==
    /\ meter # Asleep /\ Spend("fail")
    /\ meter' = Asleep
    /\ UNCHANGED << policy, clusters, samples, now, admit_locks, req, grants >>

ClockAdvances ==
    /\ Spend("second")
    /\ now' = now + 1
    /\ UNCHANGED << policy, clusters, samples, admit_locks, req, meter, grants >>

-----------------------------------------------------------------------------
RequestStep(c) ==
    \/ ReadPolicy(c) \/ InsertSeed(c) \/ SetPolicy(c)
    \/ QueueForLock(c) \/ AdmitQuota(c) \/ CheckBudget(c) \/ UpsertDesired(c)

AdmissionNext ==
    \/ \E c \in Clients :
        \/ RequestStep(c)
        \/ ViewPolicy(c) \/ UpdatePolicy(c) \/ CreateCluster(c)
        \/ RequestFails(c)
    \/ \E id \in DOMAIN clusters :
        Suspend(id) \/ Resume(id) \/ Terminate(id) \/ Purge(id)
    \/ CollectObservedSpec \/ CollectKueue \/ RecordSamples \/ RecordFails
    \/ ClockAdvances

AdmissionSpec == AdmissionInit /\ [][AdmissionNext]_avars

\* A handler that can run is eventually run by the executor.
FairAdmissionSpec ==
    AdmissionSpec /\ \A c \in Clients : WF_avars(RequestStep(c))

-----------------------------------------------------------------------------
(* What a usage report and the metrics endpoint show.                      *)

\* One group per project and pool that has samples.
UsageGroups(from, to) ==
    [g \in {<<samples[i].project, samples[i].pool>> : i \in DOMAIN samples} |->
        LET mine == SelectSeq(samples, LAMBDA s : s.project = g[1]
                                                  /\ s.pool = g[2])
        IN  [r \in {mine[i].resource : i \in DOMAIN mine} |->
                ResourceHours(Series(mine, g[1], g[2], r), from, to)]]

Remaining(cap, used) == IF used > cap THEN 0 ELSE cap - used

BudgetStatus(p, budget) ==
    LET used == Consumed(p, budget.window)
    IN  [consumed  |-> used,
         remaining |-> [r \in DOMAIN budget.limits |->
                            Remaining(budget.limits[r], Amount(used, r))],
         exhausted |-> ~AdmitBudget(budget, used)]

\* The gauge of a series: its latest sample.
Gauge(project, pool, r) ==
    LET series == ByTime(Series(samples, project, pool, r), now)
    IN  series[Len(series)].quantity

-----------------------------------------------------------------------------
(* Properties.                                                             *)

\* Stored rows and locks have their shape; whatever edits, seeds and races come
\* together, a negative amount or an empty window in the policy row comes from
\* the file; a lock is queued for once per request.
RowsTyped ==
    /\ policy # NoPolicy => PolicyTyped(policy)
    /\ DOMAIN clusters \subseteq Ids
    /\ \A k \in DOMAIN clusters :
        /\ DOMAIN clusters[k] = {"spec", "desired"}
        /\ clusters[k].desired \in {"Running", "Suspended", "Terminated"}
    /\ \A p \in Projects : IsInjective(admit_locks[p])
                           /\ ToSet(admit_locks[p]) \subseteq Clients

\* Type invariant: rows, locks and samples have their shape.
AdmissionTypeOK ==
    /\ RowsTyped
    /\ \A i \in DOMAIN samples : samples[i].quantity \in Nat
                                 /\ samples[i].ts <= now

\* Quota admission (create_cluster holds the project's lock from its list to
\* its upsert): the largest demand of a project's running clusters together
\* stays within the limit its last create was admitted under, however creates,
\* deletes and policy edits interleave, unless demand was added without a
\* check: by a create while the project had no quota, or by a resume.
QuotaHolds ==
    \A p \in DOMAIN granted \ unchecked :
        FitsWithin(TotalDemand(Charged(p, "")), granted[p])

\* seed_policy inserts only when there is no row: once an administrator's edit
\* is stored, no request that read the absent row earlier brings the file's
\* seed back.
EditsOutliveSeed ==
    [][policy # NoPolicy /\ ~policy.seeded =>
        policy' # NoPolicy /\ ~policy'.seeded]_avars

\* Every create, edit and view is answered: no refusal, error or admission
\* leaves the project's lock taken, and nobody waits for it for ever.
RequestsAnswered == \A c \in Clients : req[c] # NoRequest ~> req[c] = NoRequest

\* What resource_hours integrates is the area under the step function of the
\* readings: at second t the level is the last reading at or before t, and
\* unknown history counts nothing.  For every window and recorded series,
\* several readings at one second and gaps between ticks included.
LevelAt(series, t) ==
    LET known == {i \in DOMAIN series : series[i].ts <= t}
        latest == {i \in known : \A j \in known : series[j].ts <= series[i].ts}
    IN  IF known = {} THEN 0 ELSE series[Max(latest)].quantity
Labels == {[project |-> samples[i].project, pool |-> samples[i].pool,
            resource |-> samples[i].resource] : i \in DOMAIN samples}
SeriesOf(l) == Series(samples, l.project, l.pool, l.resource)
IntegralIsArea ==
    \A l \in Labels : \A from, to \in 0 .. now :
        ResourceHours(SeriesOf(l), from, to) =
            MapThenSumSet(LAMBDA t : LevelAt(SeriesOf(l), t), from .. to - 1)

\* The report, the metrics and admission tell one story: the groups of a
\* report add up to the consumption budgets are charged with, a budget is
\* shown exhausted exactly when some capped resource has nothing remaining,
\* the gauge of a series is its level at this second, and the estimate shown
\* for a cluster costs no less at its largest size than at its smallest, where
\* no price of the file is negative.
ReportsAgree ==
    /\ \A p \in Projects, from \in 0 .. now :
        LET used == WindowedHours(samples, p, from, now)
            groups == UsageGroups(from, now)
        IN  \A r \in DOMAIN used :
                used[r] = MapThenSumSet(LAMBDA g : Amount(groups[g], r),
                                        {g \in DOMAIN groups : g[1] = p})
    /\ policy # NoPolicy => \A p \in DOMAIN policy.budgets :
        LET status == BudgetStatus(p, policy.budgets[p])
        IN  status.exhausted <=>
                \E r \in DOMAIN status.remaining : status.remaining[r] = 0
    /\ \A l \in Labels :
        Gauge(l.project, l.pool, l.resource) = LevelAt(SeriesOf(l), now)
    /\ policy # NoPolicy /\ Amounts(policy.prices) => \A k \in DOMAIN clusters :
        DemandOk(clusters[k].spec) =>
            LET cost == Estimate(policy.prices, clusters[k].spec)
            IN  cost.min <= cost.max

-----------------------------------------------------------------------------
(* What makes them inductive.                                              *)

\* Where a handler asks for the policy; without a file there is no seed.
Asking == {pc \in {"policy", "seed"} : pc = "seed" => SeedPolicy # NoPolicy}

\* A request in flight has the fields its handler keeps.  Only one that found
\* a quota comes to the lock; only an edit comes to write.
RequestTyped(r) ==
    \/ r = NoRequest
    \/ r.op = "view" /\ DOMAIN r = {"op", "pc"} /\ r.pc \in Asking
    \/ /\ r.op = "edit" /\ DOMAIN r = {"op", "pc", "edit"}
       /\ r.pc \in Asking /\ r.edit \in Edits /\ ValidEdit(r.edit)
    \/ /\ r.op = "edit" /\ DOMAIN r = {"op", "pc", "next"}
       /\ r.pc = "write" /\ PolicyTyped(r.next) /\ ~r.next.seeded
    \/ /\ r.op = "create" /\ DOMAIN r = {"op", "pc", "id", "spec", "policy"}
       /\ r.pc \in Asking \cup {"lock", "admit", "budget", "upsert"}
       /\ r.id \in Ids /\ r.spec \in Bodies
       /\ r.pc \in {"lock", "admit"} => r.spec.project \in DOMAIN r.policy.quotas

\* A create of project p under a quota on its way through the lock, and one
\* that is past its admission.
Queued(r, p) ==
    /\ r.op = "create" /\ r.spec.project = p
    /\ r.pc \in {"admit", "budget", "upsert"} /\ p \in DOMAIN r.policy.quotas
Admitted(r, p) == Queued(r, p) /\ r.pc # "admit"

\* The queue of a lock is made of the creates that wait for it and, before
\* them, the one that was admitted.
LockInv ==
    /\ DOMAIN req = Clients /\ \A c \in Clients : RequestTyped(req[c])
    /\ DOMAIN admit_locks = Projects
    /\ \A p \in Projects :
        /\ admit_locks[p] \in Seq(Clients) /\ IsInjective(admit_locks[p])
        /\ \A c \in Clients :
            /\ Queued(req[c], p) <=> c \in ToSet(admit_locks[p])
            /\ Admitted(req[c], p) => Head(admit_locks[p]) = c

\* Between its admission and its upsert a create under a quota is alone: no
\* other create of the project is admitted against the same list of clusters.
AdmittedAlone ==
    \A p \in Projects : \A c, d \in Clients :
        Admitted(req[c], p) /\ Admitted(req[d], p) => c = d
=============================================================================
