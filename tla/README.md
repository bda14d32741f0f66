# Verification of the mobula control plane

TLA+ models of the mobula control plane (`crates/` of the repository), checked
with TLC on small instances and, for the properties that matter most, proved
with TLAPS for every value of the constants. `PROJECT.json` maps every
definition to the lines it models.

## The system

mobula is a control plane for Ray (and Dask) clusters on Kubernetes. One
process serves an HTTP API over a database of *desired* state and runs loops
that drive the provider towards it.

| Part | Where | Modules |
|---|---|---|
| Reconcile engine: observe, decide, actuate, re-observe; reapers; backoff; token bucket; restore quarantine | `mobula-controller/src/reconcile.rs` | `ClusterLifecycle`, `ActuationPacing`, `Pacing`; idle reaping in `JobPlane` |
| Store contract | `mobula-controller/src/store.rs` | `ClusterStore`, `Capacity`, `AuditTrail`, `Identity` (operators), `AtomicStore` (contract) |
| SQL stores | `store_sqlite.rs`, `store_postgres.rs` | `SqlStatements`, `SqlStore`, `SqlRefinement` |
| Cluster vocabulary | `mobula-core/src/cluster.rs` | `ClusterStore`, `Policy` |
| Cluster API | `mobula-api/src/clusters.rs` | `ClusterLifecycle` (against the loop), `Admission` (against quota and budget) |
| KubeRay provisioner | `mobula-provision/src/kuberay*.rs` | `ClusterLifecycle` |
| Engine router, Dask client | `router.rs`, `dask_client.rs` | `EngineRouter` |
| Lifecycle bring-up | `mobula-cli/src/main.rs` | `ClusterLifecycle` (boot and restart) |
| Pool reconcile, pool API, Kueue client | `pool_reconcile.rs`, `pools.rs`, `kueue*.rs`, `mobula-core/src/pool.rs` | `Capacity`, `PoolReconcile` |
| Quota, budget, prices, settings | `mobula-policy`, `settings.rs` | `Quantity`, `Policy`, `Admission` |
| Metering, usage reports | `metering.rs`, `usage.rs` | `Policy`, `Admission` |
| Authentication, access control | `mobula-auth/src/lib.rs`, `local.rs`, `auth_layer.rs`, `local_auth.rs`, `access.rs` | `Identity`, `AccessControl` |
| Audit trail | `mobula-core/src/audit.rs`, `mobula-api/src/audit.rs` | `AuditTrail`, `AccessControl`, `SqlStore` |
| Job gateway, job history, reads of a cluster | `gateway.rs`, `job_history.rs`, `cluster_obs.rs`, `mobula-core/src/registry.rs` | `JobPlane`, `EngineRouter` |
| Services, standalone proxy, OIDC client flows, manifests, demo, crypto, API assembly | the rest | not modelled (below) |

How they interact: an API handler writes a row (`upsert_desired`,
`set_desired`, `remove_cluster`). Every tick the loop reaps expired clusters,
old intents and tombstones, then lists the rows and reconciles them one by one:
it observes the provider, compares with the *listed* row, opens an intent in
the outbox, calls the provider, completes the intent, observes again and
records what it saw. Handlers, the provider and crashes interleave with every
store or provider call of the loop, since each is an await. Beside it run the
pool loop (the same pattern for Kueue objects), the metering loop, the refresher
of the job history, and the handlers; every request passes bearer resolution
and authorization and ends in an audit row.

## Modules

| Module | Models |
|---|---|
| `Pacing` | `backoff_secs`, `TokenBucket::try_take` as pure operators |
| `ClusterStore` | rows, intents and the store operations on them, as operators from a table to a table; the predicates of the reapers and `needs_apply` |
| `ClusterLifecycle` | the state machine: reconcile loop, API handlers, provider, faults |
| `ClusterProperties` | the properties of `ClusterLifecycle` and the inductive invariants behind them |
| `ActuationPacing` | the pacing of provider calls: backoff gate, shared bucket, accounting, with its properties |
| `Tables` | tables as functions on their keys |
| `Quantity`, `Policy` | Kubernetes quantities; demand, quota, budget, price and usage arithmetic |
| `Capacity` | pools: validation, GPU tenancy, rows, views, and the translation to Kueue objects |
| `PoolReconcile` | pool handlers, the pool loop, Kueue, faults |
| `Admission` | cluster creation under the per-project lock, settings, metering, reports |
| `Identity`, `AuditTrail` | permissions, identities, lockout; the hash chain, its windows and pages |
| `AccessControl` | a request from its bearer to its audit row: accounts, tokens, OIDC keys, bindings |
| `JobPlane` | extends it with the gateway, the job history and idle reaping |
| `EngineRouter` | extends that with the router in front of Ray and Dask, and the pass that uses it |
| `SqlStatements`, `SqlStore` | the two SQL stores, statement by statement |
| `AtomicStore`, `SqlRefinement` | the abstract store, and the mapping by which `SqlStore` implements it |
| `MC...` | small instances: workloads, symmetry |
| `ClusterTypeProofs`, `ClusterLifecycleProofs` | theorems about `ClusterLifecycle` and `ClusterProperties` |
| `LimitProofs` | theorems about `ActuationPacing` and `Admission` |
| `PoolProofs`, `SqlStoreProofs` | theorems about `PoolReconcile`, and about `SqlStore` and its refinement |
| `RequestProofs`, `RouterProofs`, `HistoryProofs` | theorems about `AccessControl`, `JobPlane` and `EngineRouter`, all for `RouterSpec` |

In every state machine the environment (commands, errors, crashes, seconds) is
bounded by `load`, a budget per kind of event chosen from `Workloads` in the
initial state.

### State and actions of ClusterLifecycle

* `rows`, `intents`, `quarantined`: the database. Each store call is one step:
  the SQL stores run a read-modify-write in one transaction.
* `backing`, `netpol`: RayClusters and per-cluster NetworkPolicies at the
  provider. A RayCluster is its generation annotation, the fingerprint of the
  owned fields, `spec.suspend`, the queue label and the state its status
  reports. `apply` does not write the status.
* `pc`, `todo`, `snap`, `passNow`, `cur`, `obs`, `queue`, `act`, `cond`: the
  local variables of the loop. `snap` holds the rows of the pass as listed.
* `pending`: purge, suspend and resume requests between their read and their
  write. Create and delete write whatever they read, so they are one step.
* `load`: the workload of the behaviour, that is, how many commands, errors,
  crashes and so on it may hold, and how many it has had. A property that is
  claimed only while some kind of event has not happened says so with `Never`.

The loop goes `boot` (`DetectStaleRestore`) -> `idle` -> `reap` (`ReapList`,
`ReapExpired`, `ReapIntentsPass`) -> `sweepList`/`sweep` (`SweepList`,
`ReapTerminated`) -> `pass` (`PassList`), and for each row `ReconcileOne` ->
`Decide` or `ObserveOnly` -> `BeginApply`, `Apply`, `CompleteApply` or
`Terminate` or `Suspend` -> `Reobserve` -> `RecordStatus` -> `RecordCondition`
-> `RecordProgress`. An error of a provider call may be reported before,
between or after its writes and ends the cluster's turn, as `?` does.

Abstractions: a spec is a body (all that `spec_changed` compares) and an owner.
Rows are visited in any order. Deletion of a RayCluster takes effect at the
call (no finalizers). Suspend/resume read the row and the queue assignment in
one step; the write is separate. The namespace posture is not modelled, and no
administrator runs a default-deny NetworkPolicy of their own (with one,
`ensure_cluster_allow` writes no per-cluster policy and `netpol` stays empty).
The provider here is KubeRay alone; `EngineRouter` has the two backends. The
operator's clearing of the quarantine flag is external: no route of the API
does it.

### State and actions of the other state machines

`PoolReconcile`. `pools`, `allocs`, `intents`, `quarantined` are rows; `kueue`
maps a reference (kind, namespace, name) to an object and the pool in its label;
`converged` is the applied-set in memory, which `Restart` empties; `forgotten` is a
history variable for the pools the process lost track of. A pass is `BeginPass`,
per pool `Observe` (the ledger), `CheckQuarantine`, `CheckApplied` and
`BeginIntent` (the outbox), one `ApplyManifest` per object and `CompleteIntent`,
then `Sweep`, which tears down object by object the pools that
vanished. Handlers have one step per store call.

`Admission`. `admit_locks` is the queue of each project's lock. A create reads
the policy, takes the lock, lists the clusters, checks quota, budget and GPU
tenancy and upserts, and may fail at each await. An edit of the policy reads,
perhaps seeds, merges and writes. A metering tick collects samples and records
them later. Pools and allocations are constants here; amounts are whole
thousandths (CPU, GPU) or MiB.

`AccessControl`, `JobPlane`, `EngineRouter`. `req[c]` is the request of a client
and where it is. Resolution looks up the token, then the user, or validates a
JWT against `keys` with at most one refresh; authorization may read bindings;
then the handler of the route runs. Route kinds without state of interest are
one kind, `work`. `seen` records what a bearer stood for at any moment since its
request arrived. A hash of the audit chain is modelled by what it was computed
from, so it is injective; a password or signature is right or wrong.
`inflight` and `obs_inflight` are the two semaphores; a bridge keeps its permit
until both of its ends are closed (`BridgeCloses`). A store error in a login or
a token's issue ends it where it stands (`CredentialFails`). Of the reconcile
pass `EngineRouter` keeps what reaches the router, and of the create handler that
a posted spec replaces the row's, its engine included (`UpsertCluster`). `guess`,
`misled` and `left` are history variables: answers about to be cached without
ground, ids with such an entry, and CRs of an engine the cluster no longer has.

`SqlStore`. A caller is idle, has started, holds its locks or has read. SQLite's
`BEGIN IMMEDIATE` is one lock for all writers that read first; on Postgres a
lock is `HashText` of the key, which may collide. Uncommitted writes are
invisible and block writers of the same row, so a write and its COMMIT are one
step. On SQLite a COMMIT that fails leaves its pooled connection inside the
transaction (`LeavesOpen`, `stranded`): until the pool closes it, other
connections wait for the write lock until `busy_timeout` (`TimesOut`), and writes
on it are acknowledged and lost (`LostWrite`). On Postgres the reply to a commit
may be lost (`Says`). Each action stands for the statement of both stores; the map names one of
them. `record_job` follows the SQL stores, which keep cluster, submitter and
time of an existing row; the in-memory store replaces it.

## Runs

Every run of `MCClusterLifecycle` has one cluster id and one request in flight;
rows interact only through the shared token bucket, which is the subject of
`ActuationPacing`, and through the one abort of a reap pass.

| Run | Shows |
|---|---|
| `Lifecycle` | safety under six workloads (about 2.4 million states): the outbox logs first, backoff is respected, no stomp after a restore that the boot check saw, the fence holds, the loop does not fight the queue, no orphan and no leaked NetworkPolicy while nobody purges |
| `Converge` | after the last command, error, crash and edit: generation and state converge, teardown completes, persistent drift is alarmed, also when the project's queue comes and goes |
| `Retire` | expired clusters are released, suspension converges, tombstones are swept |
| `Pacing` | two clusters, capacity 2, refill 1, backoff 1..3, six seconds: rate bound of any window, exponential spacing |
| `Pools` | two pools that share a cohort and a flavor: whatever requests, errors, crash or quarantine came before, Kueue converges to the rows, a pass begun under quarantine changes nothing, and objects without a pool are only ones the process lost track of |
| `Governance` | quota is not overrun by interleaved creates, edits and deletes; nobody waits for ever on a project's lock; an administrator's edit is not replaced by the seed, and what is negative in the policy row came with the file; the usage integral is the area under the readings; report, budget and gauge agree |
| `Requests` | a request acts only on authority its bearer had since it arrived; paging and replay of the trail are exact under concurrent appends; JWKS requests are spaced; permits are accounted for; the idle reaper spares busy clusters; the router's cache names the backend that has the CR, also while specs and engines are replaced (about 400 thousand states) |
| `SqlStore` | both SQL stores implement the atomic store; the audit chain replays after any crash; every call returns, also behind a transaction that was left open |
| `PurgeRace`, `RecreateTerminated`, `OwnerChange`, `DegradedRollout` | statements of comments that the code does not keep (below) |

Bounds. Two bodies are enough for a stale and a current spec, three creates for
a generation behind a backup and one ahead of it. One error, one crash and one
out-of-band change in the same behaviour give every pair of a fault with a
command at every await. Retentions, ttl and backoff are 1 or 2 seconds so that
the clock reaches both sides of each. The clock may pass the workload's bound
while a row is in backoff, so that a bound never looks like a stuck system.
The bodies are interchangeable in `Lifecycle` (no ttl), hence its symmetry; it
checks no liveness.

The other runs have two clients (or callers), since the races of these handlers
are between two, and one or two of each resource: permits, page size and lockout
threshold are 1 or 2 so that the limit is reached. In `Pools` two pools share
every kind of object that pools can share. In `SqlStore` one cluster id, its
intent key and a pool whose locks collide in two classes. Each workload pairs
the events whose interleaving matters; each `MC` module lists them with a comment. Where `CHECK_DEADLOCK FALSE` is set, the workload
is simply used up.

Fairness (`FairSpec`). Weak fairness of the loop (a spawned task whose ticker
always fires), of handlers that have read their row, of the clock, and of the
provider settling what was asked of it. Nothing is assumed of commands, faults,
Kueue's admission or the recovery of failing pods. `FairPoolSpec`: the pool loop,
started requests, and the intent reaper of the cluster loop for the current
intents. `FairAdmissionSpec`: started requests (the lock is a fair queue, as
tokio's is). `FairSqlSpec`: started calls, `busy_timeout` (`store_sqlite.rs:227`)
running out for a call that stays blocked, and the boot; nothing is assumed of
the pool, which may never close a connection. `Requests` checks no
liveness.

### What the code does that a comment says it does not

* `PurgeRace`: "purge can never race a teardown" (`clusters.rs:656`). A row
  deleted before it was ever observed is purgeable; the pass that listed it
  earlier still applies it, and no row accounts for the RayCluster afterwards.
* `RecreateTerminated`: "Desired state recorded; reconciler will converge"
  (`clusters.rs:307`). A create on a row being terminated keeps Terminated.
* `OwnerChange`: "Two specs that produce the same generation must produce the
  same fingerprint" (`store.rs:153`). The owner is in one and not the other.
* `DegradedRollout`: needs_apply's comment (`reconcile.rs:713`) says a cluster
  behind its generation is applied. One observed Degraded is not.

Limits the properties carry in their hypotheses, where the code offers no more:

* the boot check compares only clusters that have a row, and starts unfenced
  when it gets an error; a cluster whose row was removed, or lost by a restore,
  and that is created again starts over at generation 1, below the RayCluster it
  left behind (`KnownNeverRollsBack`, whose hypothesis `RowsLast` names these);
* a purge removes a row without reaping its NetworkPolicy (`NoPolicyLeak`);
* a crash or error between an apply and its observation lets the sweep take a
  row whose RayCluster exists (`SweepLeavesNoOrphan`);
* a suspend or resume in flight overwrites a delete (`TombstonesSwept`);
* a suspended RayCluster of a project that has a queue is left to Kueue, with or
  without the queue's label (`LeftToQueue` in `GenerationConverges`, `ComesUp`);
* a cluster whose row was swept and that is created again with another spec,
  before the intent of its old generation 1 is reaped, is refused as a parameter
  mismatch until then (`ComesUp` says "ends up", not "at once");
* a row that was removed by a purge, or by the sweep after an error or a crash,
  may leave its RayCluster for good (`TeardownConverges`);
* the quarantine fences RayClusters; the reapers still run (`QuarantineFence`);
* an apply that answers an error is not backed off: only the bucket bounds it
  (`RetrySpaced`, `RateBound`).

Of the other modules:

* a pool whose first apply failed half way, or that was deleted around a
  restart, leaves objects no pass finds again (`forgotten` in
  `OrphansExplained` and `VanishedTornDown`);
* a pool changed and changed back is re-applied only after its old intent is
  reaped (`PoolConverges` says "again and again", not "at once");
* resume asks neither quota nor budget, and a create in a project without a
  quota is not checked against one set later (`unchecked` in `QuotaHolds`);
* two edits of different policy sections may lose one: `update_policy` writes
  back the whole row it read (`EditsOutliveSeed` is about the seed only);
* concurrent failed logins may count once (`AccessTypeOK` bounds the counter);
* a read that finds no Dask cluster, or whose probe fails, caches Ray; until the
  next apply a terminated Dask cluster may then be taken as gone (`misled` in
  `CacheNamesOwner`). A spec that changes its engine leaves the old CR behind for
  good (`left`), and a read whose probe finds that CR caches its engine;
  `spec_changed` does not compare the engine, so a change of it alone raises no
  generation and is applied only when something else asks for an apply;
* idle time runs from the end of the last job, computed as its submission plus
  its duration, so time spent pending counts as idle; a job submitted after the
  history was read does not save the cluster; jobs of a cluster that cannot be
  reached stay unfinished, so it is never idle; nothing refuses an
  `idle_timeout_secs` of 0, and `is_idle_expired` then reaps a busy cluster, since
  0 seconds have passed since its last activity (`IdleReapSparesBusy`);
* nobody validates the policy file: its sections are stored as they are, negative
  amounts included, and admission then computes with them (`FromFile` in
  `AdmissionTypeOK`, the hypothesis on prices in `ReportsAgree`);
* on Postgres `remove_cluster` and `delete_pool` take no advisory lock, so a row
  removed between an upsert's read and its insert comes back with its generation
  counted on (`ReviveCall`, `RevivePoolCall` of `AtomicStore`);
* on SQLite, from a COMMIT that fails until its connection is closed,
  acknowledged writes may be lost (`LostCall`), and audit rows may then be chained
  to one that is lost (`TrailChained`); on Postgres a call may take effect and be
  told of an error (`Says`).

Seen while modelling, and stated by no property:

* allocations survive `delete_pool`, and `put_allocation` checks GPU tenancy and
  writes in two calls, so a time-sliced pool may end up with several tenants,
  which `check_pool_gpu_isolation` (`gpu.rs:71`) refuses;
* samples of several clusters at one second form one series, of which the last
  counts, and no zero is recorded when a project's clusters stop;
* `update_user` writes role, disabled flag and password in three calls; when the
  second fails the first stays, and requests in between act on the mixture;
* an error of the one discovery call for Kueue reads as absent until the next
  restart, so one failed request at startup turns pools off (`Restart`);
* a proxied request whose upstream fails leaves no audit row, although
  `gateway.rs:280` says "every proxied request, one row".

## Proofs

Thirty theorems, checked by TLAPS. Sets of ids, specs, owners, clients, callers,
pools, users, tokens, jobs and clusters are arbitrary in all of them, and so is
the workload: nothing below rests on the bounds of the runs.

Assumptions on constants, which TLC evaluates in the runs:

| Assumption | Says | Justified by |
|---|---|---|
| `TtlAssumption`, `ConstantsAssumption`, `PacingAssumption`, `CooldownAssumption` | the numbers are natural numbers | their types |
| `CeilAssumption` | the backoff ceiling is reached before the shift of `backoff_secs` is capped | base 5, ceiling 300 (`reconcile.rs:62`) |
| `GovernanceAssumption` | specs name a project, a policy file has the sections of a policy, the amounts of an edit are numbers; nothing is assumed of the file's amounts | the types of `parse_policy` and `UpdatePolicy` |
| `PoolAssumption`, `OldRowsAssumption` | the lists of flavors and of old audit rows are sequences; projects are finitely many | |
| `PageAssumption`, `AccountAssumption` | page limit and lockout threshold are positive; rows at startup are ones these rules wrote | `effective_limit`, the constants of `store.rs` |
| `PermitAssumption`, `FleetAssumption` | there is a name for every bridge; an idle timeout is absent or a natural number, 0 included | `Option<u64>` in `ClusterSpec` |
| `RouterAssumption` | engines are `ray` or `dask`; at startup a cluster has one CR at most and what is cached of it is right | the router starts empty, and only the observes of the boot check come before |

### Clusters

* `TypeCorrect`: `Spec => []TypeOK`. The conjunct that needs an argument is that
  the cluster in hand is a row of the pass. One lemma per store operation; the
  step proof has one case per action.
* `TaskInvariant`: `Spec => []TaskInv`, four facts that hold only together with
  `TypeOK`: an apply about to go out has its intent for the row in hand
  (`IntentLogged`); between listing and visit nobody moves a row's next attempt
  later (`SnapshotNotEarlier`), because only the visit does; a Running row in
  hand was due when the pass began (`PastGate`); no actuation is in flight under
  quarantine, because the flag rises only at boot (`FencedOff`).
* `OutboxLogsFirst`, `BackoffHolds`, `FenceHolds`: the action properties that
  follow.
* `SweepLeavesNone`, `PoliciesAccounted`: from `SweepInv`, which says why the
  sweep is safe: whatever a pass works on still has its row, because only the
  sweep between two passes removes one (`PolicyHasRow`), and a RayCluster whose
  row says it is gone is the one just written, which the same turn records
  (`DeadRowsAreDead`).
* `NoStomp`: no RayCluster is taken to an older generation, except by the repair
  of a suspension that no queue owns. From `ObservedBehind`: nobody but the turn
  moves a generation, so one that was behind when observed is behind when applied.
* `RestoreTakesNoneBack`: for the clusters a backup has rows for, not even that
  repair. `KnownCovered`: as long as no row is removed, every RayCluster has a
  row until the restore, and those of the backup have one after it; and neither
  the rows nor those of a pass are behind one, unless the loop is fenced off or
  has yet to boot. It needs that the flag rises only at boot (`FencedOff`) and
  that nothing is in hand outside a pass (`SnapOnlyInPass`).
* `QueueKeepsSuspend`: from the same invariant, the loop does not unsuspend what
  Kueue holds.

### Pacing and governance

* `BucketInvariant`, `RateLimitHolds`: calls since any pass plus the tokens
  left are covered by the capacity and the refill up to the bucket's last
  refill. The bound on calls alone is not inductive.
* `RetriesSpaced`: two applies of a cluster that keep coming to nothing are as
  far apart as the doubling wait asks, for any base and ceiling. `RetryInv`: the
  row counts the failures and holds the wait that follows from them. `Wait` is
  what the spacing should be; that `backoff_secs` with its capped shift computes
  it is `BackoffIsWait`.
* `AdmittedOneByOne`: two creates of a project with a quota are never both
  between their list of clusters and their upsert. `LockInv` ties each project's
  queue to the requests: exactly those that wait or hold are in it, once, and one
  past its check is at the head, through every error and refusal.
* `RowsStayTyped`: whatever edits, seeds and races come together, each section of
  the policy row is the file's or has no negative amount and no empty window; rows
  keep their shape. It is the part of `AdmissionTypeOK` that is not about sums of
  samples. An edit merges into a row it read earlier, so the proof carries the
  same fact about the copies that requests hold.
* `SeedNeverReturns`: an administrator's edit is not replaced by the seed.

### Pools

* `PoolTypeCorrect`: with the fact that the plan in hand is of the pool in hand
  (`PlanIsOfPool`), without which a patch could be labelled with another pool.
* `QuarantinedPassLeavesKueue`: a pass that begins under quarantine never gets
  past the flag (`FencedPassReads`).
* `NoOrphanUnexplained`: whatever carries a pool's label is of a pool the process
  remembers or applies right now, or one a restart or failed turn forgot.

### SQL stores

* `ReadsStayTrue`: `SqlSpec => [](TxInv /\ TrailOK)`. `TxInv` says what a call
  in its transaction may rely on: the locks of its key are its own, and what it
  read still holds (an upsert's row is there with the spec and generation it
  saw, an intent key it found free is free), but for a removal on Postgres,
  which `retired` and `dropped` then record. One lemma per statement; the heart
  is `Exclusive`: two calls on one key share a lock whatever the hash does.
* `SqlRefinesAtomic`: `SqlSpec => ImplementsStore`. The mapping is the identity
  on the tables and forgets the hashes of the trail. A start, a lock, a read, a
  failure before the write and a crash are stutters or a failed call; each
  writing statement is the one instant of its call, which needs `TxInv` because
  it writes what was computed from an earlier read.
* `TrailReplays`: the trail replays whenever the store serves. `ChainInv`: the
  rows with a hash come first, each follows from the one before, and the tail an
  append has read is still the tail, because of the audit lock, as long as no
  transaction was left open.

### Requests

* `ActsOnCurrentAuthority`: `AuthorityInv` adds the shape of a request at each of
  its steps and that `seen` has what its token stands for now.
* `RefreshesSpaced`: the refresh slot is the time of the last fetch
  (`SlotIsLastFetch`), since a request that claims it does so in one step.
* `AccountsStayTyped`: `AccountInv` says of each request about to write that the
  account it read exists and that the value it writes is one the row may have;
  accounts are never removed, so what it read stays true.
* `PermitsBalance`: by the cardinality of the holders of each semaphore.
* `CacheIsRight`: what is cached and every answer still to be cached names the
  engine of the RayCluster or DaskCluster that is there or about to be made
  (`AnswersRight`), of which there is one at most (`OneOwner`), since an apply with
  another engine turns the one before into one left behind. Rows may change their
  engine at any time; an answer is excused only where `guess` says so.
* `EveryWindowReplays`, `TrailReadFaithfully`: each row follows from the one
  before, so any window replays from the hash before it. A reader has exactly
  the matching rows at or past its cursor among those of its first page's time
  (`WalkExact`); rows appended since are newer and do not shift the pages.
* `ReapSparesBusy`: `HistoryInv` carries one fact through the refresher's and the
  reaper's copies of the history: a job called finished has finished on its head,
  and times lie in the past. A timeout of 0 is covered: it only gives up that the
  jobs have ended.

### Only model-checked

* All liveness: fairness and `ENABLED` are out of the prover's reach.
* `QuotaHolds`, `IntegralIsArea`, `ReportsAgree` and the part of
  `AdmissionTypeOK` about samples: sums over clusters and samples are folds, of
  which nothing can be proved here without induction over data. What
  `QuotaHolds` needs of the lock is `AdmittedOneByOne`.

`ActuationPacing` assumes a clock that does not step back, whole token rates
(20 and 5 in the code) and one process: a restart starts with a full bucket.

## Not modelled

* Manifest contents of Ray and Dask clusters (`kuberay.rs`, `dask.rs`) beyond
  generation, fingerprint, suspend and queue: pure translations whose fields no
  property tells apart.
* Services (`services.rs`): a stateless forwarding of RayService manifests.
* The standalone proxy (`mobula-proxy`): stateless and library-only.
* The OIDC flows of the command line (`flows.rs`): one user's HTTP requests.
* The demo provisioner, `crypto.rs`, route tables and OpenAPI (`lib.rs` of the
  API), command-line parsing and client subcommands.
* In SQLite's store, a future dropped between `BEGIN IMMEDIATE` and COMMIT, which
  leaves the connection as a failed COMMIT does; and calls other than writes and
  the read of the audit tail on such a connection, which read uncommitted rows.
* Schema migrations, TLS, metrics formatting, logging.
* Suspend, resume and list through the engine router, which use the same lookup.
