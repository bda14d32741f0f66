---------------------------- MODULE AtomicStore -----------------------------
(***************************************************************************)
(* What mobula-controller/src/store.rs promises of a Store: every call     *)
(* takes effect at one instant between its start and its answer, or fails  *)
(* without effect.  The effects are the operators of ClusterStore.  What   *)
(* the SQL stores fall short of is stated as concessions: ReviveCall and   *)
(* RevivePoolCall, the lost reply of Says, and LostCall.                   *)
(***************************************************************************)
EXTENDS ClusterStore, Sequences

CONSTANTS
    Calls,      \* [op, ...]: the calls with their arguments
    Callers,    \* the tasks that call the store
    OldRows     \* audit events already in the database

VARIABLES
    backend,    \* "sqlite" or "postgres"
    stranded,   \* a SQLite connection of the pool has a transaction left open
    clusters, intents,
    samples,    \* usage_samples: the set of batches recorded
    quarantine,
    pools,
    rows,       \* the other tables: allocations, control, jobs, users, tokens
                \* and assignments
    audited,    \* audit_events, without the hashes
    now,
    retired,    \* history: id -> generation of the row last removed
    dropped,    \* history: pool -> generation of the row last deleted
    answer      \* what each caller was last told: <<kind, number>>

db == << backend, stranded >>
admin == << pools, dropped, rows >>
avars == << db, clusters, intents, samples, quarantine, admin, audited,
            now, retired, answer >>

\* Concession: a call on Postgres may take effect and be told of an error, as
\* when the connection is lost with the reply to COMMIT.
Says(c, kind, n) ==
    \/ answer' = [answer EXCEPT ![c] = <<kind, n>>]
    \/ backend = "postgres" /\ answer' = [answer EXCEPT ![c] = <<"error", 0>>]

AtomicInit ==
    /\ backend \in {"sqlite", "postgres"} /\ stranded = FALSE
    /\ clusters = EmptyTable /\ intents = EmptyTable /\ retired = EmptyTable
    /\ samples = {} /\ quarantine = FALSE
    /\ pools = EmptyTable /\ dropped = EmptyTable
    /\ rows = [allocations |-> EmptyTable, control |-> EmptyTable,
               jobs |-> EmptyTable, users |-> EmptyTable, tokens |-> EmptyTable,
               assignments |-> EmptyTable]
    /\ audited = OldRows
    /\ now = 0
    /\ answer = [c \in Callers |-> <<"none", 0>>]

-----------------------------------------------------------------------------
UpsertCall(c, k) ==
    /\ k.op = "upsert"
    /\ clusters' = UpsertDesired(clusters, k.id, k.spec, now)
    /\ Says(c, "generation", clusters'[k.id].generation)
    /\ UNCHANGED << db, intents, samples, quarantine, admin, audited, now,
                    retired >>

\* Concession: remove_cluster does not take the advisory lock of
\* upsert_desired, so on Postgres a row deleted between an upsert's read and
\* its insert comes back as a new row that goes on counting generations.
ReviveCall(c, k) ==
    /\ k.op = "upsert" /\ backend = "postgres"
    /\ k.id \notin DOMAIN clusters /\ k.id \in DOMAIN retired
    /\ \E g \in {retired[k.id], retired[k.id] + 1} :
        /\ clusters' = Put(clusters, k.id,
                           [NewCluster(k.spec, now) EXCEPT !.generation = g])
        /\ Says(c, "generation", g)
    /\ UNCHANGED << db, intents, samples, quarantine, admin, audited, now,
                    retired >>

SetDesiredCall(c, k) ==
    /\ k.op = "set_desired" /\ k.id \in DOMAIN clusters
    /\ clusters' = SetDesired(clusters, k.id, k.desired, now)
    /\ Says(c, "ok", 0)
    /\ UNCHANGED << db, intents, samples, quarantine, admin, audited, now,
                    retired >>

RemoveCall(c, k) ==
    /\ k.op = "remove"
    /\ clusters' = Drop(clusters, k.id)
    /\ IF k.id \in DOMAIN clusters
       THEN /\ retired' = Put(retired, k.id, clusters[k.id].generation)
            /\ Says(c, "ok", 1)
       ELSE Says(c, "ok", 0) /\ UNCHANGED retired
    /\ UNCHANGED << db, intents, samples, quarantine, admin, audited, now >>

ObserveCall(c, k) ==
    /\ k.op = "observe"
    /\ clusters' = RecordObservation(clusters, k.id, k.state, k.generation)
    /\ Says(c, "ok", 0)
    /\ UNCHANGED << db, intents, samples, quarantine, admin, audited, now,
                    retired >>

ConditionCall(c, k) ==
    /\ k.op = "condition"
    /\ clusters' = SetCondition(clusters, k.id, k.condition)
    /\ Says(c, "ok", 0)
    /\ UNCHANGED << db, intents, samples, quarantine, admin, audited, now,
                    retired >>

AttemptCall(c, k) ==
    /\ k.op = "attempt"
    /\ clusters' = RecordAttempt(clusters, k.id, k.failures, k.next)
    /\ Says(c, "ok", 0)
    /\ UNCHANGED << db, intents, samples, quarantine, admin, audited, now,
                    retired >>

\* Fresh opens the intent; replay and mismatch leave it as it was.
BeginCall(c, k) ==
    /\ k.op = "begin"
    /\ intents' = BeginIntent(intents, k.key, k.fp)
    /\ Says(c, IF ParamMismatch(intents, k.key, k.fp) THEN "mismatch"
               ELSE IF k.key \in DOMAIN intents THEN "replay" ELSE "fresh", 0)
    /\ UNCHANGED << db, clusters, samples, quarantine, admin, audited, now,
                    retired >>

CompleteCall(c, k) ==
    /\ k.op = "complete"
    /\ intents' = CompleteIntent(intents, k.key, now)
    /\ Says(c, "ok", 0)
    /\ UNCHANGED << db, clusters, samples, quarantine, admin, audited, now,
                    retired >>

ReapCall(c, k) ==
    /\ k.op = "reap"
    /\ intents' = ReapIntents(intents, k.cutoff)
    /\ Says(c, "ok", 0)
    /\ UNCHANGED << db, clusters, samples, quarantine, admin, audited, now,
                    retired >>

\* A batch lands as a whole.
SamplesCall(c, k) ==
    /\ k.op = "samples"
    /\ samples' = samples \cup k.batch
    /\ Says(c, "ok", 0)
    /\ UNCHANGED << db, clusters, intents, quarantine, admin, audited, now, retired >>

QuarantineCall(c, k) ==
    /\ k.op = "quarantine"
    /\ quarantine' = k.on
    /\ Says(c, "ok", 0)
    /\ UNCHANGED << db, clusters, intents, samples, admin, audited, now, retired >>

\* The trail only grows, by one event a call.
AuditCall(c, k) ==
    /\ k.op = "audit"
    /\ audited' = Append(audited, k.event)
    /\ Says(c, "ok", 0)
    /\ UNCHANGED << db, clusters, intents, samples, quarantine, admin, now,
                    retired >>

-----------------------------------------------------------------------------
(* Pools. *)

PoolsOnly ==
    UNCHANGED << db, clusters, intents, samples, quarantine, rows, audited,
                 now, retired >>

\* The generation moves when the spec does; what was observed stays.
UpsertPoolCall(c, k) ==
    /\ k.op = "upsert_pool"
    /\ pools' = Put(pools, k.name,
        IF k.name \in DOMAIN pools
        THEN [pools[k.name] EXCEPT
                !.spec = k.spec,
                !.generation = IF pools[k.name].spec = k.spec THEN @ ELSE @ + 1]
        ELSE [spec |-> k.spec, generation |-> 1, observed |-> "none",
              observed_at |-> -1, created_at |-> now])
    /\ Says(c, "generation", pools'[k.name].generation)
    /\ UNCHANGED dropped /\ PoolsOnly

\* Concession, as for clusters: delete_pool takes no advisory lock.
RevivePoolCall(c, k) ==
    /\ k.op = "upsert_pool" /\ backend = "postgres"
    /\ k.name \notin DOMAIN pools /\ k.name \in DOMAIN dropped
    /\ \E g \in {dropped[k.name], dropped[k.name] + 1} :
        /\ pools' = Put(pools, k.name,
                [spec |-> k.spec, generation |-> g, observed |-> "none",
                 observed_at |-> -1, created_at |-> now])
        /\ Says(c, "generation", g)
    /\ UNCHANGED dropped /\ PoolsOnly

DeletePoolCall(c, k) ==
    /\ k.op = "delete_pool" /\ k.name \in DOMAIN pools
    /\ pools' = Drop(pools, k.name)
    /\ dropped' = Put(dropped, k.name, pools[k.name].generation)
    /\ Says(c, "ok", 0)
    /\ PoolsOnly

\* A pool deleted meanwhile is not an error.
ObservePoolCall(c, k) ==
    /\ k.op = "observe_pool"
    /\ pools' = [n \in DOMAIN pools |->
                    IF n # k.name THEN pools[n]
                    ELSE [pools[n] EXCEPT !.observed = k.observed,
                                          !.observed_at = now]]
    /\ Says(c, "ok", 0)
    /\ UNCHANGED dropped /\ PoolsOnly

-----------------------------------------------------------------------------
(* Tables whose calls are one statement.  A call on a row that is missing, *)
(* or already there, fails: FailedCall.                                    *)

RowsOnly ==
    UNCHANGED << db, clusters, intents, samples, quarantine, pools, dropped,
                 audited, now, retired >>

UpsertAllocationCall(c, k) ==
    /\ k.op = "upsert_allocation"
    /\ rows' = [rows EXCEPT !.allocations = Put(@, <<k.pool, k.project>>, k.spec)]
    /\ Says(c, "ok", 0) /\ RowsOnly

DeleteAllocationCall(c, k) ==
    /\ k.op = "delete_allocation"
    /\ <<k.pool, k.project>> \in DOMAIN rows.allocations
    /\ rows' = [rows EXCEPT !.allocations = Drop(@, <<k.pool, k.project>>)]
    /\ Says(c, "ok", 0) /\ RowsOnly

SetPolicyCall(c, k) ==
    /\ k.op = "set_policy"
    /\ rows' = [rows EXCEPT !.control = Put(@, "policy", k.policy)]
    /\ Says(c, "ok", 0) /\ RowsOnly

\* The seed never replaces a policy, and the answer says whether it landed.
SeedPolicyCall(c, k) ==
    /\ k.op = "seed_policy"
    /\ rows' = [rows EXCEPT !.control = IF "policy" \in DOMAIN @ THEN @
                                        ELSE Put(@, "policy", k.policy)]
    /\ Says(c, "ok", IF "policy" \in DOMAIN rows.control THEN 0 ELSE 1)
    /\ RowsOnly

\* A job recorded again keeps its cluster, submitter and submission time.
RecordJobCall(c, k) ==
    /\ k.op = "record_job"
    /\ rows' = IF k.id \in DOMAIN rows.jobs
               THEN [rows EXCEPT !.jobs[k.id] =
                        [@ EXCEPT !.status = k.status, !.duration = k.duration]]
               ELSE [rows EXCEPT !.jobs = Put(@, k.id,
                        [cluster |-> k.cluster, submitter |-> k.submitter,
                         status |-> k.status, duration |-> k.duration,
                         submitted_at |-> k.submitted_at])]
    /\ Says(c, "ok", 0) /\ RowsOnly

CreateUserCall(c, k) ==
    /\ k.op = "create_user" /\ k.user \notin DOMAIN rows.users
    /\ rows' = [rows EXCEPT !.users = Put(@, k.user,
            [password |-> k.password, role |-> k.role, disabled |-> FALSE,
             created_at |-> now, failed_logins |-> 0, locked_until |-> -1])]
    /\ Says(c, "ok", 0) /\ RowsOnly

SetPasswordCall(c, k) ==
    /\ k.op = "set_password" /\ k.user \in DOMAIN rows.users
    /\ rows' = [rows EXCEPT !.users[k.user].password = k.password]
    /\ Says(c, "ok", 0) /\ RowsOnly

SetRoleCall(c, k) ==
    /\ k.op = "set_role" /\ k.user \in DOMAIN rows.users
    /\ rows' = [rows EXCEPT !.users[k.user].role = k.role]
    /\ Says(c, "ok", 0) /\ RowsOnly

SetDisabledCall(c, k) ==
    /\ k.op = "set_disabled" /\ k.user \in DOMAIN rows.users
    /\ rows' = [rows EXCEPT !.users[k.user].disabled = k.disabled]
    /\ Says(c, "ok", 0) /\ RowsOnly

SetLockoutCall(c, k) ==
    /\ k.op = "set_lockout" /\ k.user \in DOMAIN rows.users
    /\ rows' = [rows EXCEPT !.users[k.user] =
                    [@ EXCEPT !.failed_logins = k.failed, !.locked_until = k.until]]
    /\ Says(c, "ok", 0) /\ RowsOnly

CreateTokenCall(c, k) ==
    /\ k.op = "create_token" /\ k.prefix \notin DOMAIN rows.tokens
    /\ rows' = [rows EXCEPT !.tokens = Put(@, k.prefix,
            [username |-> k.username, expires_at |-> k.expires_at,
             revoked |-> FALSE, last_used_at |-> -1])]
    /\ Says(c, "ok", 0) /\ RowsOnly

\* Only its owner revokes a token.
RevokeTokenCall(c, k) ==
    /\ k.op = "revoke_token" /\ k.prefix \in DOMAIN rows.tokens
    /\ rows.tokens[k.prefix].username = k.username
    /\ rows' = [rows EXCEPT !.tokens[k.prefix].revoked = TRUE]
    /\ Says(c, "ok", 0) /\ RowsOnly

TouchTokenCall(c, k) ==
    /\ k.op = "touch_token"
    /\ rows' = [rows EXCEPT !.tokens = [p \in DOMAIN rows.tokens |->
                    IF p # k.prefix THEN rows.tokens[p]
                    ELSE [rows.tokens[p] EXCEPT !.last_used_at = now]]]
    /\ Says(c, "ok", 0) /\ RowsOnly

\* Granting again keeps the first created_at.
AssignCall(c, k) ==
    /\ k.op = "assign"
    /\ rows' = [rows EXCEPT !.assignments = IF k.grant \in DOMAIN @ THEN @
                                            ELSE Put(@, k.grant, now)]
    /\ Says(c, "ok", 0) /\ RowsOnly

UnassignCall(c, k) ==
    /\ k.op = "unassign" /\ k.grant \in DOMAIN rows.assignments
    /\ rows' = [rows EXCEPT !.assignments = Drop(@, k.grant)]
    /\ Says(c, "ok", 0) /\ RowsOnly

RowCall(c, k) ==
    \/ UpsertAllocationCall(c, k) \/ DeleteAllocationCall(c, k)
    \/ SetPolicyCall(c, k) \/ SeedPolicyCall(c, k) \/ RecordJobCall(c, k)
    \/ CreateUserCall(c, k) \/ SetPasswordCall(c, k) \/ SetRoleCall(c, k)
    \/ SetDisabledCall(c, k) \/ SetLockoutCall(c, k) \/ CreateTokenCall(c, k)
    \/ RevokeTokenCall(c, k) \/ TouchTokenCall(c, k) \/ AssignCall(c, k)
    \/ UnassignCall(c, k)

-----------------------------------------------------------------------------
\* A call that fails without effect.
FailedCall(c) ==
    /\ Says(c, "error", 0)
    /\ UNCHANGED << db, clusters, intents, samples, quarantine, admin, audited, now,
                    retired >>

\* A call that fails to commit on SQLite, and leaves its transaction open.
StrandedCall(c) ==
    /\ backend = "sqlite" /\ stranded' = TRUE
    /\ Says(c, "error", 0)
    /\ UNCHANGED << backend, clusters, intents, samples, quarantine, admin,
                    audited, now, retired >>

\* Concession: from then on, until that connection is closed, a write may be
\* acknowledged and have no effect.
LostCall(c) ==
    /\ stranded
    /\ \E a \in {<<"ok", 0>>, <<"ok", 1>>, <<"error", 0>>} : Says(c, a[1], a[2])
    /\ UNCHANGED << db, clusters, intents, samples, quarantine, admin, audited,
                    now, retired >>

\* The pool closes that connection, or the process ends.
ConnectionCloses ==
    /\ stranded' = FALSE
    /\ UNCHANGED << backend, clusters, intents, samples, quarantine, admin,
                    audited, now, retired, answer >>

AtomicCall(c, k) ==
    \/ UpsertCall(c, k) \/ ReviveCall(c, k) \/ SetDesiredCall(c, k)
    \/ RemoveCall(c, k) \/ ObserveCall(c, k) \/ ConditionCall(c, k)
    \/ AttemptCall(c, k) \/ BeginCall(c, k) \/ CompleteCall(c, k)
    \/ ReapCall(c, k) \/ SamplesCall(c, k) \/ QuarantineCall(c, k)
    \/ AuditCall(c, k) \/ UpsertPoolCall(c, k) \/ RevivePoolCall(c, k)
    \/ DeletePoolCall(c, k) \/ ObservePoolCall(c, k) \/ RowCall(c, k)

SecondPasses ==
    /\ now' = now + 1
    /\ UNCHANGED << db, clusters, intents, samples, quarantine, admin, audited,
                    retired, answer >>

AtomicNext ==
    \/ \E c \in Callers :
        \/ \E k \in Calls : AtomicCall(c, k)
        \/ FailedCall(c) \/ StrandedCall(c) \/ LostCall(c)
    \/ ConnectionCloses \/ SecondPasses

AtomicSpec == AtomicInit /\ [][AtomicNext]_avars
=============================================================================
