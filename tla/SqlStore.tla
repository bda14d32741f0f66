------------------------------ MODULE SqlStore ------------------------------
(***************************************************************************)
(* The SQLite and Postgres stores, statement by statement:                 *)
(* mobula-controller/src/store_sqlite.rs and store_postgres.rs.  A call    *)
(* that reads before it writes runs in a transaction; SQLite serializes    *)
(* all writers with BEGIN IMMEDIATE, Postgres takes an advisory lock on a  *)
(* hash of the key.  Uncommitted writes are invisible and block writers of *)
(* the same row, so a write and its COMMIT are one step.                   *)
(*                                                                         *)
(* The shared variables are those of AtomicStore, which SqlRefinement      *)
(* shows this module to implement.                                         *)
(***************************************************************************)
EXTENDS ClusterStore, AuditTrail, SqlStatements

CONSTANTS
    Calls, Callers,
    HashText,       \* key -> advisory lock; distinct keys may collide
    PoolText,       \* pool -> the key its lock is taken on
    OldRows,        \* audit events of a database older than the chain
    Workloads

ASSUME OldRowsAssumption == OldRows \in Seq({OldRows[i] : i \in DOMAIN OldRows})

VARIABLES
    backend, clusters, intents, samples, quarantine, now, retired, answer,
    pools, dropped, rows,
    stranded,       \* a pooled SQLite connection has a transaction left open
    strandedOnce,   \* history: one has had
    trail,          \* audit_events, in seq order
    phase,          \* "boot" while init runs, "serving" after it
    locks,          \* lock -> caller that holds it
    call,           \* caller -> the call it is in
    load

db == << backend, stranded, strandedOnce >>
admin == << pools, dropped, rows >>
tables == << clusters, intents, samples, quarantine, retired, trail, admin >>
svars == << db, tables, now, answer, phase, locks, call, load >>

\* The trail of the atomic store: the events, whatever their hashes.
Events(t) == [i \in DOMAIN t |-> t[i].event]

Spend(kind) == load[kind] > 0 /\ load' = [load EXCEPT ![kind] = @ - 1]

\* What a call answers.  Postgres may have committed when the connection fails
\* with the reply.
Says(c, kind, n) ==
    \/ answer' = [answer EXCEPT ![c] = <<kind, n>>]
    \/ backend = "postgres" /\ answer' = [answer EXCEPT ![c] = <<"error", 0>>]

NoCall == [pc |-> "idle"]
InCall(pc, k, seen) == [pc |-> pc, req |-> k, seen |-> seen]
Unchained == << >>
Missing == [found |-> FALSE]

SqlInit ==
    /\ backend \in {"sqlite", "postgres"}
    /\ stranded = FALSE /\ strandedOnce = FALSE
    /\ clusters = EmptyTable /\ intents = EmptyTable /\ retired = EmptyTable
    /\ samples = {} /\ quarantine = FALSE
    /\ pools = EmptyTable /\ dropped = EmptyTable
    /\ rows = [allocations |-> EmptyTable, control |-> EmptyTable,
               jobs |-> EmptyTable, users |-> EmptyTable, tokens |-> EmptyTable,
               assignments |-> EmptyTable]
    /\ trail = [i \in DOMAIN OldRows |->
                    [event |-> OldRows[i], chain_hash |-> Unchained]]
    /\ now = 0
    /\ answer = [c \in Callers |-> <<"none", 0>>]
    /\ phase = "boot" /\ locks = EmptyTable
    /\ call = [c \in Callers |-> NoCall]
    /\ load \in Workloads

-----------------------------------------------------------------------------
(* init: rows written before the chain existed are chained, oldest first.  *)

\* Mutant: newest first.
BackfillNewest ==
    /\ phase = "boot"
    /\ \E i \in DOMAIN trail :
        /\ trail[i].chain_hash = Unchained
        /\ \A j \in i + 1 .. Len(trail) : trail[j].chain_hash # Unchained
        /\ LET prev == IF i = 1 THEN GenesisHash ELSE trail[i - 1].chain_hash
           IN  trail' = [trail EXCEPT ![i].chain_hash =
                            AuditChainHash(prev, trail[i].event)]
    /\ UNCHANGED << db, admin, clusters, intents, samples, quarantine, retired,
                    now, answer, phase, locks, call, load >>

BackfillAuditChain ==
    /\ phase = "boot"
    /\ \E i \in DOMAIN trail :
        /\ trail[i].chain_hash = Unchained
        /\ \A j \in 1 .. i - 1 : trail[j].chain_hash # Unchained
        /\ LET prev == IF i = 1 THEN GenesisHash ELSE trail[i - 1].chain_hash
           IN  trail' = [trail EXCEPT ![i].chain_hash =
                            AuditChainHash(prev, trail[i].event)]
    /\ UNCHANGED << db, admin, clusters, intents, samples, quarantine, retired,
                    now, answer, phase, locks, call, load >>

Connected ==
    /\ phase = "boot"
    /\ \A i \in DOMAIN trail : trail[i].chain_hash # Unchained
    /\ phase' = "serving"
    /\ UNCHANGED << db, tables, now, answer, locks, call, load >>

\* Open transactions roll back with the process.
Crash ==
    /\ Spend("crash")
    /\ phase' = "boot" /\ locks' = EmptyTable /\ stranded' = FALSE
    /\ call' = [c \in Callers |-> NoCall]
    /\ UNCHANGED << backend, strandedOnce, tables, now, answer >>

-----------------------------------------------------------------------------
(* Transactions. *)

\* Mutant: upserts run in a DEFERRED transaction.
TransactedDeferred(k) == k.op \in {"upsert_pool", "begin", "audit", "samples"}

\* The calls that read or write more than once.
Transacted(k) ==
    k.op \in {"upsert", "upsert_pool", "begin", "audit", "samples"}

\* record_audit is serialized by a mutex, not by the database.
SqliteLock(k) == IF k.op = "audit" THEN {"audit_lock"} ELSE {"db"}
\* A batch of samples needs no advisory lock.
PostgresLock(k) ==
    CASE k.op = "upsert"      -> {HashText[k.id]}
      [] k.op = "upsert_pool" -> {HashText[PoolText[k.name]]}
      [] k.op = "begin"       -> {HashText[k.key]}
      [] k.op = "audit"       -> {HashText["audit_chain"]}
      [] OTHER                -> {}
LocksOf(k) ==
    IF ~Transacted(k) THEN {}
    ELSE IF backend = "sqlite" THEN SqliteLock(k) ELSE PostgresLock(k)

\* SQLite has one writer; Postgres rows block only while a write commits.
MayWrite(c) ==
    backend = "sqlite" =>
        ~stranded /\ ("db" \in DOMAIN locks => locks["db"] = c)

At(c, pc, op) == call[c].pc = pc /\ call[c].req.op = op
Held(c) == {l \in DOMAIN locks : locks[l] = c}

Start(c) ==
    /\ phase = "serving" /\ call[c] = NoCall
    /\ \E k \in Calls :
        /\ Spend(k.op)
        /\ call' = [call EXCEPT ![c] =
                    InCall(IF Transacted(k) THEN "wait" ELSE "locked", k, Missing)]
    /\ UNCHANGED << db, tables, now, answer, phase, locks >>

Acquire(c) ==
    /\ call[c].pc = "wait"
    /\ LocksOf(call[c].req) \cap DOMAIN locks = {}
    /\ "db" \in LocksOf(call[c].req) => ~stranded
    /\ locks' = [l \in DOMAIN locks \cup LocksOf(call[c].req) |->
                    IF l \in DOMAIN locks THEN locks[l] ELSE c]
    /\ call' = [call EXCEPT ![c] = InCall("locked", call[c].req, Missing)]
    /\ UNCHANGED << db, tables, now, answer, phase, load >>

Release(c) == [l \in DOMAIN locks \ Held(c) |-> locks[l]]

\* The call answers, and its transaction ends.
Finish(c, kind, n) ==
    /\ Says(c, kind, n)
    /\ call' = [call EXCEPT ![c] = NoCall]
    /\ locks' = Release(c)

\* Mutant: Postgres locks of the session, which a rollback does not release.
FailsSessionLock(c) ==
    /\ call[c].pc # "idle" /\ Spend("fail")
    /\ Says(c, "error", 0)
    /\ call' = [call EXCEPT ![c] = NoCall]
    /\ locks' = IF backend = "postgres" THEN locks ELSE Release(c)
    /\ UNCHANGED << db, tables, now, phase >>

\* A statement fails; the transaction it is in is rolled back.
Fails(c) ==
    /\ call[c].pc # "idle" /\ Spend("fail")
    /\ Finish(c, "error", 0)
    /\ UNCHANGED << db, tables, now, phase >>

-----------------------------------------------------------------------------
(* SQLite's write lock.                                                    *)

\* A call that needs the write lock while another connection has it.
Blocked(c) ==
    /\ ~MayWrite(c)
    /\ \/ call[c].pc = "wait" /\ "db" \in LocksOf(call[c].req)
       \/ call[c].pc = "locked" /\ ~Transacted(call[c].req)
       \/ call[c].pc = "read"

\* It gives up after busy_timeout; BEGIN on the connection left in a
\* transaction fails at once.
TimesOut(c) ==
    /\ Blocked(c)
    /\ Finish(c, "error", 0)
    /\ UNCHANGED << db, tables, now, phase, load >>

\* COMMIT fails and `?' returns without a ROLLBACK, or the ROLLBACK fails and
\* is ignored: the connection goes back to the pool inside its transaction.
LeavesOpen(c) ==
    /\ backend = "sqlite" /\ "db" \in Held(c)
    /\ Spend("commit")
    /\ Finish(c, "error", 0)
    /\ stranded' = TRUE /\ strandedOnce' = TRUE
    /\ UNCHANGED << backend, tables, now, phase >>

\* The pool hands out that connection: the write is answered as usual, inside a
\* transaction that nobody commits.
LostWrite(c) ==
    /\ stranded
    /\ \/ call[c].pc = "locked" /\ ~Transacted(call[c].req)
       \/ At(c, "read", "audit")
    /\ \E a \in {<<"ok", 0>>, <<"ok", 1>>, <<"error", 0>>} : Finish(c, a[1], a[2])
    /\ UNCHANGED << db, tables, now, phase, load >>

\* The pool closes the connection, and the transaction is rolled back.
ConnectionCloses ==
    /\ stranded
    /\ stranded' = FALSE
    /\ UNCHANGED << backend, strandedOnce, tables, now, answer, phase, locks,
                    call, load >>

-----------------------------------------------------------------------------
(* Transactions: statements.                                               *)

ReadCluster(c) ==
    /\ At(c, "locked", "upsert")
    /\ LET id == call[c].req.id IN
       call' = [call EXCEPT ![c] = InCall("read", call[c].req,
                    IF id \in DOMAIN clusters
                    THEN [found |-> TRUE, spec |-> clusters[id].spec,
                          generation |-> clusters[id].generation]
                    ELSE Missing)]
    /\ UNCHANGED << db, tables, now, answer, phase, locks, load >>

NextGeneration(seen, spec) ==
    IF ~seen.found THEN 1
    ELSE IF SpecChanged(seen.spec, spec) THEN seen.generation + 1
    ELSE seen.generation

\* INSERT ... ON CONFLICT DO UPDATE: the row may be gone since it was read.
WriteCluster(c) ==
    /\ At(c, "read", "upsert") /\ MayWrite(c)
    /\ LET k == call[c].req
           g == NextGeneration(call[c].seen, k.spec)
       IN  /\ clusters' = Put(clusters, k.id,
                IF k.id \in DOMAIN clusters
                THEN [clusters[k.id] EXCEPT !.spec = k.spec, !.generation = g]
                ELSE [NewCluster(k.spec, now) EXCEPT !.generation = g])
           /\ Finish(c, "generation", g)
    /\ UNCHANGED << db, admin, intents, samples, quarantine, retired, trail, now,
                    phase, load >>

\* An intent that exists is classified and left alone.
ReadIntent(c) ==
    /\ At(c, "locked", "begin")
    /\ LET k == call[c].req IN
       IF k.key \in DOMAIN intents
       THEN Finish(c, IF ParamMismatch(intents, k.key, k.fp)
                      THEN "mismatch" ELSE "replay", 0)
       ELSE /\ call' = [call EXCEPT ![c] = InCall("read", k, Missing)]
            /\ UNCHANGED << answer, locks >>
    /\ UNCHANGED << db, tables, now, phase, load >>

InsertIntent(c) ==
    /\ At(c, "read", "begin") /\ MayWrite(c)
    /\ LET k == call[c].req IN
       intents' = Put(intents, k.key,
                      [params_fingerprint |-> k.fp, status |-> "Pending",
                       completed_at |-> NoTime])
    /\ Finish(c, "fresh", 0)
    /\ UNCHANGED << db, admin, clusters, samples, quarantine, retired, trail, now,
                    phase, load >>

InsertSamples(c) ==
    /\ At(c, "locked", "samples") /\ MayWrite(c)
    /\ samples' = samples \cup call[c].req.batch
    /\ Finish(c, "ok", 0)
    /\ UNCHANGED << db, admin, clusters, intents, quarantine, retired, trail, now,
                    phase, load >>

\* The newest row's hash is read, then the new row inserted.
TailHash == IF trail = << >> THEN GenesisHash ELSE trail[Len(trail)].chain_hash

ReadTail(c) ==
    /\ At(c, "locked", "audit")
    /\ call' = [call EXCEPT ![c] = InCall("read", call[c].req, TailHash)]
    /\ UNCHANGED << db, tables, now, answer, phase, locks, load >>

\* On the connection left in its transaction, a row nobody will commit.
ReadLostTail(c) ==
    /\ stranded
    /\ At(c, "locked", "audit")
    /\ \E k \in Calls :
        /\ k.op = "audit"
        /\ call' = [call EXCEPT ![c] = InCall("read", call[c].req,
                                            AuditChainHash(TailHash, k.event))]
    /\ UNCHANGED << db, tables, now, answer, phase, locks, load >>

InsertAudit(c) ==
    /\ At(c, "read", "audit") /\ MayWrite(c)
    /\ LET event == call[c].req.event IN
       trail' = Append(trail, [event |-> event,
                    chain_hash |-> AuditChainHash(call[c].seen, event)])
    /\ Finish(c, "ok", 0)
    /\ UNCHANGED << db, admin, clusters, intents, samples, quarantine, retired,
                    now, phase, load >>

-----------------------------------------------------------------------------
(* Single statements. *)

Runs(c, op) == At(c, "locked", op) /\ MayWrite(c)

\* Everything but the clusters table.
ClustersOnly ==
    UNCHANGED << db, admin, intents, samples, quarantine, trail, now, phase, load >>

\* COALESCE keeps the stamp of an earlier termination.
SqlSetDesired(c) ==
    /\ Runs(c, "set_desired")
    /\ LET k == call[c].req IN
       IF k.id \in DOMAIN clusters
       THEN /\ clusters' = SetDesired(clusters, k.id, k.desired, now)
            /\ Finish(c, "ok", 0)
       ELSE Finish(c, "error", 0) /\ UNCHANGED clusters
    /\ ClustersOnly /\ UNCHANGED retired

SqlRemove(c) ==
    /\ Runs(c, "remove")
    /\ LET id == call[c].req.id IN
       /\ clusters' = Drop(clusters, id)
       /\ IF id \in DOMAIN clusters
          THEN /\ retired' = Put(retired, id, clusters[id].generation)
               /\ Finish(c, "ok", 1)
          ELSE Finish(c, "ok", 0) /\ UNCHANGED retired
    /\ ClustersOnly

\* MAX, or GREATEST, keeps the observed generation monotonic.
SqlObserve(c) ==
    /\ Runs(c, "observe")
    /\ LET k == call[c].req IN
       clusters' = RecordObservation(clusters, k.id, k.state, k.generation)
    /\ Finish(c, "ok", 0)
    /\ ClustersOnly /\ UNCHANGED retired

SqlCondition(c) ==
    /\ Runs(c, "condition")
    /\ LET k == call[c].req IN
       clusters' = SetCondition(clusters, k.id, k.condition)
    /\ Finish(c, "ok", 0)
    /\ ClustersOnly /\ UNCHANGED retired

SqlAttempt(c) ==
    /\ Runs(c, "attempt")
    /\ LET k == call[c].req IN
       clusters' = RecordAttempt(clusters, k.id, k.failures, k.next)
    /\ Finish(c, "ok", 0)
    /\ ClustersOnly /\ UNCHANGED retired

IntentsOnly ==
    UNCHANGED << db, admin, clusters, samples, quarantine, retired, trail, now,
                 phase, load >>

SqlComplete(c) ==
    /\ Runs(c, "complete")
    /\ intents' = CompleteIntent(intents, call[c].req.key, now)
    /\ Finish(c, "ok", 0)
    /\ IntentsOnly

SqlReap(c) ==
    /\ Runs(c, "reap")
    /\ intents' = ReapIntents(intents, call[c].req.cutoff)
    /\ Finish(c, "ok", 0)
    /\ IntentsOnly

SqlQuarantine(c) ==
    /\ Runs(c, "quarantine")
    /\ quarantine' = call[c].req.on
    /\ Finish(c, "ok", 0)
    /\ UNCHANGED << db, admin, clusters, intents, samples, retired, trail, now,
                    phase, load >>

-----------------------------------------------------------------------------
(* Pools. *)

PoolsOnly ==
    UNCHANGED << db, clusters, intents, samples, quarantine, retired, trail,
                 rows, now, phase, load >>

\* upsert_pool reads and writes as upsert_desired does.
ReadPool(c) ==
    /\ At(c, "locked", "upsert_pool")
    /\ LET n == call[c].req.name IN
       call' = [call EXCEPT ![c] = InCall("read", call[c].req,
                    IF n \in DOMAIN pools
                    THEN [found |-> TRUE, spec |-> pools[n].spec,
                          generation |-> pools[n].generation]
                    ELSE Missing)]
    /\ UNCHANGED << db, tables, now, answer, phase, locks, load >>

NextPoolGeneration(seen, spec) ==
    IF ~seen.found THEN 1
    ELSE IF seen.spec = spec THEN seen.generation ELSE seen.generation + 1

WritePool(c) ==
    /\ At(c, "read", "upsert_pool") /\ MayWrite(c)
    /\ LET k == call[c].req
           g == NextPoolGeneration(call[c].seen, k.spec)
       IN  /\ pools' = InsertOrUpdate(pools, k.name, PoolRow(k.spec, g, now),
                            [spec |-> k.spec, generation |-> g])
           /\ Finish(c, "generation", g)
    /\ UNCHANGED dropped /\ PoolsOnly

\* No lock: on Postgres it may fall between another call's read and write.
SqlDeletePool(c) ==
    /\ Runs(c, "delete_pool")
    /\ LET n == call[c].req.name IN
       IF n \in DOMAIN pools
       THEN /\ pools' = Drop(pools, n)
            /\ dropped' = Put(dropped, n, pools[n].generation)
            /\ Finish(c, "ok", 0)
       ELSE Finish(c, "error", 0) /\ UNCHANGED << pools, dropped >>
    /\ PoolsOnly

SqlObservePool(c) ==
    /\ Runs(c, "observe_pool")
    /\ LET k == call[c].req IN
       pools' = UpdateWhere(pools, {k.name},
                    [observed |-> k.observed, observed_at |-> now])
    /\ Finish(c, "ok", 0)
    /\ UNCHANGED dropped /\ PoolsOnly

-----------------------------------------------------------------------------
(* Calls of one statement on the other tables.  Where no row is affected,  *)
(* or the key is taken, most of them answer with an error.                 *)

RowsOnly ==
    UNCHANGED << db, clusters, intents, samples, quarantine, retired, trail,
                 pools, dropped, now, phase, load >>

Affects(c, hit, after) ==
    /\ IF hit THEN rows' = after /\ Finish(c, "ok", 0)
       ELSE Finish(c, "error", 0) /\ UNCHANGED rows
    /\ RowsOnly

SqlUpsertAllocation(c) ==
    /\ Runs(c, "upsert_allocation")
    /\ LET k == call[c].req IN
       Affects(c, TRUE, [rows EXCEPT !.allocations =
                            Put(@, <<k.pool, k.project>>, k.spec)])

SqlDeleteAllocation(c) ==
    /\ Runs(c, "delete_allocation")
    /\ LET key == <<call[c].req.pool, call[c].req.project>> IN
       Affects(c, key \in DOMAIN rows.allocations,
               [rows EXCEPT !.allocations = Drop(@, key)])

SqlSetPolicy(c) ==
    /\ Runs(c, "set_policy")
    /\ Affects(c, TRUE,
               [rows EXCEPT !.control = Put(@, "policy", call[c].req.policy)])

\* The answer is the number of rows inserted.
SqlSeedPolicy(c) ==
    /\ Runs(c, "seed_policy")
    /\ rows' = [rows EXCEPT !.control = InsertNew(@, "policy", call[c].req.policy)]
    /\ Finish(c, "ok", IF "policy" \in DOMAIN rows.control THEN 0 ELSE 1)
    /\ RowsOnly

SqlRecordJob(c) ==
    /\ Runs(c, "record_job")
    /\ LET k == call[c].req IN
       Affects(c, TRUE, [rows EXCEPT !.jobs =
            InsertOrUpdate(@, k.id, JobRow(k),
                           [status |-> k.status, duration |-> k.duration])])

SqlCreateUser(c) ==
    /\ Runs(c, "create_user")
    /\ LET k == call[c].req IN
       Affects(c, k.user \notin DOMAIN rows.users,
               [rows EXCEPT !.users = InsertNew(@, k.user, UserRow(k, now))])

UpdateUser(c, user, set) ==
    Affects(c, user \in DOMAIN rows.users,
            [rows EXCEPT !.users = UpdateWhere(@, {user}, set)])

SqlSetPassword(c) ==
    /\ Runs(c, "set_password")
    /\ LET k == call[c].req IN UpdateUser(c, k.user, [password |-> k.password])

SqlSetRole(c) ==
    /\ Runs(c, "set_role")
    /\ LET k == call[c].req IN UpdateUser(c, k.user, [role |-> k.role])

SqlSetDisabled(c) ==
    /\ Runs(c, "set_disabled")
    /\ LET k == call[c].req IN UpdateUser(c, k.user, [disabled |-> k.disabled])

SqlSetLockout(c) ==
    /\ Runs(c, "set_lockout")
    /\ LET k == call[c].req IN
       UpdateUser(c, k.user, [failed_logins |-> k.failed, locked_until |-> k.until])

SqlCreateToken(c) ==
    /\ Runs(c, "create_token")
    /\ LET k == call[c].req IN
       Affects(c, k.prefix \notin DOMAIN rows.tokens,
               [rows EXCEPT !.tokens = InsertNew(@, k.prefix, TokenRow(k))])

SqlRevokeToken(c) ==
    /\ Runs(c, "revoke_token")
    /\ LET hit == OwnedToken(rows.tokens, call[c].req.prefix,
                             call[c].req.username)
       IN  Affects(c, hit # {}, [rows EXCEPT !.tokens =
                                    UpdateWhere(@, hit, [revoked |-> TRUE])])

SqlTouchToken(c) ==
    /\ Runs(c, "touch_token")
    /\ Affects(c, TRUE, [rows EXCEPT !.tokens =
            UpdateWhere(@, {call[c].req.prefix}, [last_used_at |-> now])])

SqlAssign(c) ==
    /\ Runs(c, "assign")
    /\ Affects(c, TRUE, [rows EXCEPT !.assignments =
                            InsertNew(@, call[c].req.grant, now)])

SqlUnassign(c) ==
    /\ Runs(c, "unassign")
    /\ LET g == call[c].req.grant IN
       Affects(c, g \in DOMAIN rows.assignments,
               [rows EXCEPT !.assignments = Drop(@, g)])

RowStatement(c) ==
    \/ SqlUpsertAllocation(c) \/ SqlDeleteAllocation(c) \/ SqlSetPolicy(c)
    \/ SqlSeedPolicy(c) \/ SqlRecordJob(c) \/ SqlCreateUser(c)
    \/ SqlSetPassword(c) \/ SqlSetRole(c) \/ SqlSetDisabled(c)
    \/ SqlSetLockout(c) \/ SqlCreateToken(c) \/ SqlRevokeToken(c)
    \/ SqlTouchToken(c) \/ SqlAssign(c) \/ SqlUnassign(c)

-----------------------------------------------------------------------------
SecondPasses ==
    /\ Spend("second") /\ now' = now + 1
    /\ UNCHANGED << db, tables, answer, phase, locks, call >>

CallStep(c) ==
    \/ Acquire(c)
    \/ ReadCluster(c) \/ WriteCluster(c) \/ ReadIntent(c) \/ InsertIntent(c)
    \/ InsertSamples(c) \/ ReadTail(c) \/ InsertAudit(c)
    \/ SqlSetDesired(c) \/ SqlRemove(c) \/ SqlObserve(c) \/ SqlCondition(c)
    \/ SqlAttempt(c) \/ SqlComplete(c) \/ SqlReap(c) \/ SqlQuarantine(c)
    \/ ReadPool(c) \/ WritePool(c) \/ SqlDeletePool(c) \/ SqlObservePool(c)
    \/ RowStatement(c)

SqlNext ==
    \/ \E c \in Callers :
        \/ Start(c) \/ CallStep(c) \/ Fails(c)
        \/ TimesOut(c) \/ LeavesOpen(c) \/ LostWrite(c) \/ ReadLostTail(c)
    \/ ConnectionCloses
    \/ BackfillAuditChain \/ Connected \/ Crash \/ SecondPasses

SqlSpec == SqlInit /\ [][SqlNext]_svars

\* The runtime polls every task, busy_timeout runs out for a call that stays
\* blocked, and init runs to its end.
FairSqlSpec ==
    /\ SqlSpec
    /\ WF_svars(BackfillAuditChain) /\ WF_svars(Connected)
    /\ \A c \in Callers : WF_svars(CallStep(c) \/ TimesOut(c))

-----------------------------------------------------------------------------
(* Properties. *)

\* record_audit and backfill_audit_chain: once the store serves, the whole
\* trail replays, through concurrent appends and boots cut short by a crash, up
\* to the first COMMIT that fails on SQLite.
TrailChained ==
    phase = "serving" /\ ~strandedOnce => FirstBroken(GenesisHash, trail) = 0

\* No call waits for ever on the locks of another: on Postgres its rollback
\* releases them, on SQLite busy_timeout ends the wait even for the lock of a
\* transaction that was left open.
CallsReturn == \A c \in Callers : call[c].pc # "idle" ~> call[c].pc = "idle"

-----------------------------------------------------------------------------
(* What makes TrailChained inductive.                                      *)

IsHash(h) == h \in Seq({h[i] : i \in DOMAIN h}) /\ h # << >>

\* The rows that have a hash come first and replay; the store serves when all
\* have one; the tail an append has read is still the tail.
ChainKept ==
    /\ phase \in {"boot", "serving"}
    /\ \A i \in DOMAIN trail : trail[i].chain_hash # Unchained =>
        /\ IsHash(trail[i].chain_hash) /\ Chained(trail, i)
        /\ \A j \in 1 .. i - 1 : trail[j].chain_hash # Unchained
    /\ phase = "serving" => \A i \in DOMAIN trail : trail[i].chain_hash # Unchained
    /\ \A c \in Callers : call[c].pc # "idle" => phase = "serving"
    /\ \A c \in Callers : At(c, "read", "audit") => call[c].seen = TailHash

\* Until a transaction is left open.
ChainInv == (stranded => strandedOnce) /\ (strandedOnce \/ ChainKept)
=============================================================================
