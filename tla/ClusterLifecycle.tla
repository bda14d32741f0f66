-------------------------- MODULE ClusterLifecycle --------------------------
(***************************************************************************)
(* One control-plane process driving clusters: the reconcile loop of       *)
(* mobula-controller/src/reconcile.rs, the cluster API handlers of         *)
(* mobula-api/src/clusters.rs that write the same rows, and the provider   *)
(* (KubeRayProvisioner and the Kubernetes objects it writes) they drive.   *)
(*                                                                         *)
(* Every store call and every provider call of the loop is an await, so it *)
(* is a step of its own: API handlers, the provider and crashes interleave *)
(* between any two of them.  A pass works through the snapshot `snap' it   *)
(* listed at its start, however old that has become.                       *)
(*                                                                         *)
(* `load' bounds the environment: the workload a behaviour was given, as   *)
(* many commands, faults, crashes and clock ticks of each kind, and how    *)
(* many of them have happened.                                             *)
(***************************************************************************)
EXTENDS ClusterStore

CONSTANTS
    Clients,                \* API requests that can be in flight at once
    BackoffBase,            \* BACKOFF_BASE_SECS
    BackoffCeil,            \* BACKOFF_CEIL_SECS
    IntentRetention,        \* INTENT_RETENTION_SECS
    TerminatedRetention,    \* TERMINATED_RETENTION_SECS
    Workloads               \* bounds: how many events of each kind

Kinds == { "create", "delete", "purge", "suspend", "resume", "alloc",
           "error", "defer", "world", "degrade", "crash", "backup", "restore",
           "clear", "clock" }

ASSUME ConstantsAssumption ==
    /\ BackoffBase \in Nat
    /\ BackoffCeil \in Nat
    /\ IntentRetention \in Nat
    /\ TerminatedRetention \in Nat
    /\ Workloads \subseteq [Kinds -> Nat]

VARIABLES
    rows,           \* the clusters table
    intents,        \* the outbox table
    quarantined,    \* the quarantine flag
    backup,         \* the last database backup, at first an empty database
    backing,        \* what exists at the provider, by cluster id
    netpol,         \* ids with a per-cluster NetworkPolicy
    queued,         \* the project has a pool allocation (Kueue queue)
    pc,             \* where the reconcile task is
    todo,           \* ids the reap or sweep pass has still to visit
    snap,           \* rows the reconcile pass has still to visit, as listed
    passNow,        \* the `now' of the pass
    cur,            \* the cluster being reconciled
    obs,            \* the last observation of it
    queue,          \* the queue assignment read for it
    act,            \* the Action decided for it
    cond,           \* the drift condition decided for it
    pending,        \* API requests between their read and their write
    now,            \* the wall clock
    load            \* the workload, and what has happened of it

store == <<rows, intents, quarantined>>
provider == <<backing, netpol>>
turn == <<cur, obs, queue, act, cond>>
loop == <<pc, todo, snap, passNow, turn>>
vars == <<store, backup, provider, queued, loop, pending, now, load>>

Spend(kind) ==
    /\ load.spent[kind] < load.limit[kind]
    /\ load' = [load EXCEPT !.spent[kind] = @ + 1]

-----------------------------------------------------------------------------
(* Types. *)

Nobody == "nobody"
Edited == "edited"      \* the fingerprint of a CR changed out of band

Observation ==
    [ state       : ClusterState \cup {Absent},
      generation  : Nat,
      fingerprint : Bodies \cup {Edited, Absent} ]

Unobserved == [state |-> Absent, generation |-> 0, fingerprint |-> Absent]

\* What status_to_state can report of a RayCluster.
BackingState == {"Provisioning", "Running", "Degraded", "Suspended"}

Backing ==
    [ state       : BackingState,
      generation  : Nat \ {0},
      fingerprint : Bodies \cup {Edited},
      suspend     : BOOLEAN,
      queue       : BOOLEAN ]

Request == [op : {"purge", "suspend", "resume"}, id : Ids]

NoRequest == [op |-> "none", id |-> Nobody]

Database == [rows |-> rows, intents |-> intents, quarantined |-> quarantined]

Load == [limit : [Kinds -> Nat], spent : [Kinds -> Nat]]

Action == {"NoOp", "Applied", "Terminated", "Suspended", "Drift"}

PerCluster == { "observed", "begin", "apply", "complete", "terminate",
                "suspend", "reobserve", "record", "condition", "attempt" }

Locations ==
    {"boot", "idle", "reap", "sweepList", "sweep", "pass"} \cup PerCluster

DatabaseOK(db) ==
    /\ IsTable(db.rows, Ids, StoredCluster)
    /\ IsTable(db.intents, IntentKeys, IntentRecord)
    /\ db.quarantined \in BOOLEAN

TypeOK ==
    /\ DatabaseOK(Database)
    /\ DatabaseOK(backup)
    /\ IsTable(backing, Ids, Backing)
    /\ netpol \subseteq Ids
    /\ queued \in BOOLEAN
    /\ pc \in Locations
    /\ todo \subseteq Ids
    /\ IsTable(snap, Ids, StoredCluster)
    /\ passNow \in Nat
    /\ cur \in Ids \cup {Nobody}
    /\ pc \in PerCluster => cur \in DOMAIN snap
    /\ obs \in Observation
    /\ queue \in BOOLEAN
    /\ act \in Action
    /\ cond \in DriftCondition \cup {Absent}
    /\ pending \in [Clients -> Request \cup {NoRequest}]
    /\ now \in Nat
    /\ load \in Load

-----------------------------------------------------------------------------
(* Initially the database is empty and the process is starting.            *)

ResetLoop ==
    /\ todo' = {}
    /\ snap' = EmptyTable
    /\ passNow' = 0
    /\ cur' = Nobody
    /\ obs' = Unobserved
    /\ queue' = FALSE
    /\ act' = "NoOp"
    /\ cond' = Absent

Init ==
    /\ rows = EmptyTable
    /\ intents = EmptyTable
    /\ quarantined = FALSE
    /\ backup = Database
    /\ backing = EmptyTable
    /\ netpol = {}
    /\ queued = FALSE
    /\ pc = "boot"
    /\ todo = {}
    /\ snap = EmptyTable
    /\ passNow = 0
    /\ cur = Nobody
    /\ obs = Unobserved
    /\ queue = FALSE
    /\ act = "NoOp"
    /\ cond = Absent
    /\ pending = [c \in Clients |-> NoRequest]
    /\ now = 0
    /\ load \in [limit : Workloads, spent : {[kind \in Kinds |-> 0]}]

-----------------------------------------------------------------------------
(* The provider, as the code in src/ uses it. *)

\* Provisioner::observe: NotFound is the absence of an observation.
Observe(id) ==
    IF id \in DOMAIN backing
    THEN [ state       |-> backing[id].state,
           generation  |-> backing[id].generation,
           fingerprint |-> backing[id].fingerprint ]
    ELSE Unobserved

\* The CR a server-side apply of the row leaves: unsuspended and stamped with
\* the generation; the status is not the control plane's to write.
AppliedBacking(row) ==
    [ state |-> IF cur \in DOMAIN backing THEN backing[cur].state ELSE "Provisioning",
      generation |-> row.generation, fingerprint |-> row.spec.body,
      suspend |-> FALSE, queue |-> queue ]

\* The provider's own progress on what was asked of it.
Settle(id) ==
    /\ id \in DOMAIN backing
    /\ LET b == backing[id]
       IN  \/ /\ b.suspend
              /\ b.state # "Suspended"
              /\ backing' = [backing EXCEPT ![id].state = "Suspended"]
           \/ /\ ~b.suspend
              /\ b.state \in {"Suspended", "Provisioning"}
              /\ backing' = [backing EXCEPT
                    ![id].state = IF @ = "Suspended" THEN "Provisioning"
                                  ELSE "Running"]
    /\ UNCHANGED <<store, backup, netpol, queued, loop, pending, now, load>>

\* Kueue holds an unadmitted workload suspended, and admits it later.
KueueSuspend(id) ==
    /\ id \in DOMAIN backing
    /\ backing[id].queue
    /\ \/ /\ ~backing[id].suspend
          /\ Spend("world")
          /\ backing' = [backing EXCEPT ![id].suspend = TRUE]
       \/ /\ backing[id].suspend
          /\ backing' = [backing EXCEPT ![id].suspend = FALSE]
          /\ UNCHANGED load
    /\ UNCHANGED <<store, backup, netpol, queued, loop, pending, now>>

\* Pods fail and recover.
Degrade(id) ==
    /\ id \in DOMAIN backing
    /\ \/ /\ backing[id].state \in {"Provisioning", "Running"}
          /\ Spend("degrade")
          /\ backing' = [backing EXCEPT ![id].state = "Degraded"]
       \/ /\ backing[id].state = "Degraded"
          /\ backing' = [backing EXCEPT ![id].state = "Running"]
          /\ UNCHANGED load
    /\ UNCHANGED <<store, backup, netpol, queued, loop, pending, now>>

\* Someone deletes or edits the CR behind the control plane's back.
Tamper(id) ==
    /\ id \in DOMAIN backing
    /\ Spend("world")
    /\ \/ backing' = Drop(backing, id)
       \/ backing' = [backing EXCEPT ![id].fingerprint = Edited]
       \/ backing' = [backing EXCEPT ![id].suspend = TRUE]
    /\ UNCHANGED <<store, backup, netpol, queued, loop, pending, now>>

-----------------------------------------------------------------------------
(* Boot: Reconciler::detect_stale_restore, then the loop is spawned.  A    *)
(* provider error only logs a warning and the loop starts unfenced.        *)

\* Mutant: the comparison the wrong way round.
StaleRestoreBehind ==
    \E id \in DOMAIN rows \cap DOMAIN backing :
        backing[id].generation < rows[id].generation

StaleRestore ==
    \E id \in DOMAIN rows \cap DOMAIN backing :
        backing[id].generation > rows[id].generation

DetectStaleRestore ==
    /\ pc = "boot"
    /\ pc' = "idle"
    /\ \/ quarantined' = (quarantined \/ StaleRestore) /\ UNCHANGED load
       \/ DOMAIN rows # {} /\ Spend("error") /\ UNCHANGED quarantined
    /\ UNCHANGED <<rows, intents, backup, provider, queued, todo, snap,
                   passNow, turn, pending, now>>

-----------------------------------------------------------------------------
(* One tick of Reconciler::run: reap_expired, reap_intents,                *)
(* reap_terminated, reconcile_all.  A store error ends the pass it occurs  *)
(* in and is logged; the next pass of the tick runs all the same.          *)

\* reap_expired lists the rows once and decides on that list.
ReapList ==
    /\ pc = "idle"
    /\ \/ /\ todo' = {id \in DOMAIN rows : IsExpired(rows[id], now)}
          /\ UNCHANGED load
       \/ todo' = {} /\ Spend("error")
    /\ pc' = "reap"
    /\ UNCHANGED <<store, backup, provider, queued, snap, passNow, turn,
                   pending, now>>

\* Mutant: the decision is logged and never written.
ReapExpiredUnwritten(id) ==
    /\ pc = "reap"
    /\ id \in todo
    /\ todo' = todo \ {id}
    /\ UNCHANGED <<store, backup, provider, queued, pc, snap, passNow, turn,
                   pending, now, load>>

\* ... and writes each decision; a row that vanished aborts the pass.
ReapExpired(id) ==
    /\ pc = "reap"
    /\ id \in todo
    /\ \/ /\ id \in DOMAIN rows
          /\ rows' = SetDesired(rows, id, "Terminated", now)
          /\ todo' = todo \ {id}
          /\ UNCHANGED load
       \/ id \notin DOMAIN rows /\ todo' = {} /\ UNCHANGED <<rows, load>>
       \/ Spend("error") /\ todo' = {} /\ UNCHANGED rows
    /\ UNCHANGED <<intents, quarantined, backup, provider, queued, pc, snap,
                   passNow, turn, pending, now>>

ReapIntentsPass ==
    /\ pc = "reap"
    /\ todo = {}
    /\ \/ /\ intents' = ReapIntents(intents, SaturatingSub(now, IntentRetention))
          /\ UNCHANGED load
       \/ Spend("error") /\ UNCHANGED intents
    /\ pc' = "sweepList"
    /\ UNCHANGED <<rows, quarantined, backup, provider, queued, todo, snap,
                   passNow, turn, pending, now>>

SweepList ==
    /\ pc = "sweepList"
    /\ \/ /\ todo' = {id \in DOMAIN rows :
                       IsPurgeableTombstone(rows[id], now, TerminatedRetention)}
          /\ UNCHANGED load
       \/ todo' = {} /\ Spend("error")
    /\ pc' = "sweep"
    /\ UNCHANGED <<store, backup, provider, queued, snap, passNow, turn,
                   pending, now>>

\* Mutant: the row goes, its NetworkPolicy stays.
ReapTerminatedRowOnly(id) ==
    /\ pc = "sweep"
    /\ id \in todo
    /\ todo' = todo \ {id}
    /\ rows' = Drop(rows, id)
    /\ UNCHANGED <<intents, quarantined, backup, provider, queued, pc, snap,
                   passNow, turn, pending, now, load>>

\* reap_network_policies, then remove_cluster; a provider error leaves the row
\* to a later pass, a store error the rest of the list with it.
ReapTerminated(id) ==
    /\ pc = "sweep"
    /\ id \in todo
    /\ \/ /\ netpol' = netpol \ {id}
          /\ rows' = Drop(rows, id)
          /\ todo' = todo \ {id}
          /\ UNCHANGED load
       \/ /\ Spend("error")
          /\ \/ netpol' \in {netpol, netpol \ {id}} /\ todo' = todo \ {id}
             \/ netpol' = netpol \ {id} /\ todo' = {}
          /\ UNCHANGED rows
    /\ UNCHANGED <<intents, quarantined, backup, backing, queued, pc, snap,
                   passNow, turn, pending, now>>

PassList ==
    /\ pc = "sweep"
    /\ todo = {}
    /\ \/ snap' = rows /\ UNCHANGED load
       \/ snap' = EmptyTable /\ Spend("error")
    /\ passNow' = now
    /\ pc' = "pass"
    /\ UNCHANGED <<store, backup, provider, queued, todo, turn, pending, now>>

\* Done with a cluster of the pass, whatever the outcome.
Done(id) ==
    /\ pc' = "pass"
    /\ snap' = Drop(snap, id)
    /\ cur' = Nobody
    /\ obs' = Unobserved
    /\ queue' = FALSE
    /\ act' = "NoOp"
    /\ cond' = Absent

PassEnd ==
    /\ pc = "pass"
    /\ DOMAIN snap = {}
    /\ pc' = "idle"
    /\ passNow' = 0
    /\ UNCHANGED <<store, backup, provider, queued, todo, snap, turn, pending,
                   now, load>>

-----------------------------------------------------------------------------
(* Reconciler::reconcile_one, on the row as listed. *)

row == snap[cur]

\* Mutant: the gate is open at the last second of the wait.
InBackoffShort(id) ==
    snap[id].desired = "Running" /\ passNow + 1 < snap[id].next_attempt_at

InBackoff(id) ==
    snap[id].desired = "Running" /\ passNow < snap[id].next_attempt_at

\* The backoff gate, then the first observation.
ReconcileOne(id) ==
    /\ pc = "pass"
    /\ id \in DOMAIN snap
    /\ \/ InBackoff(id) /\ Done(id) /\ UNCHANGED load
       \/ /\ ~InBackoff(id)
          /\ pc' = "observed"
          /\ cur' = id
          /\ obs' = Observe(id)
          /\ UNCHANGED <<snap, queue, act, cond, load>>
       \/ ~InBackoff(id) /\ Spend("error") /\ Done(id)
    /\ UNCHANGED <<store, backup, provider, queued, todo, passNow, pending,
                   now>>

\* Quarantine: record what was observed and actuate nothing.
ObserveOnly ==
    /\ pc = "observed"
    /\ quarantined
    /\ rows' = RecordObservation(rows, cur, obs.state, obs.generation)
    /\ Done(cur)
    /\ UNCHANGED <<intents, quarantined, backup, provider, queued, todo,
                   passNow, pending, now, load>>

GoTo(loc, action, condition) == pc' = loc /\ act' = action /\ cond' = condition

\* Mutant: no drift check.
DecideRunningBlind ==
    \/ /\ obs.state = "Degraded"
       /\ GoTo("reobserve", "Drift", "Degraded")
    \/ /\ obs.state # "Degraded"
       /\ NeedsApply(obs.state, obs.generation, row.generation, queue')
       /\ GoTo("begin", "Applied", Absent)
    \/ /\ obs.state # "Degraded"
       /\ ~NeedsApply(obs.state, obs.generation, row.generation, queue')
       /\ GoTo("reobserve", "NoOp", Absent)

DecideRunning ==
    \/ /\ obs.state = "Degraded"
       /\ GoTo("reobserve", "Drift", "Degraded")
    \/ /\ obs.state # "Degraded"
       /\ NeedsApply(obs.state, obs.generation, row.generation, queue')
       /\ GoTo("begin", "Applied", Absent)
    \/ /\ obs.state # "Degraded"
       /\ ~NeedsApply(obs.state, obs.generation, row.generation, queue')
       /\ IF obs.fingerprint \notin {Absent, row.spec.body}
          THEN GoTo("reobserve", "Drift", "SpecDrift")
          ELSE GoTo("reobserve", "NoOp", Absent)

\* Mutant: a suspended cluster holds no compute, so it is left alone.
DecideTerminatedIfUp ==
    IF obs.state \notin {Absent, "Terminated", "Suspended"}
    THEN GoTo("terminate", "Terminated", Absent)
    ELSE GoTo("reobserve", "NoOp", Absent)

DecideTerminated ==
    IF obs.state \notin {Absent, "Terminated"}
    THEN GoTo("terminate", "Terminated", Absent)
    ELSE GoTo("reobserve", "NoOp", Absent)

DecideSuspended ==
    IF /\ ~queue'
       /\ obs.state \notin {Absent, "Suspended", "Terminated", "Terminating"}
    THEN GoTo("suspend", "Suspended", Absent)
    ELSE GoTo("reobserve", "NoOp", Absent)

\* Mutant: the quarantine flag is not consulted.
DecideUnfenced ==
    /\ pc = "observed"
    /\ queue' = queued
    /\ CASE row.desired = "Running"    -> DecideRunning
         [] row.desired = "Terminated" -> DecideTerminated
         [] row.desired = "Suspended"  -> DecideSuspended
    /\ UNCHANGED <<store, backup, provider, queued, todo, snap, passNow, cur,
                   obs, pending, now, load>>

\* queue_assignment_for_project, then the arm of the desired state.
Decide ==
    /\ pc = "observed"
    /\ ~quarantined
    /\ queue' = queued
    /\ CASE row.desired = "Running"    -> DecideRunning
         [] row.desired = "Terminated" -> DecideTerminated
         [] row.desired = "Suspended"  -> DecideSuspended
    /\ UNCHANGED <<store, backup, provider, queued, todo, snap, passNow, cur,
                   obs, pending, now, load>>

\* take_token found the bucket empty: the cluster waits for a later tick.
\* (The bucket itself is the subject of ActuationPacing.)
DeferApply ==
    /\ pc = "begin"
    /\ Spend("defer")
    /\ Done(cur)
    /\ UNCHANGED <<store, backup, provider, queued, todo, passNow, pending,
                   now>>

\* Mutant: the call goes out without an intent.
BeginApplyUnlogged ==
    /\ pc = "begin"
    /\ pc' = "apply"
    /\ UNCHANGED <<store, backup, provider, queued, todo, snap, passNow, turn,
                   pending, now, load>>

\* Mutant: an intent that exists has been carried out.
BeginApplyOnce ==
    /\ pc = "begin"
    /\ LET key == IntentKey(cur, row)
           fp  == ParamsFingerprint(row.spec)
       IN  \/ key \in DOMAIN intents /\ Done(cur) /\ UNCHANGED intents
           \/ /\ key \notin DOMAIN intents
              /\ intents' = BeginIntent(intents, key, fp)
              /\ pc' = "apply"
              /\ UNCHANGED <<snap, turn>>
    /\ UNCHANGED <<rows, quarantined, backup, provider, queued, todo, passNow,
                   pending, now, load>>

\* begin_intent; a key held by other parameters refuses the actuation.
BeginApply ==
    /\ pc = "begin"
    /\ LET key == IntentKey(cur, row)
           fp  == ParamsFingerprint(row.spec)
       IN  \/ ParamMismatch(intents, key, fp) /\ Done(cur) /\ UNCHANGED intents
           \/ /\ ~ParamMismatch(intents, key, fp)
              /\ intents' = BeginIntent(intents, key, fp)
              /\ pc' = "apply"
              /\ UNCHANGED <<snap, turn>>
    /\ UNCHANGED <<rows, quarantined, backup, provider, queued, todo, passNow,
                   pending, now, load>>

\* ensure_namespace_posture and apply: NetworkPolicy first, then the CR.  An
\* error may be reported before, between or after the two writes.
Apply ==
    /\ pc = "apply"
    /\ \/ /\ netpol' = netpol \cup {cur}
          /\ backing' = Put(backing, cur, AppliedBacking(row))
          /\ pc' = "complete"
          /\ UNCHANGED <<snap, turn, load>>
       \/ /\ Spend("error")
          /\ \/ UNCHANGED provider
             \/ netpol' = netpol \cup {cur} /\ UNCHANGED backing
             \/ /\ netpol' = netpol \cup {cur}
                /\ backing' = Put(backing, cur, AppliedBacking(row))
          /\ Done(cur)
    /\ UNCHANGED <<store, backup, queued, todo, passNow, pending, now>>

CompleteApply ==
    /\ pc = "complete"
    /\ intents' = CompleteIntent(intents, IntentKey(cur, row), now)
    /\ pc' = "reobserve"
    /\ UNCHANGED <<rows, quarantined, backup, provider, queued, todo, snap,
                   passNow, turn, pending, now, load>>

\* terminate: the CR, then its NetworkPolicy; a CR already gone is success.
Terminate ==
    /\ pc = "terminate"
    /\ \/ /\ backing' = Drop(backing, cur)
          /\ netpol' = netpol \ {cur}
          /\ pc' = "reobserve"
          /\ UNCHANGED <<snap, turn, load>>
       \/ /\ Spend("error")
          /\ \/ UNCHANGED provider
             \/ backing' = Drop(backing, cur) /\ UNCHANGED netpol
             \/ backing' = Drop(backing, cur) /\ netpol' = netpol \ {cur}
          /\ Done(cur)
    /\ UNCHANGED <<store, backup, queued, todo, passNow, pending, now>>

\* Mutant: the patch writes the flag the wrong way round.
SuspendInverted ==
    /\ pc = "suspend"
    /\ cur \in DOMAIN backing
    /\ backing' = [backing EXCEPT ![cur].suspend = FALSE]
    /\ pc' = "reobserve"
    /\ UNCHANGED <<store, backup, netpol, queued, todo, snap, passNow, turn,
                   pending, now, load>>

\* suspend: a merge patch, an error when the CR is gone.
Suspend ==
    /\ pc = "suspend"
    /\ \/ /\ cur \in DOMAIN backing
          /\ backing' = [backing EXCEPT ![cur].suspend = TRUE]
          /\ pc' = "reobserve"
          /\ UNCHANGED <<snap, turn, load>>
       \/ cur \notin DOMAIN backing /\ Done(cur) /\ UNCHANGED <<backing, load>>
       \/ Spend("error") /\ Done(cur) /\ UNCHANGED backing
    /\ UNCHANGED <<store, backup, netpol, queued, todo, passNow, pending,
                   now>>

Reobserve ==
    /\ pc = "reobserve"
    /\ \/ /\ obs' = Observe(cur)
          /\ pc' = "record"
          /\ UNCHANGED <<snap, cur, queue, act, cond, load>>
       \/ Spend("error") /\ Done(cur)
    /\ UNCHANGED <<store, backup, provider, queued, todo, passNow, pending,
                   now>>

RecordStatus ==
    /\ pc = "record"
    /\ rows' = RecordObservation(rows, cur, obs.state, obs.generation)
    /\ pc' = "condition"
    /\ UNCHANGED <<intents, quarantined, backup, provider, queued, todo, snap,
                   passNow, turn, pending, now, load>>

\* Written only when it differs from the condition of the listed row.
RecordCondition ==
    /\ pc = "condition"
    /\ rows' = IF cond = row.condition THEN rows
               ELSE SetCondition(rows, cur, cond)
    /\ pc' = "attempt"
    /\ UNCHANGED <<intents, quarantined, backup, provider, queued, todo, snap,
                   passNow, turn, pending, now, load>>

BackoffSecs(failures) == BackoffDelay(BackoffBase, BackoffCeil, failures)

NoProgress ==
    act = "Applied" /\ obs.state \in {Absent, "Terminated", "Terminating"}

Progress ==
    \/ act = "Applied" /\ ~NoProgress
    \/ act = "NoOp" /\ row.desired = "Running"

\* Backoff accounting, on the counters of the listed row.
RecordProgress ==
    /\ pc = "attempt"
    /\ rows' = IF NoProgress
               THEN RecordAttempt(rows, cur, row.failure_count + 1,
                        passNow + BackoffSecs(row.failure_count + 1))
               ELSE IF /\ Progress
                       /\ row.failure_count # 0 \/ row.next_attempt_at # 0
               THEN RecordAttempt(rows, cur, 0, 0)
               ELSE rows
    /\ Done(cur)
    /\ UNCHANGED <<intents, quarantined, backup, provider, queued, todo,
                   passNow, pending, now, load>>

\* A store call of reconcile_one fails: `?' ends the cluster's turn.
StoreError ==
    /\ pc \in {"observed", "begin", "complete", "record", "condition",
               "attempt"}
    /\ Spend("error")
    /\ Done(cur)
    /\ UNCHANGED <<store, backup, provider, queued, todo, passNow, pending,
                   now>>

Reconciler ==
    \/ DetectStaleRestore
    \/ ReapList \/ ReapIntentsPass \/ SweepList \/ PassList \/ PassEnd
    \/ \E id \in Ids : ReapExpired(id) \/ ReapTerminated(id) \/ ReconcileOne(id)
    \/ ObserveOnly \/ Decide \/ DeferApply \/ BeginApply \/ Apply
    \/ CompleteApply \/ Terminate \/ Suspend \/ Reobserve
    \/ RecordStatus \/ RecordCondition \/ RecordProgress \/ StoreError

-----------------------------------------------------------------------------
(* The cluster API.  It is served once the lifecycle controller has booted.*)
(* Handlers read the row, decide, and write; where the decision does not   *)
(* depend on what was read, the handler is its write.                      *)

Serving == pc # "boot"

\* POST /api/v1/clusters; the owner is the caller.
CreateCluster(id, spec) ==
    /\ Serving
    /\ Spend("create")
    /\ rows' = UpsertDesired(rows, id, spec, now)
    /\ UNCHANGED <<intents, quarantined, backup, provider, queued, loop,
                   pending, now>>

\* DELETE /api/v1/clusters/{id}: 404 without a row.
DeleteCluster(id) ==
    /\ Serving
    /\ id \in DOMAIN rows
    /\ Spend("delete")
    /\ rows' = SetDesired(rows, id, "Terminated", now)
    /\ UNCHANGED <<intents, quarantined, backup, provider, queued, loop,
                   pending, now>>

\* DELETE ...?purge=true: the guard is evaluated on the row as fetched.
PurgeCheck(c, id) ==
    /\ Serving
    /\ pending[c] = NoRequest
    /\ id \in DOMAIN rows
    /\ IsTombstone(rows[id])
    /\ Spend("purge")
    /\ pending' = [pending EXCEPT ![c] = [op |-> "purge", id |-> id]]
    /\ UNCHANGED <<store, backup, provider, queued, loop, now>>

PurgeCluster(c) ==
    /\ pending[c].op = "purge"
    /\ rows' = Drop(rows, pending[c].id)
    /\ pending' = [pending EXCEPT ![c] = NoRequest]
    /\ UNCHANGED <<intents, quarantined, backup, provider, queued, loop, now,
                   load>>

TransitionalState(cmd) ==
    IF cmd = "suspend" THEN "Suspending" ELSE "Provisioning"

CommandDesired(cmd) == IF cmd = "suspend" THEN "Suspended" ELSE "Running"

\* POST .../suspend and .../resume: refused on a queue, on a Terminated
\* desired state, and on an illegal edge from the observed state.
LifecycleCheck(c, id, cmd) ==
    /\ Serving
    /\ pending[c] = NoRequest
    /\ id \in DOMAIN rows
    /\ ~queued
    /\ rows[id].desired # "Terminated"
    /\ CanTransition(rows[id].observed_state, TransitionalState(cmd))
    /\ Spend(cmd)
    /\ pending' = [pending EXCEPT ![c] = [op |-> cmd, id |-> id]]
    /\ UNCHANGED <<store, backup, provider, queued, loop, now>>

LifecycleCommand(c) ==
    /\ pending[c].op \in {"suspend", "resume"}
    /\ LET id == pending[c].id
       IN  rows' = IF id \notin DOMAIN rows THEN rows
                   ELSE SetDesired(rows, id, CommandDesired(pending[c].op), now)
    /\ pending' = [pending EXCEPT ![c] = NoRequest]
    /\ UNCHANGED <<intents, quarantined, backup, provider, queued, loop, now,
                   load>>

Handlers == \E c \in Clients : PurgeCluster(c) \/ LifecycleCommand(c)

Api ==
    \/ \E id \in Ids, spec \in ClusterSpec : CreateCluster(id, spec)
    \/ \E id \in Ids : DeleteCluster(id)
    \/ \E c \in Clients, id \in Ids :
          \/ PurgeCheck(c, id)
          \/ \E cmd \in {"suspend", "resume"} : LifecycleCheck(c, id, cmd)
    \/ Handlers

-----------------------------------------------------------------------------
(* The rest of the environment. *)

\* The project gains or loses its pool allocation (mobula-api/src/pools.rs).
ChangeAllocation ==
    /\ Spend("alloc")
    /\ queued' = ~queued
    /\ UNCHANGED <<store, backup, provider, loop, pending, now>>

\* The process dies and starts again: in-flight requests are lost with it.
Crash ==
    /\ Spend("crash")
    /\ pc' = "boot"
    /\ ResetLoop
    /\ pending' = [c \in Clients |-> NoRequest]
    /\ UNCHANGED <<store, backup, provider, queued, now>>

\* A backup no restore will read is of no consequence.
TakeBackup ==
    /\ load.spent["restore"] < load.limit["restore"]
    /\ Spend("backup")
    /\ backup' = Database
    /\ UNCHANGED <<store, provider, queued, loop, pending, now>>

\* The database is restored from the backup and the process restarted.
Restore ==
    /\ Spend("restore")
    /\ rows' = backup.rows
    /\ intents' = backup.intents
    /\ quarantined' = backup.quarantined
    /\ pc' = "boot"
    /\ ResetLoop
    /\ pending' = [c \in Clients |-> NoRequest]
    /\ UNCHANGED <<backup, provider, queued, now>>

\* The operator ends the quarantine after reviewing the restore.
ClearQuarantine ==
    /\ quarantined
    /\ Spend("clear")
    /\ quarantined' = FALSE
    /\ UNCHANGED <<rows, intents, backup, provider, queued, loop, pending,
                   now>>

\* The clock is bounded only while no row waits for it.
Waiting == \E id \in DOMAIN rows : now < rows[id].next_attempt_at

ClockTick ==
    /\ \/ Spend("clock")
       \/ Waiting /\ UNCHANGED load
    /\ now' = now + 1
    /\ UNCHANGED <<store, backup, provider, queued, loop, pending>>

Environment ==
    \/ \E id \in Ids : KueueSuspend(id) \/ Degrade(id) \/ Tamper(id)
    \/ ChangeAllocation \/ Crash \/ TakeBackup \/ Restore \/ ClearQuarantine
    \/ ClockTick

Next == Reconciler \/ Api \/ Environment \/ \E id \in Ids : Settle(id)

Spec == Init /\ [][Next]_vars

\* The task is always runnable, handlers finish, the provider settles, time
\* passes.
FairSpec ==
    /\ Spec
    /\ WF_vars(Reconciler)
    /\ WF_vars(Handlers)
    /\ WF_vars(ClockTick)
    /\ \A id \in Ids : WF_vars(Settle(id))
=============================================================================
