---------------------------- MODULE ClusterStore ----------------------------
(***************************************************************************)
(* The rows of the control-plane database that drive a cluster's life, and *)
(* the store operations on them, as pure operators: each takes the table   *)
(* as it stands and returns the table the operation leaves behind.         *)
(* mobula-controller/src/store.rs (module memory) is the reference; the    *)
(* SQLite and Postgres stores run the same read-modify-write in one        *)
(* transaction, so every operation is one step of the database.            *)
(***************************************************************************)
EXTENDS Pacing, Tables

CONSTANTS
    Ids,        \* cluster ids
    Bodies,     \* the part of a ClusterSpec that spec_changed compares
    Owners,     \* the part it does not: spec.owner, set from the caller
    TtlOf       \* Bodies -> ttl_seconds, NoTime when the spec has none

\* Option<u64>::None for a timestamp or a ttl.
NoTime == -1

ASSUME TtlAssumption == TtlOf \in [Bodies -> Nat \cup {NoTime}]

-----------------------------------------------------------------------------
(* Cluster states: the reporting vocabulary and the table that validates   *)
(* user-issued lifecycle commands.  "Absent" is Option::None.              *)

Absent == "Absent"

ClusterState ==
    { "Pending", "Provisioning", "Running", "Degraded", "Updating",
      "Suspending", "Suspended", "Terminating", "Terminated" }

Transitions ==
       {"Pending"}      \X {"Provisioning", "Terminating"}
  \cup {"Provisioning"} \X {"Running", "Degraded", "Terminating"}
  \cup {"Running"}      \X {"Degraded", "Updating", "Suspending", "Terminating"}
  \cup {"Degraded"}     \X {"Running", "Terminating"}
  \cup {"Updating"}     \X {"Running", "Degraded"}
  \cup {"Suspending"}   \X {"Suspended"}
  \cup {"Suspended"}    \X {"Provisioning", "Terminating"}
  \cup {"Terminating"}  \X {"Terminated"}

CanTransition(from, to) == <<from, to>> \in Transitions

DesiredState == {"Running", "Suspended", "Terminated"}
DriftCondition == {"SpecDrift", "Degraded"}

-----------------------------------------------------------------------------
(* Rows. *)

ClusterSpec == [body : Bodies, owner : Owners]

StoredCluster ==
    [ spec                : ClusterSpec,
      generation          : Nat \ {0},
      desired             : DesiredState,
      observed_state      : ClusterState \cup {Absent},
      observed_generation : Nat,
      condition           : DriftCondition \cup {Absent},
      failure_count       : Nat,
      next_attempt_at     : Nat,
      created_at          : Nat,
      terminated_at       : Nat \cup {NoTime} ]

\* The fields that bump the generation: everything but owner and engine.
SpecChanged(a, b) == a.body # b.body

\* The JSON of the whole spec: two specs have the same fingerprint only if
\* they agree on every field, owner included.
ParamsFingerprint(spec) == <<spec.body, spec.owner>>

IntentKey(id, row) == <<id, row.generation>>

-----------------------------------------------------------------------------
(* Operations on the clusters table. *)

\* Mutant: generations count from 0.
NewClusterFromZero(spec, now) ==
    [ spec |-> spec, generation |-> 0, desired |-> "Running",
      observed_state |-> Absent, observed_generation |-> 0,
      condition |-> Absent, failure_count |-> 0, next_attempt_at |-> 0,
      created_at |-> now, terminated_at |-> NoTime ]

NewCluster(spec, now) ==
    [ spec |-> spec, generation |-> 1, desired |-> "Running",
      observed_state |-> Absent, observed_generation |-> 0,
      condition |-> Absent, failure_count |-> 0, next_attempt_at |-> 0,
      created_at |-> now, terminated_at |-> NoTime ]

\* An existing row keeps everything but its spec, and its generation when the
\* spec did not change.
UpsertDesired(rows, id, spec, now) ==
    Put(rows, id,
        IF id \notin DOMAIN rows THEN NewCluster(spec, now)
        ELSE [rows[id] EXCEPT
                !.spec = spec,
                !.generation = IF SpecChanged(rows[id].spec, spec)
                               THEN @ + 1 ELSE @])

\* Mutant: the tombstone clock is never started.
SetDesiredUnstamped(rows, id, desired, now) ==
    [rows EXCEPT ![id].desired = desired]

\* The caller handles the missing row: the store answers an error.
SetDesired(rows, id, desired, now) ==
    [rows EXCEPT
        ![id].desired = desired,
        ![id].terminated_at = IF desired # "Terminated" THEN NoTime
                              ELSE IF @ = NoTime THEN now ELSE @]

\* A missing row is silently skipped; the observed generation never goes back.
RecordObservation(rows, id, state, generation) ==
    IF id \notin DOMAIN rows THEN rows
    ELSE [rows EXCEPT
            ![id].observed_state = state,
            ![id].observed_generation = IF generation > @ THEN generation
                                        ELSE @]

SetCondition(rows, id, condition) ==
    IF id \notin DOMAIN rows THEN rows
    ELSE [rows EXCEPT ![id].condition = condition]

RecordAttempt(rows, id, failures, next) ==
    IF id \notin DOMAIN rows THEN rows
    ELSE [rows EXCEPT ![id].failure_count = failures,
                      ![id].next_attempt_at = next]

-----------------------------------------------------------------------------
(* The outbox: one intent per key, opened before the provider call and     *)
(* completed after it.                                                     *)

IntentStatus == {"Pending", "Applied"}

IntentRecord ==
    [ params_fingerprint : Bodies \X Owners,
      status             : IntentStatus,
      completed_at       : Nat \cup {NoTime} ]

IntentKeys == Ids \X (Nat \ {0})

\* IntentOutcome::ParamMismatch
ParamMismatch(intents, key, fp) ==
    key \in DOMAIN intents /\ intents[key].params_fingerprint # fp

\* IntentOutcome::Proceed: an existing row is left exactly as it was.
BeginIntent(intents, key, fp) ==
    IF key \in DOMAIN intents THEN intents
    ELSE Put(intents, key,
             [ params_fingerprint |-> fp, status |-> "Pending",
               completed_at |-> NoTime ])

CompleteIntent(intents, key, now) ==
    IF key \notin DOMAIN intents THEN intents
    ELSE [intents EXCEPT ![key].status = "Applied", ![key].completed_at = now]

\* Only completed intents age out; a Pending one stays for ever.
ReapIntents(intents, cutoff) ==
    LET reaped == { k \in DOMAIN intents :
                      /\ intents[k].status = "Applied"
                      /\ intents[k].completed_at # NoTime
                      /\ intents[k].completed_at < cutoff }
    IN  [k \in DOMAIN intents \ reaped |-> intents[k]]

-----------------------------------------------------------------------------
(* Predicates of the reapers and of the purge guard. *)

ObservedGone(state) == state \in {Absent, "Terminated"}

\* Mutant: a row still tearing down counts as dead.
IsTombstoneByDesire(row) == row.desired = "Terminated"

IsTombstone(row) == row.desired = "Terminated" /\ ObservedGone(row.observed_state)

IsPurgeableTombstone(row, now, retention) ==
    /\ IsTombstone(row)
    /\ row.terminated_at # NoTime
    /\ SaturatingSub(now, row.terminated_at) >= retention

IsExpired(row, now) ==
    /\ row.desired = "Running"
    /\ row.observed_state = "Running"
    /\ TtlOf[row.spec.body] # NoTime
    /\ SaturatingSub(now, row.created_at) >= TtlOf[row.spec.body]

\* Mutant: suspension is always repaired, whoever owns it.
NeedsApplyDespiteQueue(observed, observedGen, desiredGen, queued) ==
    CASE observed \in {Absent, "Terminated", "Terminating", "Suspended"} -> TRUE
      [] OTHER -> observedGen < desiredGen

\* Mutant: a live cluster is never behind.
NeedsApplyIfDown(observed, observedGen, desiredGen, queued) ==
    CASE observed \in {Absent, "Terminated", "Terminating"} -> TRUE
      [] observed = "Suspended" -> ~queued
      [] OTHER -> FALSE

\* Whether the Running arm re-applies: nothing provisioned, gone, suspended
\* by someone other than the queue, or behind the desired generation.
NeedsApply(observed, observedGen, desiredGen, queued) ==
    CASE observed \in {Absent, "Terminated", "Terminating"} -> TRUE
      [] observed = "Suspended" -> ~queued
      [] OTHER -> observedGen < desiredGen
=============================================================================
