------------------------- MODULE ClusterProperties -------------------------
(***************************************************************************)
(* What the reconcile loop, the cluster API and the provider promise       *)
(* together, stated on the tables and the provider's objects.  Which of    *)
(* these the code keeps, under which workload, is recorded in README.md.   *)
(***************************************************************************)
EXTENDS ClusterLifecycle

\* No event of these kinds has happened yet.
Never(kinds) == \A kind \in kinds : load.spent[kind] = 0

\* A step in which the apply of the Running arm writes the CR of id.
Actuated(id) ==
    /\ pc = "apply"
    /\ cur = id
    /\ pc' \notin {"apply", "boot"}
    /\ id \in DOMAIN backing'
    /\ pc' = "complete" \/ backing' # backing

-----------------------------------------------------------------------------
(* Safety. *)

\* The transactional outbox (ADR-0007): whenever the provider is given a
\* generation of a cluster, the outbox already holds the intent of that key,
\* and for the parameters given.
IntentBeforeActuation ==
    [][\A id \in Ids : Actuated(id) =>
          LET key == <<id, backing'[id].generation>>
          IN  /\ key \in DOMAIN intents
              /\ intents[key].params_fingerprint[1] = backing'[id].fingerprint]_vars

\* No stomp: a stale snapshot, a crash and replay, a restored database, a row
\* created anew: none of them takes a CR back to an older generation.  Only the
\* repair of a suspension that no queue owns may, since needs_apply compares
\* the generations of everything else.
LiveNeverRollsBack ==
    [][\A id \in DOMAIN backing \cap DOMAIN backing' :
          \/ backing'[id].generation >= backing[id].generation
          \/ pc = "apply" /\ obs.state = "Suspended" /\ ~queue]_vars

\* Every call is answered, no operator lifts the quarantine, and no row is
\* removed, by a command, by expiry, or by more than one restore: a cluster
\* whose row is gone and who is created again starts over at generation 1.
RowsLast ==
    /\ Never({"error", "clear", "purge", "delete"})
    /\ load.limit["restore"] <= 1
    /\ \A body \in Bodies : TtlOf[body] = NoTime

\* And that repair does not either, for the clusters the backup knows of: the
\* boot check (detect_stale_restore) compares them with the provider, and
\* nothing is repaired while they are ahead of the restored rows.
KnownNeverRollsBack ==
    [][RowsLast =>
          \A id \in DOMAIN backing \cap DOMAIN backing' \cap DOMAIN backup.rows :
              backing'[id].generation >= backing[id].generation]_vars

\* The backoff gate: no apply happens before the row's next-attempt time, even
\* though the gate read a snapshot.
BackoffRespected ==
    [][\A id \in DOMAIN rows :
          Actuated(id) => now >= rows[id].next_attempt_at]_vars

\* A CR has a row that accounts for it, so some pass will visit it; only the
\* cluster in hand may be ahead of the table.
NoOrphan == DOMAIN backing \subseteq DOMAIN rows \cup {cur}

\* As long as every call is answered and no user purges, the retention sweep
\* (reap_terminated) leaves no orphan: it waits for the teardown to be observed.
SweepLeavesNoOrphan ==
    Never({"purge", "error", "crash", "restore"}) => NoOrphan

\* A per-cluster NetworkPolicy whose CR is gone still has the row that says it
\* is owed a reap, through crashes and provider errors; only a purge or a
\* restore may lose it.
NoPolicyLeak ==
    Never({"purge", "restore"}) =>
        netpol \subseteq DOMAIN rows \cup DOMAIN backing \cup {cur}

\* The restore fence (ADR-0007): while quarantined the loop changes no CR.
QuarantineFence ==
    [][quarantined /\ loop' # loop => UNCHANGED backing]_vars

\* Kueue owns spec.suspend of a queued cluster: an apply that carries the queue
\* label never unsuspends it unless a newer generation has to roll out.
QueueOwnsSuspend ==
    [][\A id \in DOMAIN backing \cap DOMAIN backing' :
          /\ Actuated(id)
          /\ backing[id].suspend
          /\ backing'[id].queue
          => backing'[id].generation > backing[id].generation]_vars

\* A spec the API accepted is a spec the loop will drive.
AcceptedSpecIsDriven ==
    [][\A id \in DOMAIN rows \cap DOMAIN rows' :
          rows'[id].spec # rows[id].spec /\ pc' # "boot"
          => rows'[id].desired # "Terminated"]_vars

\* Two specs with the same generation have the same fingerprint: the intent of
\* a row's key, where there is one, is for the row's own parameters.
GenerationDeterminesFingerprint ==
    \A id \in DOMAIN rows :
        ~ParamMismatch(intents, IntentKey(id, rows[id]), ParamsFingerprint(rows[id].spec))

-----------------------------------------------------------------------------
(* Liveness, under FairSpec.  Every workload is finite, so "from some point  *)
(* on" is after its last command and fault.                                  *)

Wants(id, desired) == id \in DOMAIN rows /\ rows[id].desired = desired

AtGeneration(id) ==
    /\ id \in DOMAIN backing
    /\ id \in DOMAIN rows
    /\ backing[id].generation = rows[id].generation

\* Suspended, in a project that has a queue: the loop leaves the CR to Kueue,
\* whether or not it carries the queue's label.
LeftToQueue(id) == queued /\ id \in DOMAIN backing /\ backing[id].suspend

\* A cluster that stays desired Running ends up carrying the desired
\* generation, and the row reports it; only one left to its project's queue is
\* not given a generation.
GenerationConverges ==
    \A id \in Ids :
        <>[]Wants(id, "Running") =>
            <>[]\/ LeftToQueue(id)
                \/ /\ AtGeneration(id)
                   /\ rows[id].observed_generation = rows[id].generation

\* A cluster that stays desired Running ends up running, or left to the queue
\* its project has; a suspension is repaired once the queue is gone.
ComesUp ==
    \A id \in Ids :
        <>[]Wants(id, "Running") =>
            <>[]\/ LeftToQueue(id)
                \/ id \in DOMAIN backing /\ backing[id].state = "Running"

\* A cluster that stays desired Terminated ends up without a CR, whatever went
\* wrong on the way; so does one whose row the sweep removed, when every call
\* was answered and nobody purged it.
TeardownConverges ==
    \A id \in Ids :
        <>[]\/ Wants(id, "Terminated")
            \/ id \notin DOMAIN rows /\ Never({"purge", "error", "crash", "restore"})
        => <>[](id \notin DOMAIN backing)

\* A cluster that stays desired Suspended outside any queue ends up suspended
\* or gone.
SuspendConverges ==
    \A id \in Ids :
        <>[](Wants(id, "Suspended") /\ ~queued) =>
            <>[](id \in DOMAIN backing => backing[id].suspend)

\* A tombstone past its retention is removed, and unless a user purged it its
\* NetworkPolicy with it; or a command that was in flight brings it back.
TombstonesSwept ==
    \A id \in Ids :
        Wants(id, "Terminated") /\ now >= rows[id].terminated_at + TerminatedRetention
        ~> \/ id \in DOMAIN rows /\ rows[id].desired # "Terminated"
           \/ id \notin DOMAIN rows /\ (Never({"purge"}) => id \notin netpol)

\* A row whose ttl has passed while the cluster runs is released.
ExpiryReaps ==
    \A id \in Ids :
        id \in DOMAIN rows /\ IsExpired(rows[id], now)
        ~> ~(id \in DOMAIN rows /\ IsExpired(rows[id], now))

\* An out-of-band edit that persists under a live cluster is alarmed.
DriftIsAlarmed ==
    \A id \in Ids :
        <>[]/\ Wants(id, "Running")
            /\ AtGeneration(id)
            /\ backing[id].state = "Running"
            /\ backing[id].fingerprint = Edited
        => <>[](id \in DOMAIN rows /\ rows[id].condition = "SpecDrift")

-----------------------------------------------------------------------------
(* What makes the properties of apply inductive. *)

\* An apply about to go out has its intent, for the parameters of the row in
\* hand.
IntentLogged ==
    pc = "apply" =>
        LET key == IntentKey(cur, row)
        IN  /\ key \in DOMAIN intents
            /\ intents[key].params_fingerprint = ParamsFingerprint(row.spec)

\* The rows of a pass: the backoff of a row only ever shrinks between listing
\* and visiting it, since its visit is what extends it.
SnapshotNotEarlier ==
    \A id \in DOMAIN snap \cap DOMAIN rows :
        rows[id].next_attempt_at <= snap[id].next_attempt_at

\* Past the gate: a Running row in hand was due when the pass began.
PastGate ==
    /\ passNow <= now
    /\ pc \in PerCluster /\ row.desired = "Running" => row.next_attempt_at <= passNow
    /\ pc \in {"begin", "apply"} => row.desired = "Running"

\* No actuation is in flight while quarantined: the flag rises only at boot.
FencedOff ==
    quarantined => pc \notin {"begin", "apply", "terminate", "suspend"}

\* The inductive invariant of the reconcile task.
TaskInv == IntentLogged /\ SnapshotNotEarlier /\ PastGate /\ FencedOff

\* The rows in hand are listed at the start of a pass and worked off by its
\* end: outside a pass there are none.
SnapOnlyInPass == pc \notin PerCluster \cup {"pass"} => DOMAIN snap = {}

\* A purge past its guard has been counted.
PurgeCounted ==
    \A c \in Clients : pending[c].op = "purge" => load.spent["purge"] > 0

\* Why no NetworkPolicy is leaked: what a pass works on, and so every policy it
\* makes, still has its row, since only the sweep between two passes removes
\* one, after its policy.
PolicyHasRow ==
    Never({"purge", "restore"}) =>
        /\ DOMAIN snap \subseteq DOMAIN rows
        /\ netpol \subseteq DOMAIN rows

\* Why the sweep leaves no orphan: a CR whose row says it is gone is the one
\* just written, which the same turn observes and records; so what the sweep
\* listed as dead has no CR.
DeadRowsAreDead ==
    Never({"purge", "error", "crash", "restore"}) =>
        /\ DOMAIN backing \subseteq DOMAIN rows
        /\ \A id \in DOMAIN backing :
              ObservedGone(rows[id].observed_state) =>
                  id = cur /\ pc \in {"complete", "reobserve", "record"}
        /\ pc \in {"observed", "record"} /\ cur \in DOMAIN backing =>
              ~ObservedGone(obs.state)
        /\ pc = "sweep" => todo \cap DOMAIN backing = {}

\* The inductive invariant of the garbage collectors.
SweepInv == SnapOnlyInPass /\ PurgeCounted /\ PolicyHasRow /\ DeadRowsAreDead

\* Why an apply takes no CR back: nobody else moves a CR's generation, so one
\* whose observation asked for an apply is still behind the row in hand, or
\* was suspended by someone other than the queue.
ObservedBehind ==
    /\ pc = "observed" /\ cur \in DOMAIN backing =>
          obs.state \in BackingState /\ obs.generation = backing[cur].generation
    /\ pc \in {"begin", "apply"} /\ cur \in DOMAIN backing =>
          \/ backing[cur].generation < row.generation
          \/ obs.state = "Suspended" /\ ~queue

\* Rows and backups only grow, nothing is to be reaped, and the rows in hand
\* are not ahead of the table.
NothingReaped ==
    /\ \A id \in DOMAIN rows : rows[id].desired # "Terminated"
    /\ \A id \in DOMAIN backup.rows : backup.rows[id].desired # "Terminated"
    /\ DOMAIN backup.rows \subseteq DOMAIN rows
    /\ pc \in {"reap", "sweep"} => todo = {}
    /\ \A id \in DOMAIN snap : id \in DOMAIN rows
                               /\ snap[id].generation <= rows[id].generation

\* A CR is not ahead of its row, listed or stored, unless the loop is fenced or
\* has yet to compare them.
NotAhead(id) ==
    \/ pc = "boot" \/ quarantined
    \/ /\ backing[id].generation <= rows[id].generation
       /\ id \in DOMAIN snap => backing[id].generation <= snap[id].generation

\* Why a known cluster is not taken back: before the restore every CR has a
\* row, and after it those of the backup do.
KnownCovered ==
    RowsLast =>
        /\ NothingReaped
        /\ \A id \in DOMAIN backing :
              load.spent["restore"] = 0 \/ id \in DOMAIN backup.rows =>
                  id \in DOMAIN rows /\ NotAhead(id)
=============================================================================
