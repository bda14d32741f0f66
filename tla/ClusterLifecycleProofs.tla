----------------------- MODULE ClusterLifecycleProofs -----------------------
(***************************************************************************)
(* What the reconcile loop guarantees, for any ids, specs, retentions,     *)
(* backoff constants and budgets: the outbox, the backoff gate and the     *)
(* restore fence, from the inductive invariant of the reconcile task; that *)
(* the garbage collectors lose nothing, from theirs; and what an apply may *)
(* never do to a CR.                                                       *)
(***************************************************************************)
EXTENDS ClusterTypeProofs

\* Counts and generations are ordered as numbers are.
LEMMA Ordered ==
    /\ ~(0 > 0)
    /\ \A a \in Nat : a <= a /\ a >= a
    /\ \A a, b, c \in Nat : a <= b /\ b <= c => a <= c
OBVIOUS

\* No CR appears, and none moves to another generation.
GenerationsKept ==
    \A id \in DOMAIN backing' :
        /\ id \in DOMAIN backing
        /\ backing'[id].generation = backing[id].generation

\* An edit of another field of a CR keeps them.
LEMMA FieldEdited ==
    ASSUME \A id \in DOMAIN backing : backing[id] \in Backing,
           NEW k \in DOMAIN backing, NEW v,
           \/ backing' = [backing EXCEPT ![k].state = v]
           \/ backing' = [backing EXCEPT ![k].suspend = v]
           \/ backing' = [backing EXCEPT ![k].fingerprint = v]
    PROVE  GenerationsKept
BY DEF Backing, GenerationsKept

\* A step outside the task that delays no row, logs or forgets no intent and
\* does not raise the quarantine keeps the invariant.
LEMMA TaskFrame ==
    ASSUME TypeOK, TaskInv, UNCHANGED <<loop, intents>>, NoLater(rows, rows'),
           now <= now', now' \in Nat, quarantined' => quarantined
    PROVE  TaskInv'
<1>1. IntentLogged'
  BY DEF TaskInv, IntentLogged, loop, turn, row, IntentKey
<1>2. SnapshotNotEarlier'
  BY DEF TaskInv, SnapshotNotEarlier, NoLater, loop, TypeOK, IsTable,
         StoredCluster
<1>3. PastGate'
  BY DEF TaskInv, PastGate, loop, turn, row, TypeOK
<1>4. FencedOff'
  BY DEF TaskInv, FencedOff, loop
<1>5. QED BY <1>1, <1>2, <1>3, <1>4 DEF TaskInv

\* Ending a cluster's turn keeps the invariant if no other row is delayed.
LEMMA TaskDone ==
    ASSUME TypeOK, TaskInv, Done(cur), pc \in PerCluster,
           \/ NoLater(rows, rows')
           \/ /\ DOMAIN rows' = DOMAIN rows
              /\ \A x \in DOMAIN rows \ {cur} : rows'[x] = rows[x],
           UNCHANGED <<passNow, now>>
    PROVE  TaskInv'
<1>1. IntentLogged' /\ FencedOff'
  BY DEF Done, IntentLogged, FencedOff
<1>2. SnapshotNotEarlier'
  BY DEF TaskInv, SnapshotNotEarlier, NoLater, Done, Drop, TypeOK, IsTable,
         StoredCluster
<1>3. PastGate'
  BY DEF TaskInv, PastGate, Done, PerCluster
<1>4. QED BY <1>1, <1>2, <1>3 DEF TaskInv

\* Moving on within a cluster's turn, anywhere but into or out of an
\* actuation, keeps the invariant if no row is delayed.
LEMMA TaskMove ==
    ASSUME TypeOK, TaskInv, pc \in PerCluster,
           pc' \in {"complete", "reobserve", "record", "condition", "attempt"},
           UNCHANGED <<snap, cur, passNow, now, quarantined>>,
           NoLater(rows, rows')
    PROVE  TaskInv'
<1>1. IntentLogged' /\ FencedOff'
  BY DEF IntentLogged, FencedOff
<1>2. SnapshotNotEarlier'
  BY DEF TaskInv, SnapshotNotEarlier, NoLater, TypeOK, IsTable, StoredCluster
<1>3. PastGate'
  BY DEF TaskInv, PastGate, row, PerCluster
<1>4. QED BY <1>1, <1>2, <1>3 DEF TaskInv

\* An untouched table delays no row.
LEMMA SameNoLater == rows' = rows => NoLater(rows, rows')
BY DEF NoLater

\* A step of the reap and sweep passes keeps the invariant.
LEMMA TaskBetween ==
    ASSUME TypeOK, TaskInv, NoLater(rows, rows'), snap' = snap,
           pc' \in {"idle", "reap", "sweepList", "sweep", "pass"},
           passNow' <= now', passNow' \in Nat
    PROVE  TaskInv'
<1>1. IntentLogged' /\ FencedOff' /\ PastGate'
  BY DEF IntentLogged, FencedOff, PastGate, PerCluster
<1>2. SnapshotNotEarlier'
  BY DEF TaskInv, SnapshotNotEarlier, NoLater, TypeOK, IsTable, StoredCluster
<1>3. QED BY <1>1, <1>2 DEF TaskInv

\* Every step of the reconcile task keeps the invariant.
LEMMA ReconcilerTask == ASSUME TypeOK, TaskInv, Reconciler PROVE TaskInv'
<1>0. /\ IsTable(rows, Ids, StoredCluster)
      /\ passNow \in Nat /\ now \in Nat /\ passNow <= now
  BY DEF TypeOK, DatabaseOK, Database, TaskInv, PastGate
<1>1. CASE DetectStaleRestore
  BY <1>0, <1>1, SameNoLater, TaskBetween DEF DetectStaleRestore
<1>2. CASE ReapList
  BY <1>0, <1>2, SameNoLater, TaskBetween DEF ReapList, store
<1>3. CASE ReapIntentsPass
  BY <1>0, <1>3, SameNoLater, TaskBetween DEF ReapIntentsPass
<1>4. CASE SweepList
  BY <1>0, <1>4, SameNoLater, TaskBetween DEF SweepList, store
<1>5. CASE PassList
  <2>1. IntentLogged' /\ FencedOff' /\ PastGate'
    BY <1>0, <1>5 DEF PassList, IntentLogged, FencedOff, PastGate, PerCluster
  <2>2. SnapshotNotEarlier'
    BY <1>0, <1>5
       DEF PassList, SnapshotNotEarlier, EmptyTable, store, IsTable, StoredCluster
  <2>3. QED BY <2>1, <2>2 DEF TaskInv
<1>6. CASE PassEnd
  BY <1>0, <1>6, SameNoLater, TaskBetween DEF PassEnd, store
<1>7. ASSUME NEW id \in Ids, ReapExpired(id) PROVE TaskInv'
  <2>1. NoLater(rows, rows')
    BY <1>0, <1>7, SameNoLater, SetDesiredNoLater DEF ReapExpired
  <2>2. QED BY <1>0, <1>7, <2>1, TaskBetween DEF ReapExpired
<1>8. ASSUME NEW id \in Ids, ReapTerminated(id) PROVE TaskInv'
  <2>1. NoLater(rows, rows')
    BY <1>8, SameNoLater, DropNoLater DEF ReapTerminated
  <2>2. QED BY <1>0, <1>8, <2>1, TaskBetween DEF ReapTerminated
<1>9. ASSUME NEW id \in Ids, ReconcileOne(id) PROVE TaskInv'
  <2>1. IntentLogged' /\ FencedOff'
    BY <1>9 DEF ReconcileOne, Done, IntentLogged, FencedOff
  <2>2. SnapshotNotEarlier'
    BY <1>9 DEF ReconcileOne, Done, Drop, TaskInv, SnapshotNotEarlier, store
  <2>3. PastGate'
    <3>1. CASE InBackoff(id) \/ Done(id)
      BY <1>0, <1>9, <3>1 DEF ReconcileOne, Done, PastGate, PerCluster
    <3>2. CASE ~InBackoff(id) /\ ~Done(id)
      <4>1. snap[id].next_attempt_at \in Nat
        BY <1>9 DEF ReconcileOne, TypeOK, IsTable, StoredCluster
      <4>2. QED BY <1>0, <1>9, <3>2, <4>1
                DEF ReconcileOne, InBackoff, PastGate, PerCluster, row
    <3>3. QED BY <3>1, <3>2
  <2>4. QED BY <2>1, <2>2, <2>3 DEF TaskInv
<1>10. CASE ObserveOnly
  BY <1>0, <1>10, RecordObservationNoLater, TaskDone DEF ObserveOnly, PerCluster
<1>11. CASE Decide
  <2>1. pc' \in {"begin", "terminate", "suspend", "reobserve"}
    <3>0. row.desired \in DesiredState
      BY <1>11, RowType, TypeParts DEF Decide, PerCluster, StoredCluster
    <3>1. QED BY <1>11, <3>0 DEF Decide, DecideRunning, DecideTerminated,
                                 DecideSuspended, GoTo, DesiredState
  <2>2. pc' = "begin" => row.desired = "Running"
    <3>0. row.desired \in DesiredState
      BY <1>11, RowType, TypeParts DEF Decide, PerCluster, StoredCluster
    <3>1. QED BY <1>11, <3>0 DEF Decide, DecideTerminated, DecideSuspended,
                                 GoTo, DesiredState
  <2>3. IntentLogged' /\ FencedOff'
    BY <1>11, <2>1 DEF Decide, IntentLogged, FencedOff, store
  <2>4. SnapshotNotEarlier'
    BY <1>11 DEF Decide, TaskInv, SnapshotNotEarlier, store
  <2>5. PastGate'
    BY <1>11, <2>1, <2>2 DEF Decide, TaskInv, PastGate, PerCluster, row
  <2>6. QED BY <2>3, <2>4, <2>5 DEF TaskInv
<1>12. CASE DeferApply
  BY <1>0, <1>12, SameNoLater, TaskDone DEF DeferApply, PerCluster, store
<1>13. CASE BeginApply
  <2>0. pc \in PerCluster
    BY <1>13 DEF BeginApply, PerCluster
  <2>1. CASE Done(cur)
    BY <1>0, <1>13, <2>0, <2>1, SameNoLater, TaskDone DEF BeginApply
  <2>2. CASE ~Done(cur)
    <3> DEFINE key == IntentKey(cur, row)
               fp  == ParamsFingerprint(row.spec)
    <3>1. /\ ~ParamMismatch(intents, key, fp)
          /\ intents' = BeginIntent(intents, key, fp)
          /\ pc' = "apply"
          /\ UNCHANGED <<snap, cur>>
      BY <1>13, <2>2 DEF BeginApply, turn
    <3>2. /\ key \in DOMAIN intents'
          /\ intents'[key].params_fingerprint = fp
      BY <2>0, <3>1, RowType, TypeParts, BeginIntentType DEF RestOK
    <3>3. IntentLogged'
      BY <3>1, <3>2 DEF IntentLogged, row
    <3>4. SnapshotNotEarlier'
      BY <1>13, <3>1 DEF BeginApply, TaskInv, SnapshotNotEarlier
    <3>5. PastGate'
      BY <1>13, <3>1 DEF BeginApply, TaskInv, PastGate, PerCluster, row
    <3>6. FencedOff'
      BY <1>13 DEF BeginApply, TaskInv, FencedOff
    <3>7. QED BY <3>3, <3>4, <3>5, <3>6 DEF TaskInv
  <2>3. QED BY <2>1, <2>2
<1>14. CASE Apply
  <2>1. CASE Done(cur)
    BY <1>0, <1>14, <2>1, SameNoLater, TaskDone DEF Apply, PerCluster, store
  <2>2. CASE ~Done(cur)
    BY <1>0, <1>14, <2>2, SameNoLater, TaskMove DEF Apply, PerCluster, store, turn
  <2>3. QED BY <2>1, <2>2
<1>15. CASE CompleteApply
  BY <1>0, <1>15, SameNoLater, TaskMove DEF CompleteApply, PerCluster, turn
<1>16. CASE Terminate
  <2>1. CASE Done(cur)
    BY <1>0, <1>16, <2>1, SameNoLater, TaskDone DEF Terminate, PerCluster, store
  <2>2. CASE ~Done(cur)
    BY <1>0, <1>16, <2>2, SameNoLater, TaskMove
       DEF Terminate, PerCluster, store, turn
  <2>3. QED BY <2>1, <2>2
<1>17. CASE Suspend
  <2>1. CASE Done(cur)
    BY <1>0, <1>17, <2>1, SameNoLater, TaskDone DEF Suspend, PerCluster, store
  <2>2. CASE ~Done(cur)
    BY <1>0, <1>17, <2>2, SameNoLater, TaskMove
       DEF Suspend, PerCluster, store, turn
  <2>3. QED BY <2>1, <2>2
<1>18. CASE Reobserve
  <2>1. CASE Done(cur)
    BY <1>0, <1>18, <2>1, SameNoLater, TaskDone DEF Reobserve, PerCluster, store
  <2>2. CASE ~Done(cur)
    BY <1>0, <1>18, <2>2, SameNoLater, TaskMove DEF Reobserve, PerCluster, store
  <2>3. QED BY <2>1, <2>2
<1>19. CASE RecordStatus
  BY <1>0, <1>19, RecordObservationNoLater, TaskMove
     DEF RecordStatus, PerCluster, turn
<1>20. CASE RecordCondition
  BY <1>0, <1>20, SameNoLater, SetConditionNoLater, TaskMove
     DEF RecordCondition, PerCluster, turn
<1>21. CASE RecordProgress
  <2>1. /\ DOMAIN rows' = DOMAIN rows
        /\ \A x \in DOMAIN rows \ {cur} : rows'[x] = rows[x]
    BY <1>0, <1>21, RecordAttemptOthers DEF RecordProgress
  <2>2. QED BY <1>0, <1>21, <2>1, TaskDone DEF RecordProgress, PerCluster
<1>22. CASE StoreError
  BY <1>0, <1>22, SameNoLater, TaskDone DEF StoreError, PerCluster, store
<1>23. QED
  BY <1>1, <1>2, <1>3, <1>4, <1>5, <1>6, <1>7, <1>8, <1>9, <1>10, <1>11, <1>12,
     <1>13, <1>14, <1>15, <1>16, <1>17, <1>18, <1>19, <1>20, <1>21, <1>22
     DEF Reconciler

\* Every step of the API handlers keeps the invariant.
LEMMA ApiTask == ASSUME TypeOK, TaskInv, Api PROVE TaskInv'
<1>0. IsTable(rows, Ids, StoredCluster) /\ now \in Nat
  BY DEF TypeOK, DatabaseOK, Database
<1>1. ASSUME NEW id \in Ids, NEW spec \in ClusterSpec, CreateCluster(id, spec)
      PROVE  TaskInv'
  BY <1>0, <1>1, UpsertNoLater, TaskFrame DEF CreateCluster
<1>2. ASSUME NEW id \in Ids, DeleteCluster(id) PROVE TaskInv'
  BY <1>0, <1>2, SetDesiredNoLater, TaskFrame DEF DeleteCluster
<1>3. ASSUME NEW c \in Clients, NEW id \in Ids, PurgeCheck(c, id) PROVE TaskInv'
  BY <1>0, <1>3, SameNoLater, TaskFrame DEF PurgeCheck, store
<1>4. ASSUME NEW c \in Clients, NEW id \in Ids, NEW cmd, LifecycleCheck(c, id, cmd)
      PROVE  TaskInv'
  BY <1>0, <1>4, SameNoLater, TaskFrame DEF LifecycleCheck, store
<1>5. ASSUME NEW c \in Clients, PurgeCluster(c) PROVE TaskInv'
  BY <1>0, <1>5, DropNoLater, TaskFrame DEF PurgeCluster
<1>6. ASSUME NEW c \in Clients, LifecycleCommand(c) PROVE TaskInv'
  BY <1>0, <1>6, SameNoLater, SetDesiredNoLater, TaskFrame DEF LifecycleCommand
<1>7. QED BY <1>1, <1>2, <1>3, <1>4, <1>5, <1>6 DEF Api, Handlers

\* A restart clears the task, so it keeps the invariant.
LEMMA TaskRestart ==
    ASSUME TypeOK, ResetLoop, pc' = "boot", now' = now PROVE TaskInv'
<1>1. IntentLogged' /\ FencedOff'
  BY DEF IntentLogged, FencedOff
<1>2. SnapshotNotEarlier'
  BY DEF ResetLoop, EmptyTable, SnapshotNotEarlier
<1>3. PastGate'
  BY DEF ResetLoop, PastGate, PerCluster, TypeOK
<1>4. QED BY <1>1, <1>2, <1>3 DEF TaskInv

\* Every step of the provider, the operator and the clock keeps the invariant.
LEMMA EnvironmentTask ==
    ASSUME TypeOK, TaskInv, Environment \/ \E id \in Ids : Settle(id)
    PROVE  TaskInv'
<1>0. now \in Nat
  BY DEF TypeOK
<1>1. ASSUME NEW id \in Ids, KueueSuspend(id) \/ Degrade(id) \/ Tamper(id)
      PROVE  TaskInv'
  BY <1>0, <1>1, SameNoLater, TaskFrame DEF KueueSuspend, Degrade, Tamper, store
<1>2. CASE ChangeAllocation
  BY <1>0, <1>2, SameNoLater, TaskFrame DEF ChangeAllocation, store
<1>3. CASE Crash
  BY <1>3, TaskRestart DEF Crash
<1>4. CASE TakeBackup
  BY <1>0, <1>4, SameNoLater, TaskFrame DEF TakeBackup, store
<1>5. CASE Restore
  BY <1>5, TaskRestart DEF Restore
<1>6. CASE ClearQuarantine
  BY <1>0, <1>6, SameNoLater, TaskFrame DEF ClearQuarantine
<1>7. CASE ClockTick
  BY <1>0, <1>7, SameNoLater, TaskFrame DEF ClockTick, store
<1>8. ASSUME NEW id \in Ids, Settle(id) PROVE TaskInv'
  BY <1>0, <1>8, SameNoLater, TaskFrame DEF Settle, store
<1>9. QED BY <1>1, <1>2, <1>3, <1>4, <1>5, <1>6, <1>7, <1>8 DEF Environment

\* The invariant of the task holds in every reachable state.
THEOREM TaskInvariant == Spec => []TaskInv
<1>1. Init => TaskInv
  BY DEF Init, TaskInv, IntentLogged, SnapshotNotEarlier, PastGate, FencedOff,
         EmptyTable, PerCluster
<1>2. TypeOK /\ TaskInv /\ [Next]_vars => TaskInv'
  <2>1. ASSUME TypeOK, TaskInv, UNCHANGED vars PROVE TaskInv'
    BY <2>1, SameNoLater, TaskFrame DEF vars, store, TypeOK
  <2>2. QED BY <2>1, ReconcilerTask, ApiTask, EnvironmentTask DEF Next
<1>3. QED BY <1>1, <1>2, TypeCorrect, PTL DEF Spec

\* The only step that counts as an actuation is Apply, writing the CR of the
\* row in hand.
LEMMA ActuatedIsApply ==
    ASSUME TypeOK, [Next]_vars, NEW id \in Ids, Actuated(id)
    PROVE  /\ id = cur /\ id \in DOMAIN backing'
           /\ pc = "apply"
           /\ backing'[id] = AppliedBacking(row)
           /\ UNCHANGED <<intents, rows, now>>
<1>0. /\ pc = "apply" /\ cur = id /\ pc' \notin {"apply", "boot"}
      /\ pc' = "complete" \/ backing' # backing
      /\ id \in DOMAIN backing'
  BY DEF Actuated
<1>1. CASE Apply
  <2>1. backing' = Put(backing, cur, AppliedBacking(row))
    BY <1>0, <1>1 DEF Apply, Done, provider
  <2>2. QED BY <1>0, <1>1, <2>1 DEF Apply, Put, store
<1>2. CASE Reconciler
  <2>1. ~ \E x \in Ids : ReapExpired(x) \/ ReapTerminated(x) \/ ReconcileOne(x)
    BY <1>0 DEF ReapExpired, ReapTerminated, ReconcileOne
  <2>2. ~ (DetectStaleRestore \/ ReapList \/ ReapIntentsPass \/ SweepList
           \/ PassList \/ PassEnd)
    BY <1>0 DEF DetectStaleRestore, ReapList, ReapIntentsPass, SweepList,
                PassList, PassEnd
  <2>3. ~ (ObserveOnly \/ Decide \/ DeferApply \/ BeginApply \/ CompleteApply
           \/ Terminate \/ Suspend)
    BY <1>0 DEF ObserveOnly, Decide, DeferApply, BeginApply, CompleteApply,
                Terminate, Suspend
  <2>4. ~ (Reobserve \/ RecordStatus \/ RecordCondition \/ RecordProgress
           \/ StoreError)
    BY <1>0 DEF Reobserve, RecordStatus, RecordCondition, RecordProgress,
                StoreError
  <2>5. QED BY <1>1, <1>2, <2>1, <2>2, <2>3, <2>4 DEF Reconciler
<1>3. CASE Api
  <2>1. pc' = pc
    BY <1>3 DEF Api, Handlers, CreateCluster, DeleteCluster, PurgeCheck,
                PurgeCluster, LifecycleCheck, LifecycleCommand, loop
  <2>2. QED BY <1>0, <2>1
<1>4. CASE Environment \/ \E x \in Ids : Settle(x)
  <2>1. pc' = pc \/ pc' = "boot"
    BY <1>4 DEF Environment, KueueSuspend, Degrade, Tamper, ChangeAllocation,
                Crash, TakeBackup, Restore, ClearQuarantine, ClockTick, Settle,
                loop
  <2>2. QED BY <1>0, <2>1
<1>5. CASE UNCHANGED vars
  BY <1>0, <1>5 DEF vars, loop
<1>6. QED BY <1>2, <1>3, <1>4, <1>5 DEF Next

\* The transactional outbox of ADR-0007: whenever the Running arm writes a CR,
\* begin_intent has already logged that generation with those parameters.
THEOREM OutboxLogsFirst == Spec => IntentBeforeActuation
<1>1. ASSUME TypeOK, TaskInv, [Next]_vars, NEW id \in Ids, Actuated(id)
      PROVE  LET key == <<id, backing'[id].generation>>
             IN  /\ key \in DOMAIN intents
                 /\ intents[key].params_fingerprint[1] = backing'[id].fingerprint
  BY <1>1, ActuatedIsApply
     DEF TaskInv, IntentLogged, AppliedBacking, IntentKey, ParamsFingerprint
<1>2. TypeOK /\ TaskInv /\ [Next]_vars =>
        [\A id \in Ids : Actuated(id) =>
            LET key == <<id, backing'[id].generation>>
            IN  /\ key \in DOMAIN intents
                /\ intents[key].params_fingerprint[1] = backing'[id].fingerprint]_vars
  BY <1>1
<1>3. QED BY <1>2, TypeCorrect, TaskInvariant, PTL DEF Spec, IntentBeforeActuation

\* The backoff gate holds although it is evaluated on a snapshot: no apply goes
\* out before the next attempt recorded in the row as it stands.
THEOREM BackoffHolds == Spec => BackoffRespected
<1>1. ASSUME TypeOK, TaskInv, [Next]_vars, NEW id \in DOMAIN rows, Actuated(id)
      PROVE  now >= rows[id].next_attempt_at
  <2>1. id \in Ids
    BY <1>1 DEF TypeOK, DatabaseOK, Database, IsTable
  <2>2. id = cur /\ pc = "apply"
    BY <1>1, <2>1, ActuatedIsApply
  <2>3. cur \in DOMAIN snap
    BY <1>1, <2>2 DEF TypeOK, PerCluster
  <2>4. rows[id].next_attempt_at <= row.next_attempt_at
    BY <1>1, <2>2, <2>3 DEF TaskInv, SnapshotNotEarlier, row
  <2>5. row.next_attempt_at <= passNow /\ passNow <= now
    BY <1>1, <2>2 DEF TaskInv, PastGate, PerCluster
  <2>6. /\ rows[id].next_attempt_at \in Nat /\ row.next_attempt_at \in Nat
        /\ passNow \in Nat /\ now \in Nat
    BY <1>1, <2>2, <2>3
       DEF TypeOK, DatabaseOK, Database, IsTable, StoredCluster, row
  <2>7. QED BY <2>4, <2>5, <2>6
<1>2. TypeOK /\ TaskInv /\ [Next]_vars =>
        [\A id \in DOMAIN rows : Actuated(id) => now >= rows[id].next_attempt_at]_vars
  BY <1>1
<1>3. QED BY <1>2, TypeCorrect, TaskInvariant, PTL DEF Spec, BackoffRespected

\* The restore fence: no step of a quarantined loop changes a CR.
THEOREM FenceHolds == Spec => QuarantineFence
<1>1. ASSUME TypeOK, TaskInv, [Next]_vars, quarantined, loop' # loop
      PROVE  UNCHANGED backing
  <2>0. pc \notin {"apply", "terminate", "suspend"}
    BY <1>1 DEF TaskInv, FencedOff
  <2>1. CASE Reconciler
    <3>1. CASE \E x \in Ids : ReapExpired(x) \/ ReapTerminated(x) \/ ReconcileOne(x)
      BY <3>1 DEF ReapExpired, ReapTerminated, ReconcileOne, provider
    <3>2. CASE \/ DetectStaleRestore \/ ReapList \/ ReapIntentsPass \/ SweepList
               \/ PassList \/ PassEnd
      BY <3>2 DEF DetectStaleRestore, ReapList, ReapIntentsPass, SweepList,
                  PassList, PassEnd, provider
    <3>3. CASE ObserveOnly \/ Decide \/ DeferApply \/ BeginApply \/ CompleteApply
      BY <3>3 DEF ObserveOnly, Decide, DeferApply, BeginApply, CompleteApply,
                  provider
    <3>4. CASE Reobserve \/ RecordStatus \/ RecordCondition \/ RecordProgress
               \/ StoreError
      BY <3>4 DEF Reobserve, RecordStatus, RecordCondition, RecordProgress,
                  StoreError, provider
    <3>5. CASE Apply \/ Terminate \/ Suspend
      BY <2>0, <3>5 DEF Apply, Terminate, Suspend
    <3>6. QED BY <2>1, <3>1, <3>2, <3>3, <3>4, <3>5 DEF Reconciler
  <2>2. CASE Api
    BY <2>2 DEF Api, Handlers, CreateCluster, DeleteCluster, PurgeCheck,
                PurgeCluster, LifecycleCheck, LifecycleCommand, provider
  <2>3. CASE Environment \/ \E x \in Ids : Settle(x)
    <3>1. CASE Crash \/ Restore
      BY <3>1 DEF Crash, Restore, provider
    <3>2. CASE ~(Crash \/ Restore)
      BY <1>1, <2>3, <3>2
         DEF Environment, KueueSuspend, Degrade, Tamper, ChangeAllocation,
             TakeBackup, ClearQuarantine, ClockTick, Settle
    <3>3. QED BY <3>1, <3>2
  <2>4. CASE UNCHANGED vars
    BY <2>4 DEF vars, provider
  <2>5. QED BY <1>1, <2>1, <2>2, <2>3, <2>4 DEF Next
<1>2. TypeOK /\ TaskInv /\ [Next]_vars =>
        [quarantined /\ loop' # loop => UNCHANGED backing]_vars
  BY <1>1
<1>3. QED BY <1>2, TypeCorrect, TaskInvariant, PTL DEF Spec, QuarantineFence

-----------------------------------------------------------------------------
(* The garbage collectors, and the CR in hand.                             *)

\* From table t to table u every row stays, and is reported as before.
RowsStay(t, u) ==
    /\ DOMAIN t \subseteq DOMAIN u
    /\ \A id \in DOMAIN t : u[id].observed_state = t[id].observed_state

\* An untouched table keeps its rows.
LEMMA SameStay == rows' = rows => RowsStay(rows, rows')
BY DEF RowsStay

\* upsert_desired keeps every row, and what was observed of it.
LEMMA UpsertStay ==
    ASSUME NEW t, IsTable(t, Ids, StoredCluster), NEW id, NEW spec, NEW time
    PROVE  RowsStay(t, UpsertDesired(t, id, spec, time))
BY DEF RowsStay, UpsertDesired, Put, IsTable, StoredCluster

\* set_desired keeps every row, and what was observed of it.
LEMMA SetDesiredStay ==
    ASSUME NEW t, IsTable(t, Ids, StoredCluster), NEW id \in DOMAIN t,
           NEW desired, NEW time
    PROVE  RowsStay(t, SetDesired(t, id, desired, time))
BY DEF RowsStay, SetDesired, IsTable, StoredCluster

\* set_condition keeps every row, and what was observed of it.
LEMMA SetConditionStay ==
    ASSUME NEW t, IsTable(t, Ids, StoredCluster), NEW id, NEW condition
    PROVE  RowsStay(t, SetCondition(t, id, condition))
BY DEF RowsStay, SetCondition, IsTable, StoredCluster

\* record_attempt keeps every row, and what was observed of it.
LEMMA RecordAttemptStay ==
    ASSUME NEW t, IsTable(t, Ids, StoredCluster), NEW id, NEW failures, NEW next
    PROVE  RowsStay(t, RecordAttempt(t, id, failures, next))
BY DEF RowsStay, RecordAttempt, IsTable, StoredCluster

\* record_observation keeps every row, and writes the observation of one.
LEMMA RecordObservationStay ==
    ASSUME NEW t, IsTable(t, Ids, StoredCluster), NEW id, NEW state, NEW gen
    PROVE  LET new == RecordObservation(t, id, state, gen)
           IN  /\ DOMAIN new = DOMAIN t
               /\ \A x \in DOMAIN t \ {id} : new[x] = t[x]
               /\ id \in DOMAIN t => new[id].observed_state = state
BY DEF RecordObservation, IsTable, StoredCluster

\* Events only ever add up, within the same bounds.
LoadGrows ==
    /\ load'.limit = load.limit
    /\ \A kind \in Kinds : /\ load.spent[kind] \in Nat
                           /\ load'.spent[kind] \in Nat
                           /\ load.spent[kind] <= load'.spent[kind]

\* An event of one kind is counted, and no count goes down.
LEMMA SpendGrows ==
    ASSUME load \in Load, NEW kind \in Kinds, Spend(kind)
    PROVE  LoadGrows /\ load'.spent[kind] > 0
<1>1. load.spent \in [Kinds -> Nat]
  BY DEF Load
<1>2. /\ load'.spent = [load.spent EXCEPT ![kind] = @ + 1]
      /\ load'.limit = load.limit
  BY DEF Spend, Load
<1>3. QED BY <1>1, <1>2 DEF LoadGrows

\* Nothing counted, nothing changed.
LEMMA SameGrows == ASSUME load \in Load, load' = load PROVE LoadGrows
BY DEF Load, LoadGrows

\* What has not happened yet had not happened before.
LEMMA NeverBefore ==
    ASSUME LoadGrows, NEW kinds \in SUBSET Kinds, Never(kinds)' PROVE Never(kinds)
BY DEF LoadGrows, Never

\* No step takes an event back.
LEMMA LoadStep == ASSUME TypeOK, [Next]_vars PROVE LoadGrows
<1>0. load \in Load
  BY DEF TypeOK
<1> SUFFICES load' = load \/ \E kind \in Kinds : Spend(kind)
  BY <1>0, SpendGrows, SameGrows
<1>1. CASE Reconciler
  <2>1. CASE \E x \in Ids : ReapExpired(x) \/ ReapTerminated(x) \/ ReconcileOne(x)
    BY <2>1 DEF ReapExpired, ReapTerminated, ReconcileOne, Kinds
  <2>2. CASE \/ DetectStaleRestore \/ ReapList \/ ReapIntentsPass \/ SweepList
             \/ PassList \/ PassEnd
    BY <2>2 DEF DetectStaleRestore, ReapList, ReapIntentsPass, SweepList,
                PassList, PassEnd, Kinds
  <2>3. CASE \/ ObserveOnly \/ Decide \/ DeferApply \/ BeginApply
             \/ CompleteApply \/ Apply
    BY <2>3 DEF ObserveOnly, Decide, DeferApply, BeginApply, CompleteApply,
                Apply, Kinds
  <2>4. CASE \/ Terminate \/ Suspend \/ Reobserve \/ RecordStatus
             \/ RecordCondition \/ RecordProgress \/ StoreError
    BY <2>4 DEF Terminate, Suspend, Reobserve, RecordStatus, RecordCondition,
                RecordProgress, StoreError, Kinds
  <2>5. QED BY <1>1, <2>1, <2>2, <2>3, <2>4 DEF Reconciler
<1>2. CASE Api
  BY <1>2 DEF Api, Handlers, CreateCluster, DeleteCluster, PurgeCheck,
              PurgeCluster, LifecycleCheck, LifecycleCommand, Kinds
<1>3. CASE Environment \/ \E x \in Ids : Settle(x)
  BY <1>3 DEF Environment, KueueSuspend, Degrade, Tamper, ChangeAllocation,
              Crash, TakeBackup, Restore, ClearQuarantine, ClockTick, Settle,
              Kinds
<1>4. CASE UNCHANGED vars
  BY <1>4 DEF vars
<1>5. QED BY <1>1, <1>2, <1>3, <1>4 DEF Next

\* Outside a pass there are no rows in hand, at every step.
LEMMA SnapStep ==
    ASSUME TypeOK, SnapOnlyInPass, [Next]_vars PROVE SnapOnlyInPass'
<1>1. CASE Reconciler
  <2>1. CASE \E x \in Ids : ReapExpired(x) \/ ReapTerminated(x)
    BY <2>1 DEF ReapExpired, ReapTerminated, SnapOnlyInPass
  <2>2. CASE \/ DetectStaleRestore \/ ReapList \/ ReapIntentsPass \/ SweepList
             \/ PassList \/ PassEnd
    BY <2>2 DEF DetectStaleRestore, ReapList, ReapIntentsPass, SweepList,
                PassList, PassEnd, SnapOnlyInPass, PerCluster
  <2>3. CASE pc' \in PerCluster \cup {"pass"}
    BY <2>3 DEF SnapOnlyInPass
  <2>4. CASE \E x \in Ids : ReconcileOne(x)
    BY <2>3, <2>4 DEF ReconcileOne, Done, PerCluster
  <2>5. CASE Decide
    <3>1. row.desired \in DesiredState
      BY <2>5, RowType, TypeParts DEF Decide, PerCluster, StoredCluster
    <3>2. pc' \in PerCluster
      BY <2>5, <3>1 DEF Decide, DecideRunning, DecideTerminated,
                        DecideSuspended, GoTo, DesiredState, PerCluster
    <3>3. QED BY <2>3, <3>2
  <2>6. CASE ObserveOnly \/ DeferApply \/ BeginApply \/ CompleteApply \/ Apply
    BY <2>3, <2>6 DEF ObserveOnly, DeferApply, BeginApply, CompleteApply, Apply,
                      Done, PerCluster
  <2>7. CASE \/ Terminate \/ Suspend \/ Reobserve \/ RecordStatus
             \/ RecordCondition \/ RecordProgress \/ StoreError
    BY <2>3, <2>7 DEF Terminate, Suspend, Reobserve, RecordStatus,
                      RecordCondition, RecordProgress, StoreError, Done, PerCluster
  <2>8. QED BY <1>1, <2>1, <2>2, <2>4, <2>5, <2>6, <2>7 DEF Reconciler
<1>2. CASE Api
  BY <1>2 DEF Api, Handlers, CreateCluster, DeleteCluster, PurgeCheck,
              PurgeCluster, LifecycleCheck, LifecycleCommand, loop,
              SnapOnlyInPass
<1>3. CASE Crash \/ Restore
  BY <1>3 DEF Crash, Restore, ResetLoop, EmptyTable, SnapOnlyInPass
<1>4. CASE (Environment \/ \E x \in Ids : Settle(x)) /\ ~(Crash \/ Restore)
  BY <1>4 DEF Environment, KueueSuspend, Degrade, Tamper, ChangeAllocation,
              TakeBackup, ClearQuarantine, ClockTick, Settle, loop,
              SnapOnlyInPass
<1>5. CASE UNCHANGED vars
  BY <1>5 DEF vars, loop, SnapOnlyInPass
<1>6. QED BY <1>1, <1>2, <1>3, <1>4, <1>5 DEF Next

\* A purge past its guard stays counted.
LEMMA PurgeStep ==
    ASSUME TypeOK, PurgeCounted, [Next]_vars PROVE PurgeCounted'
<1>0. LoadGrows /\ "purge" \in Kinds
  BY LoadStep DEF Kinds
<1>1. ASSUME \A d \in Clients : pending'[d].op = "purge" => pending[d].op = "purge"
      PROVE  PurgeCounted'
  <2>1. load.spent["purge"] > 0 => load'.spent["purge"] > 0
    BY <1>0 DEF LoadGrows
  <2>2. QED BY <1>1, <2>1 DEF PurgeCounted
<1>2. CASE Reconciler
  <2>1. pending' = pending
    <3>1. CASE \E x \in Ids : ReapExpired(x) \/ ReapTerminated(x) \/ ReconcileOne(x)
      BY <3>1 DEF ReapExpired, ReapTerminated, ReconcileOne
    <3>2. CASE \/ DetectStaleRestore \/ ReapList \/ ReapIntentsPass \/ SweepList
               \/ PassList \/ PassEnd
      BY <3>2 DEF DetectStaleRestore, ReapList, ReapIntentsPass, SweepList,
                  PassList, PassEnd
    <3>3. CASE \/ ObserveOnly \/ Decide \/ DeferApply \/ BeginApply
               \/ CompleteApply \/ Apply
      BY <3>3 DEF ObserveOnly, Decide, DeferApply, BeginApply, CompleteApply,
                  Apply
    <3>4. CASE \/ Terminate \/ Suspend \/ Reobserve \/ RecordStatus
               \/ RecordCondition \/ RecordProgress \/ StoreError
      BY <3>4 DEF Terminate, Suspend, Reobserve, RecordStatus, RecordCondition,
                  RecordProgress, StoreError
    <3>5. QED BY <1>2, <3>1, <3>2, <3>3, <3>4 DEF Reconciler
  <2>2. QED BY <1>1, <2>1
<1>3. CASE Api
  <2>1. ASSUME NEW c \in Clients, NEW id \in Ids, PurgeCheck(c, id)
        PROVE  PurgeCounted'
    <3>1. load'.spent["purge"] > 0
      BY <1>0, <2>1, SpendGrows DEF PurgeCheck, TypeOK
    <3>2. QED BY <3>1 DEF PurgeCounted
  <2>2. ASSUME NEW c \in Clients, NEW id \in Ids, NEW cmd \in {"suspend", "resume"},
               LifecycleCheck(c, id, cmd)
        PROVE  PurgeCounted'
    <3>1. pending \in [Clients -> Request \cup {NoRequest}]
      BY DEF TypeOK
    <3>2. \A d \in Clients : pending'[d].op = "purge" => pending[d].op = "purge"
      BY <2>2, <3>1 DEF LifecycleCheck
    <3>3. QED BY <1>1, <3>2
  <2>3. ASSUME NEW c \in Clients, PurgeCluster(c) \/ LifecycleCommand(c)
        PROVE  PurgeCounted'
    <3>1. pending \in [Clients -> Request \cup {NoRequest}]
      BY DEF TypeOK
    <3>2. \A d \in Clients : pending'[d].op = "purge" => pending[d].op = "purge"
      BY <2>3, <3>1 DEF PurgeCluster, LifecycleCommand, NoRequest
    <3>3. QED BY <1>1, <3>2
  <2>4. CASE \/ \E id \in Ids, spec \in ClusterSpec : CreateCluster(id, spec)
             \/ \E id \in Ids : DeleteCluster(id)
    BY <1>1, <2>4 DEF CreateCluster, DeleteCluster
  <2>5. QED BY <1>3, <2>1, <2>2, <2>3, <2>4 DEF Api, Handlers
<1>4. CASE Crash \/ Restore
  BY <1>4 DEF Crash, Restore, PurgeCounted, NoRequest
<1>5. CASE (Environment \/ \E x \in Ids : Settle(x)) /\ ~(Crash \/ Restore)
  BY <1>1, <1>5 DEF Environment, KueueSuspend, Degrade, Tamper, ChangeAllocation,
                    TakeBackup, ClearQuarantine, ClockTick, Settle
<1>6. CASE UNCHANGED vars
  BY <1>1, <1>6 DEF vars
<1>7. QED BY <1>2, <1>3, <1>4, <1>5, <1>6 DEF Next

\* A step that removes no row, lists nothing but rows and makes policies only
\* for the rows in hand keeps every policy's row.
LEMMA PolicyKeep ==
    ASSUME LoadGrows, PolicyHasRow, DOMAIN rows \subseteq DOMAIN rows',
           DOMAIN snap' \subseteq DOMAIN snap \cup DOMAIN rows,
           netpol' \subseteq netpol \cup DOMAIN snap
    PROVE  PolicyHasRow'
<1> SUFFICES ASSUME Never({"purge", "restore"})'
             PROVE  /\ DOMAIN snap' \subseteq DOMAIN rows'
                    /\ netpol' \subseteq DOMAIN rows'
  BY DEF PolicyHasRow
<1>1. Never({"purge", "restore"})
  BY NeverBefore DEF Kinds
<1>2. QED BY <1>1 DEF PolicyHasRow

Faults == {"purge", "error", "crash", "restore"}

\* A fault that was counted ends the promise of the sweep.
LEMMA DeadFault ==
    ASSUME NEW kind \in Faults, load'.spent[kind] > 0, LoadGrows
    PROVE  DeadRowsAreDead'
<1>1. load'.spent[kind] # 0
  BY Ordered
<1>2. ~Never(Faults)'
  BY <1>1 DEF Never
<1>3. QED BY <1>2 DEF DeadRowsAreDead, Faults

\* A step outside the task that removes no row, makes no CR and reports nothing
\* keeps the dead rows dead.
LEMMA DeadFrame ==
    ASSUME LoadGrows, DeadRowsAreDead, UNCHANGED loop, RowsStay(rows, rows'),
           DOMAIN backing' \subseteq DOMAIN backing
    PROVE  DeadRowsAreDead'
<1> SUFFICES ASSUME Never(Faults)' PROVE DeadRowsAreDead'
  BY DEF DeadRowsAreDead, Faults
<1>1. Never(Faults)
  BY NeverBefore DEF Kinds, Faults
<1>2. QED BY <1>1 DEF DeadRowsAreDead, RowsStay, loop, turn, Faults

\* So does a step of the task between the places where a CR may be ahead of its
\* row.
LEMMA DeadMove ==
    ASSUME LoadGrows, DeadRowsAreDead, RowsStay(rows, rows'),
           DOMAIN backing' \subseteq DOMAIN backing,
           pc \notin {"complete", "reobserve", "record"},
           pc' \notin {"observed", "record", "sweep"}
    PROVE  DeadRowsAreDead'
<1> SUFFICES ASSUME Never(Faults)' PROVE DeadRowsAreDead'
  BY DEF DeadRowsAreDead, Faults
<1>1. Never(Faults)
  BY NeverBefore DEF Kinds, Faults
<1>2. QED BY <1>1 DEF DeadRowsAreDead, RowsStay, Faults

\* The state of a CR is never the absence of one.
LEMMA ObserveBacked ==
    ASSUME IsTable(backing, Ids, Backing), NEW id \in DOMAIN backing
    PROVE  /\ Observe(id).state \in BackingState
           /\ Observe(id).generation = backing[id].generation
           /\ ~ObservedGone(Observe(id).state)
<1>1. backing[id].state \in BackingState
  BY DEF IsTable, Backing
<1>2. QED BY <1>1 DEF Observe, BackingState, ObservedGone, Absent

\* Every step of the task keeps the policies' rows and the dead rows dead.
LEMMA ReconcilerSweep ==
    ASSUME TypeOK, SweepInv, Reconciler, LoadGrows
    PROVE  PolicyHasRow' /\ DeadRowsAreDead'
<1>0. /\ IsTable(rows, Ids, StoredCluster) /\ IsTable(backing, Ids, Backing)
      /\ PolicyHasRow /\ DeadRowsAreDead /\ SnapOnlyInPass
      /\ load \in Load /\ "error" \in Kinds /\ "error" \in Faults
      /\ pc \in PerCluster => cur \in DOMAIN snap
  BY DEF TypeOK, DatabaseOK, Database, SweepInv, Kinds, Faults
<1>1. ASSUME Spend("error") PROVE DeadRowsAreDead'
  BY <1>0, <1>1, SpendGrows, DeadFault
<1>2. CASE DetectStaleRestore \/ ReapList \/ ReapIntentsPass \/ PassEnd
  <2>1. /\ UNCHANGED <<rows, backing, netpol, snap>>
        /\ pc \notin {"complete", "reobserve", "record"}
        /\ pc' \notin {"observed", "record", "sweep"}
    BY <1>2 DEF DetectStaleRestore, ReapList, ReapIntentsPass, PassEnd, store,
                provider
  <2>2. QED BY <1>0, <2>1, SameStay, PolicyKeep, DeadMove
<1>3. CASE SweepList
  <2>1. UNCHANGED <<rows, backing, netpol, snap>> /\ pc' = "sweep" /\ pc = "sweepList"
    BY <1>3 DEF SweepList, store, provider
  <2>2. ASSUME Never(Faults)' PROVE DeadRowsAreDead'
    <3>1. Never(Faults)
      BY <2>2, NeverBefore DEF Faults, Kinds
    <3>2. todo' \cap DOMAIN backing = {}
      BY <1>0, <1>3, <2>1, <3>1
         DEF SweepList, IsPurgeableTombstone, IsTombstone, DeadRowsAreDead, Faults
    <3>3. QED BY <1>0, <2>1, <3>1, <3>2 DEF DeadRowsAreDead, Faults
  <2>3. DeadRowsAreDead'
    BY <2>2 DEF DeadRowsAreDead, Faults
  <2>4. QED BY <1>0, <2>1, <2>3, PolicyKeep
<1>4. CASE PassList
  <2>1. /\ UNCHANGED <<rows, backing, netpol>> /\ pc' = "pass" /\ pc = "sweep"
        /\ DOMAIN snap' \subseteq DOMAIN rows
    BY <1>4 DEF PassList, store, provider, EmptyTable
  <2>2. QED BY <1>0, <2>1, SameStay, PolicyKeep, DeadMove
<1>5. ASSUME NEW id \in Ids, ReapExpired(id) PROVE PolicyHasRow' /\ DeadRowsAreDead'
  <2>1. /\ UNCHANGED <<backing, netpol, snap, pc>> /\ pc = "reap"
    BY <1>5 DEF ReapExpired, provider
  <2>2. RowsStay(rows, rows')
    BY <1>0, <1>5, SameStay, SetDesiredStay DEF ReapExpired
  <2>3. DOMAIN rows \subseteq DOMAIN rows'
    BY <2>2 DEF RowsStay
  <2>4. QED BY <1>0, <2>1, <2>2, <2>3, PolicyKeep, DeadMove
<1>6. ASSUME NEW id \in Ids, ReapTerminated(id)
      PROVE  PolicyHasRow' /\ DeadRowsAreDead'
  <2>0. /\ pc = "sweep" /\ pc' = "sweep" /\ id \in todo
        /\ UNCHANGED <<backing, snap>> /\ DOMAIN snap = {}
    BY <1>0, <1>6 DEF ReapTerminated, SnapOnlyInPass, PerCluster
  <2>1. CASE Spend("error")
    <3>1. netpol' \subseteq netpol /\ (rows' = rows \/ netpol' \subseteq netpol \ {id})
          /\ DOMAIN rows \ {id} \subseteq DOMAIN rows'
      BY <1>6 DEF ReapTerminated, Drop
    <3>2. PolicyHasRow'
      <4>1. CASE rows' = rows
        BY <1>0, <2>0, <3>1, <4>1, PolicyKeep
      <4>2. CASE rows' # rows
        <5>1. ASSUME Never({"purge", "restore"})' PROVE netpol' \subseteq DOMAIN rows'
          <6>1. Never({"purge", "restore"})
            BY <5>1, NeverBefore DEF Kinds
          <6>2. QED BY <1>0, <3>1, <4>2, <6>1 DEF PolicyHasRow
        <5>2. QED BY <2>0, <5>1 DEF PolicyHasRow
      <4>3. QED BY <4>1, <4>2
    <3>3. QED BY <1>1, <2>1, <3>2
  <2>2. CASE ~Spend("error")
    <3>1. netpol' = netpol \ {id} /\ rows' = Drop(rows, id) /\ todo' = todo \ {id}
      BY <1>6, <2>2 DEF ReapTerminated
    <3>2. /\ DOMAIN rows' = DOMAIN rows \ {id}
          /\ \A x \in DOMAIN rows' : rows'[x] = rows[x]
      BY <3>1 DEF Drop
    <3>3. PolicyHasRow'
      <4>1. ASSUME Never({"purge", "restore"})' PROVE netpol' \subseteq DOMAIN rows'
        <5>1. Never({"purge", "restore"})
          BY <4>1, NeverBefore DEF Kinds
        <5>2. QED BY <1>0, <3>1, <3>2, <5>1 DEF PolicyHasRow
      <4>2. QED BY <2>0, <4>1 DEF PolicyHasRow
    <3>4. ASSUME Never(Faults)' PROVE DeadRowsAreDead'
      <4>1. Never(Faults)
        BY <3>4, NeverBefore DEF Faults, Kinds
      <4>2. id \notin DOMAIN backing /\ todo' \cap DOMAIN backing = {}
        BY <1>0, <2>0, <3>1, <4>1 DEF DeadRowsAreDead, Faults
      <4>3. QED BY <1>0, <2>0, <3>2, <4>1, <4>2 DEF DeadRowsAreDead, Faults
    <3>5. QED BY <3>3, <3>4 DEF DeadRowsAreDead, Faults
  <2>3. QED BY <2>1, <2>2
<1>7. ASSUME NEW id \in Ids, ReconcileOne(id)
      PROVE  PolicyHasRow' /\ DeadRowsAreDead'
  <2>1. /\ UNCHANGED <<rows, backing, netpol, todo>> /\ pc = "pass"
        /\ DOMAIN snap' \subseteq DOMAIN snap
    BY <1>7 DEF ReconcileOne, store, provider, Done, Drop
  <2>2. CASE Done(id)
    BY <1>0, <2>1, <2>2, SameStay, PolicyKeep, DeadMove DEF Done
  <2>3. CASE ~Done(id)
    <3>1. pc' = "observed" /\ cur' = id /\ obs' = Observe(id)
      BY <1>7, <2>3 DEF ReconcileOne
    <3>2. id \in DOMAIN backing => ~ObservedGone(obs'.state)
      BY <1>0, <3>1, ObserveBacked
    <3>3. ASSUME Never(Faults)' PROVE DeadRowsAreDead'
      <4>1. Never(Faults)
        BY <3>3, NeverBefore DEF Faults, Kinds
      <4>2. QED BY <1>0, <2>1, <3>1, <3>2, <4>1 DEF DeadRowsAreDead, Faults
    <3>4. QED BY <1>0, <2>1, <3>3, PolicyKeep DEF DeadRowsAreDead, Faults
  <2>4. QED BY <2>2, <2>3
<1>8. CASE ObserveOnly \/ RecordStatus
  <2>1. /\ UNCHANGED <<backing, netpol, todo>> /\ pc \in {"observed", "record"}
        /\ pc' \in {"pass", "condition"}
        /\ DOMAIN snap' \subseteq DOMAIN snap
        /\ rows' = RecordObservation(rows, cur, obs.state, obs.generation)
    BY <1>8 DEF ObserveOnly, RecordStatus, provider, Done, Drop
  <2>2. /\ DOMAIN rows' = DOMAIN rows
        /\ \A x \in DOMAIN rows \ {cur} : rows'[x] = rows[x]
        /\ cur \in DOMAIN rows => rows'[cur].observed_state = obs.state
    BY <1>0, <2>1, RecordObservationStay
  <2>3. ASSUME Never(Faults)' PROVE DeadRowsAreDead'
    <3>1. Never(Faults)
      BY <2>3, NeverBefore DEF Faults, Kinds
    <3>2. QED BY <1>0, <2>1, <2>2, <3>1 DEF DeadRowsAreDead, Faults
  <2>4. QED BY <1>0, <2>1, <2>2, <2>3, PolicyKeep DEF DeadRowsAreDead, Faults
<1>9. CASE Decide
  <2>1. UNCHANGED <<rows, backing, netpol, snap>> /\ pc = "observed"
    BY <1>9 DEF Decide, store, provider
  <2>2. row.desired \in DesiredState
    BY <1>9, RowType, TypeParts DEF Decide, PerCluster, StoredCluster
  <2>3. pc' \in {"begin", "terminate", "suspend", "reobserve"}
    BY <1>9, <2>2 DEF Decide, DecideRunning, DecideTerminated, DecideSuspended,
                      GoTo, DesiredState
  <2>4. QED BY <1>0, <2>1, <2>3, SameStay, PolicyKeep, DeadMove
<1>10. CASE DeferApply \/ BeginApply
  <2>1. /\ UNCHANGED <<rows, backing, netpol>> /\ pc = "begin"
        /\ pc' \in {"pass", "apply"} /\ DOMAIN snap' \subseteq DOMAIN snap
    BY <1>10 DEF DeferApply, BeginApply, store, provider, Done, Drop
  <2>2. QED BY <1>0, <2>1, SameStay, PolicyKeep, DeadMove
<1>11. CASE Apply
  <2>1. /\ rows' = rows /\ pc = "apply" /\ cur \in DOMAIN snap
        /\ DOMAIN snap' \subseteq DOMAIN snap
        /\ netpol' \subseteq netpol \cup {cur}
    BY <1>0, <1>11 DEF Apply, store, provider, Done, Drop, PerCluster
  <2>2. PolicyHasRow'
    BY <1>0, <2>1, PolicyKeep
  <2>3. CASE Spend("error")
    BY <1>1, <2>2, <2>3
  <2>4. CASE ~Spend("error")
    <3>1. /\ DOMAIN backing' = DOMAIN backing \cup {cur}
          /\ pc' = "complete" /\ cur' = cur
      BY <1>11, <2>4 DEF Apply, Put, turn
    <3>2. ASSUME Never(Faults)' PROVE DeadRowsAreDead'
      <4>1. Never(Faults) /\ Never({"purge", "restore"})
        BY <3>2, NeverBefore DEF Faults, Kinds, Never
      <4>2. cur \in DOMAIN rows
        BY <1>0, <2>1, <4>1 DEF PolicyHasRow
      <4>3. QED BY <1>0, <2>1, <3>1, <4>1, <4>2 DEF DeadRowsAreDead, Faults
    <3>3. QED BY <2>2, <3>2 DEF DeadRowsAreDead, Faults
  <2>5. QED BY <2>3, <2>4
<1>12. CASE CompleteApply
  <2>1. /\ UNCHANGED <<rows, backing, netpol, snap, cur>> /\ pc = "complete"
        /\ pc' = "reobserve"
    BY <1>12 DEF CompleteApply, provider, turn
  <2>2. ASSUME Never(Faults)' PROVE DeadRowsAreDead'
    <3>1. Never(Faults)
      BY <2>2, NeverBefore DEF Faults, Kinds
    <3>2. QED BY <1>0, <2>1, <3>1 DEF DeadRowsAreDead, Faults
  <2>3. QED BY <1>0, <2>1, <2>2, PolicyKeep DEF DeadRowsAreDead, Faults
<1>13. CASE Terminate \/ Suspend
  <2>1. /\ rows' = rows /\ DOMAIN backing' \subseteq DOMAIN backing
        /\ netpol' \subseteq netpol /\ DOMAIN snap' \subseteq DOMAIN snap
        /\ pc \in {"terminate", "suspend"} /\ pc' \in {"pass", "reobserve"}
    BY <1>13 DEF Terminate, Suspend, store, provider, Done, Drop
  <2>2. QED BY <1>0, <2>1, SameStay, PolicyKeep, DeadMove
<1>14. CASE Reobserve
  <2>1. /\ UNCHANGED <<rows, backing, netpol>> /\ pc = "reobserve"
        /\ DOMAIN snap' \subseteq DOMAIN snap
    BY <1>14 DEF Reobserve, store, provider, Done, Drop
  <2>2. PolicyHasRow'
    BY <1>0, <2>1, PolicyKeep
  <2>3. CASE Spend("error")
    BY <1>1, <2>2, <2>3
  <2>4. CASE ~Spend("error")
    <3>1. pc' = "record" /\ cur' = cur /\ obs' = Observe(cur)
      BY <1>14, <2>4 DEF Reobserve
    <3>2. cur \in DOMAIN backing => ~ObservedGone(obs'.state)
      BY <1>0, <3>1, ObserveBacked
    <3>3. ASSUME Never(Faults)' PROVE DeadRowsAreDead'
      <4>1. Never(Faults)
        BY <3>3, NeverBefore DEF Faults, Kinds
      <4>2. QED BY <1>0, <2>1, <3>1, <3>2, <4>1 DEF DeadRowsAreDead, Faults
    <3>4. QED BY <2>2, <3>3 DEF DeadRowsAreDead, Faults
  <2>5. QED BY <2>3, <2>4
<1>15. CASE RecordCondition \/ RecordProgress
  <2>1. /\ UNCHANGED <<backing, netpol>> /\ DOMAIN snap' \subseteq DOMAIN snap
        /\ pc \in {"condition", "attempt"} /\ pc' \in {"attempt", "pass"}
    BY <1>15 DEF RecordCondition, RecordProgress, provider, Done, Drop
  <2>2. RowsStay(rows, rows')
    BY <1>0, <1>15, SameStay, SetConditionStay, RecordAttemptStay
       DEF RecordCondition, RecordProgress
  <2>3. DOMAIN rows \subseteq DOMAIN rows'
    BY <2>2 DEF RowsStay
  <2>4. QED BY <1>0, <2>1, <2>2, <2>3, PolicyKeep, DeadMove
<1>16. CASE StoreError
  <2>1. UNCHANGED <<rows, netpol>> /\ DOMAIN snap' \subseteq DOMAIN snap
    BY <1>16 DEF StoreError, store, provider, Done, Drop
  <2>2. QED BY <1>0, <1>1, <1>16, <2>1, PolicyKeep DEF StoreError
<1>17. QED
  BY <1>2, <1>3, <1>4, <1>5, <1>6, <1>7, <1>8, <1>9, <1>10, <1>11, <1>12, <1>13,
     <1>14, <1>15, <1>16
     DEF Reconciler, SweepInv

\* So does every other step.
LEMMA OutsideSweep ==
    ASSUME TypeOK, SweepInv, LoadGrows,
           Api \/ Environment \/ (\E id \in Ids : Settle(id)) \/ UNCHANGED vars
    PROVE  PolicyHasRow' /\ DeadRowsAreDead'
<1>0. /\ IsTable(rows, Ids, StoredCluster) /\ IsTable(backing, Ids, Backing)
      /\ PolicyHasRow /\ DeadRowsAreDead /\ SnapOnlyInPass /\ PurgeCounted
      /\ load \in Load /\ {"purge", "restore", "crash"} \subseteq Kinds \cap Faults
  BY DEF TypeOK, DatabaseOK, Database, SweepInv, Kinds, Faults
<1>1. ASSUME RowsStay(rows, rows'), UNCHANGED <<loop, netpol>>,
             DOMAIN backing' \subseteq DOMAIN backing
      PROVE  PolicyHasRow' /\ DeadRowsAreDead'
  BY <1>0, <1>1, PolicyKeep, DeadFrame DEF RowsStay, loop
<1>2. ASSUME NEW id \in Ids, NEW spec \in ClusterSpec, CreateCluster(id, spec)
      PROVE  PolicyHasRow' /\ DeadRowsAreDead'
  BY <1>0, <1>1, <1>2, UpsertStay DEF CreateCluster, provider
<1>3. ASSUME NEW id \in Ids, DeleteCluster(id)
      PROVE  PolicyHasRow' /\ DeadRowsAreDead'
  BY <1>0, <1>1, <1>3, SetDesiredStay DEF DeleteCluster, provider
<1>4. ASSUME NEW c \in Clients, NEW id \in Ids, NEW cmd,
             PurgeCheck(c, id) \/ LifecycleCheck(c, id, cmd)
      PROVE  PolicyHasRow' /\ DeadRowsAreDead'
  BY <1>0, <1>1, <1>4, SameStay DEF PurgeCheck, LifecycleCheck, store, provider
<1>5. ASSUME NEW c \in Clients, LifecycleCommand(c)
      PROVE  PolicyHasRow' /\ DeadRowsAreDead'
  BY <1>0, <1>1, <1>5, SameStay, SetDesiredStay DEF LifecycleCommand, provider
<1>6. ASSUME NEW kind \in {"purge", "restore"}, load'.spent[kind] > 0
      PROVE  PolicyHasRow' /\ DeadRowsAreDead'
  <2>1. ~Never({"purge", "restore"})'
    BY <1>6 DEF Never
  <2>2. PolicyHasRow'
    BY <2>1 DEF PolicyHasRow
  <2>3. QED BY <1>0, <1>6, <2>2, DeadFault
<1>7. ASSUME NEW c \in Clients, PurgeCluster(c)
      PROVE  PolicyHasRow' /\ DeadRowsAreDead'
  <2>1. load'.spent["purge"] > 0
    BY <1>0, <1>7 DEF PurgeCluster, PurgeCounted
  <2>2. QED BY <1>6, <2>1
<1>8. CASE Restore
  BY <1>0, <1>6, <1>8, SpendGrows DEF Restore
<1>9. CASE Crash
  <2>1. load'.spent["crash"] > 0
    BY <1>0, <1>9, SpendGrows DEF Crash
  <2>2. UNCHANGED <<rows, netpol>> /\ DOMAIN snap' = {}
    BY <1>9 DEF Crash, ResetLoop, store, provider, EmptyTable
  <2>3. QED BY <1>0, <2>1, <2>2, PolicyKeep, DeadFault
<1>10. ASSUME NEW id \in Ids, KueueSuspend(id) \/ Degrade(id) \/ Tamper(id) \/ Settle(id)
       PROVE  PolicyHasRow' /\ DeadRowsAreDead'
  <2>1. DOMAIN backing' \subseteq DOMAIN backing
    BY <1>10 DEF KueueSuspend, Degrade, Tamper, Settle, Drop
  <2>2. UNCHANGED <<loop, netpol, rows>>
    BY <1>10 DEF KueueSuspend, Degrade, Tamper, Settle, store
  <2>3. QED BY <1>1, <2>1, <2>2, SameStay
<1>11. CASE \/ ChangeAllocation \/ TakeBackup \/ ClearQuarantine \/ ClockTick
            \/ UNCHANGED vars
  <2>1. UNCHANGED <<loop, netpol, rows, backing>>
    BY <1>11 DEF ChangeAllocation, TakeBackup, ClearQuarantine, ClockTick, vars,
                 store, provider
  <2>2. QED BY <1>1, <2>1, SameStay
<1>12. QED BY <1>2, <1>3, <1>4, <1>5, <1>7, <1>8, <1>9, <1>10, <1>11
           DEF Api, Handlers, Environment

\* What the garbage collectors rely on holds in every reachable state.
THEOREM SweepInvariant == Spec => []SweepInv
<1>1. Init => SweepInv
  BY DEF Init, SweepInv, SnapOnlyInPass, PurgeCounted, PolicyHasRow,
         DeadRowsAreDead, EmptyTable, NoRequest
<1>2. TypeOK /\ SweepInv /\ [Next]_vars => SweepInv'
  <2> SUFFICES ASSUME TypeOK, SweepInv, [Next]_vars PROVE SweepInv'
    OBVIOUS
  <2>1. LoadGrows
    BY LoadStep
  <2>2. SnapOnlyInPass' /\ PurgeCounted'
    BY SnapStep, PurgeStep DEF SweepInv
  <2>3. PolicyHasRow' /\ DeadRowsAreDead'
    BY <2>1, ReconcilerSweep, OutsideSweep DEF Next
  <2>4. QED BY <2>2, <2>3 DEF SweepInv
<1>3. QED BY <1>1, <1>2, TypeCorrect, PTL DEF Spec

\* reap_terminated leaves no CR without a row, as long as every call is
\* answered and no user purges.
THEOREM SweepLeavesNone == Spec => []SweepLeavesNoOrphan
<1>1. SweepInv => SweepLeavesNoOrphan
  BY DEF SweepInv, DeadRowsAreDead, SweepLeavesNoOrphan, NoOrphan
<1>2. QED BY <1>1, SweepInvariant, PTL

\* A NetworkPolicy is never left without the row that says it is owed a reap,
\* through any crash and any provider error.
THEOREM PoliciesAccounted == Spec => []NoPolicyLeak
<1>1. SweepInv => NoPolicyLeak
  BY DEF SweepInv, PolicyHasRow, NoPolicyLeak
<1>2. QED BY <1>1, SweepInvariant, PTL

-----------------------------------------------------------------------------
(* The queue's hold on a CR. *)

\* Every step outside the task keeps the generations; of the task, only apply
\* writes one.
LEMMA OnlyApplyMoves ==
    ASSUME TypeOK, [Next]_vars, ~Apply PROVE GenerationsKept
<1>0. \A id \in DOMAIN backing : backing[id] \in Backing
  BY DEF TypeOK, IsTable
<1>1. CASE backing' = backing
  BY <1>1 DEF GenerationsKept
<1>2. CASE Reconciler
  <2>1. CASE \E x \in Ids : ReapExpired(x) \/ ReapTerminated(x) \/ ReconcileOne(x)
    BY <1>1, <2>1 DEF ReapExpired, ReapTerminated, ReconcileOne, provider
  <2>2. CASE \/ DetectStaleRestore \/ ReapList \/ ReapIntentsPass \/ SweepList
             \/ PassList \/ PassEnd
    BY <1>1, <2>2 DEF DetectStaleRestore, ReapList, ReapIntentsPass, SweepList,
                      PassList, PassEnd, provider
  <2>3. CASE ObserveOnly \/ Decide \/ DeferApply \/ BeginApply \/ CompleteApply
    BY <1>1, <2>3 DEF ObserveOnly, Decide, DeferApply, BeginApply,
                      CompleteApply, provider
  <2>4. CASE \/ Reobserve \/ RecordStatus \/ RecordCondition \/ RecordProgress
             \/ StoreError
    BY <1>1, <2>4 DEF Reobserve, RecordStatus, RecordCondition, RecordProgress,
                      StoreError, provider
  <2>5. CASE Terminate
    BY <2>5 DEF Terminate, Drop, provider, GenerationsKept
  <2>6. CASE Suspend
    <3>1. \/ backing' = backing
          \/ /\ cur \in DOMAIN backing
             /\ backing' = [backing EXCEPT ![cur].suspend = TRUE]
      BY <2>6 DEF Suspend
    <3>2. QED BY <1>0, <1>1, <3>1, FieldEdited
  <2>7. QED BY <1>2, <2>1, <2>2, <2>3, <2>4, <2>5, <2>6 DEF Reconciler
<1>3. CASE Api
  BY <1>1, <1>3 DEF Api, Handlers, CreateCluster, DeleteCluster, PurgeCheck,
                    PurgeCluster, LifecycleCheck, LifecycleCommand, provider
<1>4. CASE \E x \in Ids : KueueSuspend(x) \/ Degrade(x) \/ Tamper(x) \/ Settle(x)
  <2>1. PICK x \in DOMAIN backing :
          KueueSuspend(x) \/ Degrade(x) \/ Tamper(x) \/ Settle(x)
    BY <1>4 DEF KueueSuspend, Degrade, Tamper, Settle
  <2>2. CASE backing' = Drop(backing, x)
    BY <2>2 DEF Drop, GenerationsKept
  <2>3. CASE backing' # Drop(backing, x)
    <3>1. PICK v : \/ backing' = [backing EXCEPT ![x].state = v]
                   \/ backing' = [backing EXCEPT ![x].suspend = v]
                   \/ backing' = [backing EXCEPT ![x].fingerprint = v]
      BY <2>1, <2>3 DEF KueueSuspend, Degrade, Tamper, Settle
    <3>2. QED BY <1>0, <3>1, FieldEdited
  <2>4. QED BY <2>2, <2>3
<1>5. CASE \/ ChangeAllocation \/ Crash \/ TakeBackup \/ Restore
           \/ ClearQuarantine \/ ClockTick \/ UNCHANGED vars
  BY <1>1, <1>5 DEF ChangeAllocation, Crash, TakeBackup, Restore,
                    ClearQuarantine, ClockTick, vars, provider
<1>6. QED BY <1>2, <1>3, <1>4, <1>5 DEF Next, Environment

\* Nothing needs to hold where no apply is being decided on.
LEMMA BehindElsewhere ==
    ASSUME pc' \notin {"observed", "begin", "apply"} PROVE ObservedBehind'
BY DEF ObservedBehind

\* A step that moves no generation, and leaves the turn where it is, keeps what
\* the turn knows of the CR in hand.
LEMMA BehindFrame ==
    ASSUME TypeOK, ObservedBehind, GenerationsKept, UNCHANGED loop
    PROVE  ObservedBehind'
BY DEF ObservedBehind, GenerationsKept, loop, turn, row

\* What a turn knows of the CR in hand is kept by every step.
LEMMA BehindStep ==
    ASSUME TypeOK, ObservedBehind, [Next]_vars PROVE ObservedBehind'
<1>0. IsTable(backing, Ids, Backing) /\ (~Apply => GenerationsKept)
  BY OnlyApplyMoves DEF TypeOK
<1>1. CASE Apply
  BY <1>1, BehindElsewhere DEF Apply, Done
<1>2. CASE Reconciler /\ ~Apply
  <2>1. CASE \E x \in Ids : ReapExpired(x) \/ ReapTerminated(x)
    BY <2>1, BehindElsewhere DEF ReapExpired, ReapTerminated
  <2>2. CASE \/ DetectStaleRestore \/ ReapList \/ ReapIntentsPass \/ SweepList
             \/ PassList \/ PassEnd
    BY <2>2, BehindElsewhere DEF DetectStaleRestore, ReapList, ReapIntentsPass,
                                 SweepList, PassList, PassEnd
  <2>3. ASSUME NEW id \in Ids, ReconcileOne(id) PROVE ObservedBehind'
    <3>1. CASE Done(id)
      BY <3>1, BehindElsewhere DEF Done
    <3>2. CASE ~Done(id)
      <4>1. /\ pc' = "observed" /\ cur' = id /\ obs' = Observe(id)
            /\ backing' = backing
        BY <2>3, <3>2 DEF ReconcileOne, provider
      <4>2. QED BY <1>0, <4>1, ObserveBacked DEF ObservedBehind
    <3>3. QED BY <3>1, <3>2
  <2>4. CASE Decide
    <3>1. /\ pc = "observed" /\ queue' = queued
          /\ UNCHANGED <<backing, snap, cur, obs>>
      BY <2>4 DEF Decide, provider
    <3>2. row.desired \in DesiredState /\ row.generation \in Nat
      BY <3>1, RowType, TypeParts DEF PerCluster, StoredCluster
    <3>3. pc' \in {"begin", "terminate", "suspend", "reobserve"}
      BY <2>4, <3>2 DEF Decide, DecideRunning, DecideTerminated,
                        DecideSuspended, GoTo, DesiredState
    <3>4. CASE pc' = "begin"
      <4>1. NeedsApply(obs.state, obs.generation, row.generation, queue')
        BY <2>4, <3>2, <3>4 DEF Decide, DecideRunning, DecideTerminated,
                                DecideSuspended, GoTo, DesiredState
      <4>2. ASSUME cur \in DOMAIN backing, ~(obs.state = "Suspended" /\ ~queue')
            PROVE  backing[cur].generation < row.generation
        <5>1. obs.state \in BackingState /\ obs.generation = backing[cur].generation
          BY <3>1, <4>2 DEF ObservedBehind
        <5>2. obs.generation < row.generation
          BY <4>1, <4>2, <5>1 DEF NeedsApply, BackingState, Absent
        <5>3. QED BY <5>1, <5>2
      <4>3. QED BY <3>1, <3>4, <4>2 DEF ObservedBehind, row
    <3>5. CASE pc' # "begin"
      BY <3>3, <3>5, BehindElsewhere
    <3>6. QED BY <3>4, <3>5
  <2>5. CASE BeginApply
    <3>0. ObservedBehind
      OBVIOUS
    <3>1. CASE Done(cur)
      BY <3>1, BehindElsewhere DEF Done
    <3>2. CASE ~Done(cur)
      <4>1. pc = "begin" /\ pc' = "apply" /\ UNCHANGED <<turn, snap, backing>>
        BY <2>5, <3>2 DEF BeginApply, provider
      <4>2. QED BY <3>0, <4>1 DEF ObservedBehind, turn, row
    <3>3. QED BY <3>1, <3>2
  <2>6. CASE \/ ObserveOnly \/ DeferApply \/ CompleteApply \/ Terminate
             \/ Suspend \/ Reobserve
    BY <2>6, BehindElsewhere DEF ObserveOnly, DeferApply, CompleteApply,
                                 Terminate, Suspend, Reobserve, Done
  <2>7. CASE RecordStatus \/ RecordCondition \/ RecordProgress \/ StoreError
    BY <2>7, BehindElsewhere DEF RecordStatus, RecordCondition, RecordProgress,
                                 StoreError, Done
  <2>8. QED BY <1>2, <2>1, <2>2, <2>3, <2>4, <2>5, <2>6, <2>7 DEF Reconciler
<1>3. CASE Api /\ ~Apply
  <2>1. UNCHANGED loop
    BY <1>3 DEF Api, Handlers, CreateCluster, DeleteCluster, PurgeCheck,
                PurgeCluster, LifecycleCheck, LifecycleCommand
  <2>2. QED BY <1>0, <1>3, <2>1, BehindFrame
<1>4. CASE Crash \/ Restore
  BY <1>4, BehindElsewhere DEF Crash, Restore
<1>5. CASE /\ Environment \/ (\E x \in Ids : Settle(x)) \/ UNCHANGED vars
           /\ ~(Crash \/ Restore) /\ ~Apply
  <2>1. UNCHANGED loop
    BY <1>5 DEF Environment, KueueSuspend, Degrade, Tamper, ChangeAllocation,
                TakeBackup, ClearQuarantine, ClockTick, Settle, vars
  <2>2. QED BY <1>0, <1>5, <2>1, BehindFrame
<1>6. QED BY <1>1, <1>2, <1>3, <1>4, <1>5 DEF Next

\* What a turn about to apply knows.
LEMMA BehindAtApply ==
    ASSUME ObservedBehind, pc = "apply", cur \in DOMAIN backing
    PROVE  \/ backing[cur].generation < row.generation
           \/ obs.state = "Suspended" /\ ~queue
BY DEF ObservedBehind

\* An apply writes the generation of the row, and the queue that was read.
LEMMA AppliedWrites ==
    ASSUME NEW r
    PROVE  AppliedBacking(r).generation = r.generation /\ AppliedBacking(r).queue = queue
BY DEF AppliedBacking

\* What a turn knows of the CR in hand holds in every reachable state.
THEOREM BehindInvariant == Spec => []ObservedBehind
<1>1. Init => ObservedBehind
  BY DEF Init, ObservedBehind
<1>2. QED BY <1>1, BehindStep, TypeCorrect, PTL DEF Spec

\* No CR is ever taken back to an older generation, except by the repair of a
\* suspension no queue owns: whatever the snapshots, crashes, errors, restores
\* and operators do.
THEOREM NoStomp == Spec => LiveNeverRollsBack
<1>1. ASSUME TypeOK, ObservedBehind, [Next]_vars,
             NEW id \in DOMAIN backing \cap DOMAIN backing'
      PROVE  \/ backing'[id].generation >= backing[id].generation
             \/ pc = "apply" /\ obs.state = "Suspended" /\ ~queue
  <2>1. backing[id].generation \in Nat
    BY <1>1 DEF TypeOK, IsTable, Backing
  <2>2. CASE ~Apply
    <3>1. GenerationsKept
      BY <1>1, <2>2, OnlyApplyMoves
    <3>2. backing'[id].generation = backing[id].generation
      BY <3>1 DEF GenerationsKept
    <3>3. QED BY <2>1, <3>2, Ordered
  <2>3. CASE Apply
    <3>1. /\ pc = "apply" /\ row.generation \in Nat
          /\ backing' = backing \/ backing' = Put(backing, cur, AppliedBacking(row))
      BY <1>1, <2>3, RowType, TypeParts
         DEF Apply, provider, PerCluster, StoredCluster
    <3>2. CASE backing' = backing
      BY <2>1, <3>2
    <3>3. CASE backing' = Put(backing, cur, AppliedBacking(row))
      <4>1. id # cur => backing'[id] = backing[id]
        BY <3>3 DEF Put
      <4>2. id = cur => backing'[id].generation = row.generation
        BY <3>3, AppliedWrites DEF Put
      <4>3. CASE id # cur
        BY <2>1, <4>1, <4>3
      <4>4. CASE id = cur
        <5>1. \/ backing[id].generation < row.generation
              \/ obs.state = "Suspended" /\ ~queue
          BY <1>1, <3>1, <4>4, BehindAtApply
        <5>2. backing[id].generation < row.generation =>
                backing'[id].generation >= backing[id].generation
          BY <2>1, <3>1, <4>2, <4>4
        <5>3. QED BY <3>1, <5>1, <5>2
      <4>5. QED BY <4>3, <4>4
    <3>4. QED BY <3>1, <3>2, <3>3
  <2>4. QED BY <2>2, <2>3
<1>2. TypeOK /\ ObservedBehind /\ [Next]_vars =>
        [\A id \in DOMAIN backing \cap DOMAIN backing' :
            \/ backing'[id].generation >= backing[id].generation
            \/ pc = "apply" /\ obs.state = "Suspended" /\ ~queue]_vars
  BY <1>1
<1>3. QED BY <1>2, TypeCorrect, BehindInvariant, PTL DEF Spec, LiveNeverRollsBack

\* Kueue owns spec.suspend of a queued cluster: needs_apply never answers yes
\* for one that the queue holds, unless a newer generation is to roll out, and
\* by the time the apply goes out that is still so.
THEOREM QueueKeepsSuspend == Spec => QueueOwnsSuspend
<1>1. ASSUME TypeOK, ObservedBehind, [Next]_vars,
             NEW id \in DOMAIN backing \cap DOMAIN backing',
             Actuated(id), backing[id].suspend, backing'[id].queue
      PROVE  backing'[id].generation > backing[id].generation
  <2>1. id \in Ids
    BY <1>1 DEF TypeOK, IsTable
  <2>2. id = cur /\ pc = "apply" /\ backing'[id] = AppliedBacking(row)
    BY <1>1, <2>1, ActuatedIsApply
  <2>3. queue /\ backing'[id].generation = row.generation
    BY <1>1, <2>2, AppliedWrites
  <2>4. backing[id].generation < row.generation
    BY <1>1, <2>2, <2>3, BehindAtApply
  <2>5. backing[id].generation \in Nat /\ row.generation \in Nat
    BY <1>1, <2>2, RowType, TypeParts
       DEF TypeOK, IsTable, Backing, PerCluster, StoredCluster
  <2>6. QED BY <2>3, <2>4, <2>5
<1>2. TypeOK /\ ObservedBehind /\ [Next]_vars =>
        [\A id \in DOMAIN backing \cap DOMAIN backing' :
            /\ Actuated(id)
            /\ backing[id].suspend
            /\ backing'[id].queue
            => backing'[id].generation > backing[id].generation]_vars
  BY <1>1
<1>3. QED BY <1>2, TypeCorrect, BehindInvariant, PTL DEF Spec, QueueOwnsSuspend

-----------------------------------------------------------------------------
(* The clusters a backup knows of. *)

\* From table t to table u every row stays, at its generation or a later one,
\* and none becomes a tombstone.
RowsGrow(t, u) ==
    /\ DOMAIN t \subseteq DOMAIN u
    /\ \A id \in DOMAIN t : t[id].generation <= u[id].generation
    /\ (\A id \in DOMAIN t : t[id].desired # "Terminated") =>
          \A id \in DOMAIN u : u[id].desired # "Terminated"

\* An untouched table grows, trivially.
LEMMA SameGrow ==
    ASSUME NEW t, IsTable(t, Ids, StoredCluster) PROVE RowsGrow(t, t)
BY DEF RowsGrow, IsTable, StoredCluster

\* upsert_desired takes no row back.
LEMMA UpsertGrow ==
    ASSUME NEW t, IsTable(t, Ids, StoredCluster), NEW id, NEW spec, NEW at
    PROVE  RowsGrow(t, UpsertDesired(t, id, spec, at))
<1> DEFINE u == UpsertDesired(t, id, spec, at)
<1>0. \A x \in DOMAIN t : t[x] \in StoredCluster /\ t[x].generation \in Nat
  BY DEF IsTable, StoredCluster
<1>1. /\ DOMAIN u = DOMAIN t \cup {id}
      /\ \A x \in DOMAIN t \ {id} : u[x] = t[x]
  BY DEF UpsertDesired, Put
<1>2. CASE id \notin DOMAIN t
  <2>1. u[id].desired = "Running"
    BY <1>2 DEF UpsertDesired, Put, NewCluster
  <2>2. \A x \in DOMAIN t : u[x] = t[x]
    BY <1>1, <1>2
  <2>3. \A x \in DOMAIN t : t[x].generation <= u[x].generation
    <3> HIDE DEF u
    <3>1. QED BY <1>0, <2>2
  <2>4. (\A x \in DOMAIN t : t[x].desired # "Terminated") =>
           \A x \in DOMAIN u : u[x].desired # "Terminated"
    <3> HIDE DEF u
    <3>1. QED BY <1>1, <2>1, <2>2
  <2>5. QED BY <1>1, <2>3, <2>4 DEF RowsGrow
<1>3. CASE id \in DOMAIN t
  <2>1. /\ u[id].desired = t[id].desired
        /\ u[id].generation \in {t[id].generation, t[id].generation + 1}
    BY <1>0, <1>3 DEF UpsertDesired, Put, StoredCluster
  <2>2. \A x \in DOMAIN t : t[x].generation <= u[x].generation
    <3> HIDE DEF u
    <3>1. t[id].generation <= u[id].generation
      BY <1>0, <1>3, <2>1
    <3>2. QED BY <1>0, <1>1, <3>1
  <2>3. (\A x \in DOMAIN t : t[x].desired # "Terminated") =>
           \A x \in DOMAIN u : u[x].desired # "Terminated"
    <3> HIDE DEF u
    <3>1. QED BY <1>1, <1>3, <2>1
  <2>4. QED BY <1>1, <2>2, <2>3 DEF RowsGrow
<1>4. QED BY <1>2, <1>3

\* Nor does set_desired, unless it is to terminate.
LEMMA SetDesiredGrow ==
    ASSUME NEW t, IsTable(t, Ids, StoredCluster), NEW id \in DOMAIN t,
           NEW desired, desired # "Terminated", NEW at
    PROVE  RowsGrow(t, SetDesired(t, id, desired, at))
BY DEF RowsGrow, SetDesired, IsTable, StoredCluster

\* Nor do the loop's own records.
LEMMA RecordsGrow ==
    ASSUME NEW t, IsTable(t, Ids, StoredCluster), NEW id
    PROVE  /\ \A condition : RowsGrow(t, SetCondition(t, id, condition))
           /\ \A failures, next : RowsGrow(t, RecordAttempt(t, id, failures, next))
           /\ \A state, gen : RowsGrow(t, RecordObservation(t, id, state, gen))
<1>1. ASSUME NEW condition PROVE RowsGrow(t, SetCondition(t, id, condition))
  BY DEF RowsGrow, SetCondition, IsTable, StoredCluster
<1>2. ASSUME NEW failures, NEW next
      PROVE  RowsGrow(t, RecordAttempt(t, id, failures, next))
  BY DEF RowsGrow, RecordAttempt, IsTable, StoredCluster
<1>3. ASSUME NEW state, NEW gen
      PROVE  RowsGrow(t, RecordObservation(t, id, state, gen))
  BY DEF RowsGrow, RecordObservation, IsTable, StoredCluster
<1>4. QED BY <1>1, <1>2, <1>3

\* If nothing was lost by the end of a step, nothing was lost before it.
LEMMA LastBefore ==
    ASSUME LoadGrows, RowsLast' PROVE RowsLast
<1>1. {"error", "clear", "purge", "delete"} \subseteq Kinds
  BY DEF Kinds
<1>2. Never({"error", "clear", "purge", "delete"})
  BY <1>1, NeverBefore DEF RowsLast
<1>3. QED BY <1>2 DEF RowsLast, LoadGrows

\* An event that loses something ends the promise.
LEMMA LostEnds ==
    ASSUME load \in Load, NEW kind \in {"error", "clear", "purge", "delete"},
           Spend(kind) \/ load'.spent[kind] > 0
    PROVE  KnownCovered'
<1>1. kind \in Kinds
  BY DEF Kinds
<1>2. load'.spent[kind] > 0
  BY <1>1, SpendGrows
<1>3. ~RowsLast'
  BY <1>2 DEF RowsLast, Never
<1>4. QED BY <1>3 DEF KnownCovered

\* The rows in hand are some of those that were in hand.
SnapShrinks ==
    /\ DOMAIN snap' \subseteq DOMAIN snap
    /\ \A id \in DOMAIN snap' : snap'[id] = snap[id]

\* A step that takes no row back, moves no CR and lists nothing keeps what is
\* known of the CRs.
LEMMA KnownFrame ==
    ASSUME TypeOK, KnownCovered, LoadGrows, RowsGrow(rows, rows'),
           GenerationsKept, SnapShrinks, backup' = backup,
           IsTable(rows', Ids, StoredCluster),
           quarantined => quarantined', pc = "boot" => pc' = "boot",
           pc' \in {"reap", "sweep"} => pc' = pc /\ todo' \subseteq todo
    PROVE  KnownCovered'
<1> SUFFICES ASSUME RowsLast'
             PROVE  /\ NothingReaped'
                    /\ \A id \in DOMAIN backing' :
                          load'.spent["restore"] = 0 \/ id \in DOMAIN backup'.rows =>
                              id \in DOMAIN rows' /\ NotAhead(id)'
  BY DEF KnownCovered
<1>1. /\ NothingReaped
      /\ \A id \in DOMAIN backing :
            load.spent["restore"] = 0 \/ id \in DOMAIN backup.rows =>
                id \in DOMAIN rows /\ NotAhead(id)
  BY LastBefore DEF KnownCovered
<1>2. /\ \A id \in DOMAIN rows : rows[id].generation \in Nat
      /\ \A id \in DOMAIN snap : snap[id].generation \in Nat
      /\ \A id \in DOMAIN backing : backing[id].generation \in Nat
  BY DEF TypeOK, DatabaseOK, Database, IsTable, StoredCluster, Backing
<1>3. \A id \in DOMAIN rows' : rows'[id].generation \in Nat
  BY DEF IsTable, StoredCluster
<1>4. load'.spent["restore"] = 0 => load.spent["restore"] = 0
  <2>1. {"restore"} \in SUBSET Kinds
    BY DEF Kinds
  <2>2. Never({"restore"})' => Never({"restore"})
    BY <2>1, NeverBefore
  <2>3. QED BY <2>2 DEF Never
<1>5. NothingReaped'
  <2>1. /\ \A id \in DOMAIN rows' : rows'[id].desired # "Terminated"
        /\ DOMAIN backup'.rows \subseteq DOMAIN rows'
    BY <1>1 DEF NothingReaped, RowsGrow
  <2>2. \A id \in DOMAIN snap' : /\ id \in DOMAIN rows'
                                 /\ snap'[id].generation <= rows'[id].generation
    <3>1. SUFFICES ASSUME NEW id \in DOMAIN snap'
                   PROVE  /\ id \in DOMAIN rows'
                          /\ snap'[id].generation <= rows'[id].generation
      OBVIOUS
    <3>2. id \in DOMAIN snap /\ snap'[id] = snap[id]
      BY <3>1 DEF SnapShrinks
    <3>3. id \in DOMAIN rows /\ snap[id].generation <= rows[id].generation
      BY <1>1, <3>2 DEF NothingReaped
    <3>4. id \in DOMAIN rows' /\ rows[id].generation <= rows'[id].generation
      BY <3>3 DEF RowsGrow
    <3>5. QED BY <1>2, <1>3, <3>2, <3>3, <3>4
  <2>3. pc' \in {"reap", "sweep"} => todo' = {}
    BY <1>1 DEF NothingReaped
  <2>4. QED BY <1>1, <2>1, <2>2, <2>3 DEF NothingReaped
<1>6. ASSUME NEW id \in DOMAIN backing',
             load'.spent["restore"] = 0 \/ id \in DOMAIN backup'.rows
      PROVE  id \in DOMAIN rows' /\ NotAhead(id)'
  <2>1. /\ id \in DOMAIN backing /\ id \in DOMAIN rows /\ NotAhead(id)
        /\ backing'[id].generation = backing[id].generation
    BY <1>1, <1>4, <1>6 DEF GenerationsKept
  <2>2. id \in DOMAIN rows' /\ rows[id].generation <= rows'[id].generation
    BY <2>1 DEF RowsGrow
  <2>3. CASE pc = "boot" \/ quarantined
    BY <2>2, <2>3 DEF NotAhead
  <2>4. CASE ~(pc = "boot" \/ quarantined)
    <3>1. /\ backing[id].generation <= rows[id].generation
          /\ id \in DOMAIN snap => backing[id].generation <= snap[id].generation
      BY <2>1, <2>4 DEF NotAhead
    <3>2. backing'[id].generation <= rows'[id].generation
      BY <1>2, <1>3, <2>1, <2>2, <3>1, Ordered
    <3>3. id \in DOMAIN snap' => backing'[id].generation <= snap'[id].generation
      BY <2>1, <3>1 DEF SnapShrinks
    <3>4. QED BY <2>2, <3>2, <3>3 DEF NotAhead
  <2>5. QED BY <2>3, <2>4
<1>7. QED BY <1>5, <1>6

\* Every step of the task keeps it: the boot check fences off what is ahead, a
\* pass lists the rows as they stand, and apply writes the generation listed.
LEMMA ReconcilerKnown ==
    ASSUME TypeOK, TypeOK', TaskInv, SweepInv, KnownCovered, Reconciler, LoadGrows
    PROVE  KnownCovered'
<1>0. /\ IsTable(rows, Ids, StoredCluster) /\ IsTable(rows', Ids, StoredCluster)
      /\ IsTable(snap, Ids, StoredCluster) /\ load \in Load
      /\ RowsGrow(rows, rows) /\ SnapOnlyInPass
      /\ pc \in PerCluster => cur \in DOMAIN snap
  BY SameGrow DEF TypeOK, DatabaseOK, Database, SweepInv
<1>1. ASSUME Spend("error") PROVE KnownCovered'
  BY <1>0, <1>1, LostEnds
<1>2. ~Apply => GenerationsKept
  BY OnlyApplyMoves DEF Next
<1>3. ASSUME ~Apply, RowsGrow(rows, rows'), SnapShrinks, backup' = backup,
             quarantined' = quarantined, pc \notin {"boot"},
             pc' \notin {"reap", "sweep"}
      PROVE  KnownCovered'
  BY <1>0, <1>2, <1>3, KnownFrame
<1>4. ASSUME RowsLast'
      PROVE  /\ NothingReaped
             /\ \A id \in DOMAIN backing :
                   load.spent["restore"] = 0 \/ id \in DOMAIN backup.rows =>
                       id \in DOMAIN rows /\ NotAhead(id)
  BY <1>4, LastBefore DEF KnownCovered
<1>5. CASE DetectStaleRestore /\ ~Spend("error")
  <2>1. /\ pc = "boot" /\ pc' = "idle" /\ DOMAIN snap = {}
        /\ quarantined' = (quarantined \/ StaleRestore)
        /\ UNCHANGED <<rows, backup, backing, snap, load>>
    BY <1>0, <1>5 DEF DetectStaleRestore, provider, SnapOnlyInPass, PerCluster
  <2>2. ASSUME RowsLast' PROVE NothingReaped'
    BY <1>4, <2>1, <2>2 DEF NothingReaped
  <2>3. ASSUME RowsLast', NEW id \in DOMAIN backing',
               load'.spent["restore"] = 0 \/ id \in DOMAIN backup'.rows
        PROVE  id \in DOMAIN rows' /\ NotAhead(id)'
    <3>1. id \in DOMAIN rows /\ id \in DOMAIN backing
      BY <1>4, <2>1, <2>3
    <3>2. rows[id].generation \in Nat /\ backing[id].generation \in Nat
      BY <3>1 DEF TypeOK, DatabaseOK, Database, IsTable, StoredCluster, Backing
    <3>3. quarantined' \/ backing[id].generation <= rows[id].generation
      <4>1. ~StaleRestore => ~(backing[id].generation > rows[id].generation)
        BY <3>1 DEF StaleRestore
      <4>2. StaleRestore => quarantined'
        BY <2>1
      <4>3. QED BY <3>2, <4>1, <4>2
    <3>4. QED BY <2>1, <3>1, <3>3 DEF NotAhead
  <2>4. QED BY <2>2, <2>3 DEF KnownCovered
<1>6. CASE ReapList /\ ~Spend("error")
  <2>1. /\ pc = "idle" /\ pc' = "reap"
        /\ todo' = {id \in DOMAIN rows : IsExpired(rows[id], now)}
        /\ UNCHANGED <<rows, quarantined, backup, backing, snap, load>>
    BY <1>6 DEF ReapList, store, provider
  <2>2. ASSUME RowsLast' PROVE todo' = {}
    <3>1. \A id \in DOMAIN rows : rows[id].spec.body \in Bodies
      BY <1>0 DEF IsTable, StoredCluster, ClusterSpec
    <3>2. QED BY <2>1, <2>2, <3>1 DEF IsExpired, RowsLast
  <2>3. ASSUME RowsLast' PROVE NothingReaped'
    BY <1>4, <2>1, <2>2, <2>3 DEF NothingReaped
  <2>4. QED BY <1>4, <2>1, <2>3 DEF KnownCovered, NotAhead
<1>7. CASE SweepList /\ ~Spend("error")
  <2>1. /\ pc = "sweepList" /\ pc' = "sweep"
        /\ todo' = {id \in DOMAIN rows :
                      IsPurgeableTombstone(rows[id], now, TerminatedRetention)}
        /\ UNCHANGED <<rows, quarantined, backup, backing, snap, load>>
    BY <1>7 DEF SweepList, store, provider
  <2>2. ASSUME RowsLast' PROVE todo' = {}
    BY <1>4, <2>1, <2>2 DEF IsPurgeableTombstone, IsTombstone, NothingReaped
  <2>3. ASSUME RowsLast' PROVE NothingReaped'
    BY <1>4, <2>1, <2>2, <2>3 DEF NothingReaped
  <2>4. QED BY <1>4, <2>1, <2>3 DEF KnownCovered, NotAhead
<1>8. ASSUME NEW id \in Ids, ReapExpired(id) \/ ReapTerminated(id)
      PROVE  KnownCovered'
  <2>1. id \in todo /\ pc \in {"reap", "sweep"}
    BY <1>8 DEF ReapExpired, ReapTerminated
  <2>2. ~RowsLast'
    BY <1>4, <2>1 DEF NothingReaped
  <2>3. QED BY <2>2 DEF KnownCovered
<1>9. CASE PassList /\ ~Spend("error")
  <2>1. /\ pc = "sweep" /\ pc' = "pass" /\ snap' = rows
        /\ UNCHANGED <<rows, quarantined, backup, backing, load>>
    BY <1>9 DEF PassList, store, provider
  <2>2. \A id \in DOMAIN rows : rows[id].generation <= rows[id].generation
    BY <1>0 DEF RowsGrow
  <2>3. ASSUME RowsLast' PROVE NothingReaped'
    BY <1>4, <2>1, <2>2, <2>3 DEF NothingReaped
  <2>4. QED BY <1>4, <2>1, <2>3 DEF KnownCovered, NotAhead
<1>10. CASE Apply /\ ~Spend("error")
  <2>1. /\ pc = "apply" /\ pc' = "complete" /\ cur \in DOMAIN snap
        /\ backing' = Put(backing, cur, AppliedBacking(row))
        /\ UNCHANGED <<rows, quarantined, backup, snap, load>>
    BY <1>0, <1>10 DEF Apply, store, PerCluster
  <2>2. /\ DOMAIN backing' = DOMAIN backing \cup {cur}
        /\ \A id \in DOMAIN backing \ {cur} : backing'[id] = backing[id]
        /\ backing'[cur].generation = snap[cur].generation
    BY <2>1 DEF Put, AppliedBacking, row
  <2>3. ASSUME RowsLast' PROVE NothingReaped'
    BY <1>4, <2>1, <2>3 DEF NothingReaped
  <2>4. ASSUME RowsLast', NEW id \in DOMAIN backing',
               load'.spent["restore"] = 0 \/ id \in DOMAIN backup'.rows
        PROVE  id \in DOMAIN rows' /\ NotAhead(id)'
    <3>1. CASE id = cur
      <4>1. /\ id \in DOMAIN rows
            /\ snap[id].generation <= rows[id].generation
            /\ snap[id].generation <= snap[id].generation
        <5>1. snap[id].generation \in Nat
          BY <1>0, <2>1, <3>1 DEF IsTable, StoredCluster
        <5>2. NothingReaped /\ id \in DOMAIN snap
          BY <1>4, <2>1, <2>4, <3>1
        <5>3. QED BY <5>1, <5>2, Ordered DEF NothingReaped
      <4>2. QED BY <2>1, <2>2, <3>1, <4>1 DEF NotAhead
    <3>2. CASE id # cur
      <4>1. id \in DOMAIN backing /\ backing'[id] = backing[id]
        BY <2>2, <2>4, <3>2
      <4>2. id \in DOMAIN rows /\ NotAhead(id)
        BY <1>4, <2>1, <2>4, <4>1
      <4>3. QED BY <2>1, <4>1, <4>2 DEF NotAhead
    <3>3. QED BY <3>1, <3>2
  <2>5. QED BY <2>3, <2>4 DEF KnownCovered
<1>11. CASE ReapIntentsPass \/ PassEnd
  <2>1. /\ UNCHANGED <<rows, quarantined, backup, snap>> /\ pc # "boot"
        /\ pc' \notin {"reap", "sweep"} /\ ~Apply
    BY <1>11 DEF ReapIntentsPass, PassEnd, Apply, store
  <2>2. QED BY <1>0, <1>3, <2>1 DEF SnapShrinks
<1>12. ASSUME NEW id \in Ids, ReconcileOne(id) PROVE KnownCovered'
  <2>1. /\ UNCHANGED <<rows, quarantined, backup>> /\ pc # "boot" /\ ~Apply
        /\ pc' \notin {"reap", "sweep"} /\ SnapShrinks
    BY <1>12 DEF ReconcileOne, Apply, store, Done, Drop, SnapShrinks
  <2>2. QED BY <1>0, <1>3, <2>1
<1>13. CASE Decide
  <2>1. row.desired \in DesiredState
    BY <1>13, RowType, TypeParts DEF Decide, PerCluster, StoredCluster
  <2>2. pc' \notin {"reap", "sweep"}
    BY <1>13, <2>1 DEF Decide, DecideRunning, DecideTerminated, DecideSuspended,
                       GoTo, DesiredState
  <2>3. UNCHANGED <<rows, quarantined, backup, snap>> /\ pc # "boot" /\ ~Apply
    BY <1>13 DEF Decide, Apply, store
  <2>4. QED BY <1>0, <1>3, <2>2, <2>3 DEF SnapShrinks
<1>14. CASE \/ DeferApply \/ BeginApply \/ CompleteApply \/ Terminate \/ Suspend
            \/ Reobserve \/ StoreError
  <2>1. UNCHANGED <<rows, quarantined, backup>> /\ pc # "boot" /\ pc # "apply"
    BY <1>14 DEF DeferApply, BeginApply, CompleteApply, Terminate, Suspend,
                 Reobserve, StoreError, store
  <2>2. pc' \notin {"reap", "sweep"} /\ (snap' = snap \/ snap' = Drop(snap, cur))
    BY <1>14 DEF DeferApply, BeginApply, CompleteApply, Terminate, Suspend,
                 Reobserve, StoreError, Done
  <2>3. SnapShrinks /\ ~Apply
    BY <2>1, <2>2 DEF SnapShrinks, Drop, Apply
  <2>4. QED BY <1>0, <1>3, <2>1, <2>2, <2>3
<1>15. CASE ObserveOnly \/ RecordStatus \/ RecordCondition \/ RecordProgress
  <2>1. UNCHANGED <<quarantined, backup>> /\ pc # "boot" /\ pc # "apply"
    BY <1>15 DEF ObserveOnly, RecordStatus, RecordCondition, RecordProgress
  <2>2. pc' \notin {"reap", "sweep"} /\ (snap' = snap \/ snap' = Drop(snap, cur))
    BY <1>15 DEF ObserveOnly, RecordStatus, RecordCondition, RecordProgress, Done
  <2>3. SnapShrinks /\ ~Apply
    BY <2>1, <2>2 DEF SnapShrinks, Drop, Apply
  <2>4. RowsGrow(rows, rows')
    BY <1>0, <1>15, RecordsGrow
       DEF ObserveOnly, RecordStatus, RecordCondition, RecordProgress
  <2>5. QED BY <1>0, <1>3, <2>1, <2>2, <2>3, <2>4
<1>16. QED
  BY <1>1, <1>5, <1>6, <1>7, <1>8, <1>9, <1>10, <1>11, <1>12, <1>13, <1>14, <1>15
     DEF Reconciler

\* So does every other step: a backup is of the rows as they stand, and the
\* one restore leaves no row the backup does not have.
LEMMA OutsideKnown ==
    ASSUME TypeOK, TypeOK', SweepInv, KnownCovered, LoadGrows,
           Api \/ Environment \/ (\E id \in Ids : Settle(id)) \/ UNCHANGED vars
    PROVE  KnownCovered'
<1>0. /\ IsTable(rows, Ids, StoredCluster) /\ IsTable(rows', Ids, StoredCluster)
      /\ RowsGrow(rows, rows) /\ load \in Load /\ PurgeCounted
  BY SameGrow DEF TypeOK, DatabaseOK, Database, SweepInv
<1>1. ~Apply => GenerationsKept
  BY OnlyApplyMoves DEF Next
<1>2. ASSUME ~Apply, RowsGrow(rows, rows'), UNCHANGED <<loop, backup, quarantined>>
      PROVE  KnownCovered'
  <2>1. SnapShrinks /\ UNCHANGED <<pc, todo>>
    BY <1>2 DEF SnapShrinks, loop
  <2>2. QED BY <1>0, <1>1, <1>2, <2>1, KnownFrame
<1>3. ASSUME RowsLast'
      PROVE  /\ NothingReaped
             /\ \A id \in DOMAIN backing :
                   load.spent["restore"] = 0 \/ id \in DOMAIN backup.rows =>
                       id \in DOMAIN rows /\ NotAhead(id)
  BY <1>3, LastBefore DEF KnownCovered
<1>4. UNCHANGED loop => ~Apply
  BY DEF loop, Apply, Done
<1>5. ASSUME NEW id \in Ids, NEW spec \in ClusterSpec, CreateCluster(id, spec)
      PROVE  KnownCovered'
  BY <1>0, <1>2, <1>4, <1>5, UpsertGrow DEF CreateCluster
<1>6. ASSUME NEW id \in Ids,
             DeleteCluster(id) \/ \E c \in Clients : PurgeCheck(c, id)
      PROVE  KnownCovered'
  BY <1>0, <1>6, LostEnds DEF DeleteCluster, PurgeCheck
<1>7. ASSUME NEW id \in Ids, NEW c \in Clients, NEW cmd, LifecycleCheck(c, id, cmd)
      PROVE  KnownCovered'
  BY <1>0, <1>2, <1>4, <1>7 DEF LifecycleCheck, store
<1>8. ASSUME NEW c \in Clients, PurgeCluster(c) PROVE KnownCovered'
  <2>1. load'.spent["purge"] > 0
    BY <1>0, <1>8 DEF PurgeCluster, PurgeCounted
  <2>2. QED BY <1>0, <2>1, LostEnds
<1>9. ASSUME NEW c \in Clients, LifecycleCommand(c) PROVE KnownCovered'
  <2>1. RowsGrow(rows, rows')
    <3>1. CommandDesired(pending[c].op) # "Terminated"
      BY DEF CommandDesired
    <3>2. QED BY <1>0, <1>9, <3>1, SetDesiredGrow DEF LifecycleCommand
  <2>2. QED BY <1>2, <1>4, <1>9, <2>1 DEF LifecycleCommand
<1>10. ASSUME NEW id \in Ids,
              KueueSuspend(id) \/ Degrade(id) \/ Tamper(id) \/ Settle(id)
       PROVE  KnownCovered'
  <2>1. UNCHANGED <<loop, backup, rows, quarantined>>
    BY <1>10 DEF KueueSuspend, Degrade, Tamper, Settle, store
  <2>2. QED BY <1>0, <1>2, <1>4, <2>1
<1>11. CASE ChangeAllocation \/ ClockTick \/ UNCHANGED vars
  <2>1. UNCHANGED <<loop, backup, rows, quarantined>>
    BY <1>11 DEF ChangeAllocation, ClockTick, vars, store
  <2>2. QED BY <1>0, <1>2, <1>4, <2>1
<1>12. CASE ClearQuarantine
  BY <1>0, <1>12, LostEnds DEF ClearQuarantine
<1>13. CASE Crash
  <2>1. /\ pc' = "boot" /\ ~Apply /\ SnapShrinks
        /\ UNCHANGED <<rows, quarantined, backup>>
    BY <1>13 DEF Crash, ResetLoop, EmptyTable, SnapShrinks, store, Apply, Done
  <2>2. QED BY <1>0, <1>1, <2>1, KnownFrame
<1>14. CASE TakeBackup
  <2>1. /\ load.spent["restore"] < load.limit["restore"]
        /\ backup'.rows = rows
        /\ UNCHANGED <<loop, rows, quarantined, backing>>
    BY <1>14 DEF TakeBackup, Database, store, provider
  <2>2. ASSUME RowsLast' PROVE load.spent["restore"] = 0
    <3>1. load.limit["restore"] <= 1
      BY <2>2, LastBefore DEF RowsLast
    <3>2. load.spent["restore"] \in Nat /\ load.limit["restore"] \in Nat
      BY <1>0 DEF Load, Kinds
    <3>3. QED BY <2>1, <3>1, <3>2
  <2>3. ASSUME RowsLast' PROVE NothingReaped'
    BY <1>3, <2>1, <2>3 DEF NothingReaped, loop
  <2>4. QED BY <1>3, <2>1, <2>2, <2>3 DEF KnownCovered, NotAhead, loop
<1>15. CASE Restore
  <2>1. /\ pc' = "boot" /\ DOMAIN snap' = {} /\ rows' = backup.rows
        /\ UNCHANGED <<backup, backing>>
    BY <1>15 DEF Restore, ResetLoop, EmptyTable, provider
  <2>2. load'.spent["restore"] # 0
    <3>1. load'.spent["restore"] > 0
      BY <1>0, <1>15, SpendGrows DEF Restore, Kinds
    <3>2. QED BY <3>1
  <2>3. ASSUME RowsLast' PROVE NothingReaped'
    BY <1>3, <2>1, <2>3 DEF NothingReaped
  <2>4. QED BY <2>1, <2>2, <2>3 DEF KnownCovered, NotAhead
<1>16. QED
  BY <1>5, <1>6, <1>7, <1>8, <1>9, <1>10, <1>11, <1>12, <1>13, <1>14, <1>15
     DEF Api, Handlers, Environment

\* What is known of the CRs a backup has rows for holds in every reachable
\* state.
THEOREM KnownInvariant == Spec => []KnownCovered
<1>1. Init => KnownCovered
  BY DEF Init, KnownCovered, NothingReaped, Database, EmptyTable
<1>2. /\ TypeOK /\ TypeOK' /\ TaskInv /\ SweepInv /\ KnownCovered /\ [Next]_vars
      => KnownCovered'
  BY LoadStep, ReconcilerKnown, OutsideKnown DEF Next
<1>3. QED BY <1>1, <1>2, TypeCorrect, TaskInvariant, SweepInvariant, PTL DEF Spec

\* After a restore the loop takes no cluster the backup knows of back to an
\* older generation, not even to repair a suspension: detect_stale_restore has
\* fenced the loop off, and what it did not fence off is not ahead.
THEOREM RestoreTakesNoneBack == Spec => KnownNeverRollsBack
<1>1. ASSUME TypeOK, TaskInv, KnownCovered, [Next]_vars, RowsLast,
             NEW id \in DOMAIN backing \cap DOMAIN backing' \cap DOMAIN backup.rows
      PROVE  backing'[id].generation >= backing[id].generation
  <2>1. backing[id].generation \in Nat
    BY <1>1 DEF TypeOK, IsTable, Backing
  <2>2. CASE ~Apply
    <3>1. GenerationsKept
      BY <1>1, <2>2, OnlyApplyMoves
    <3>2. backing'[id].generation = backing[id].generation
      BY <3>1 DEF GenerationsKept
    <3>3. QED BY <2>1, <3>2, Ordered
  <2>3. CASE Apply
    <3>1. /\ pc = "apply" /\ ~quarantined /\ cur \in DOMAIN snap
          /\ backing' = backing \/ backing' = Put(backing, cur, AppliedBacking(row))
      BY <1>1, <2>3 DEF Apply, provider, PerCluster, TypeOK, TaskInv, FencedOff
    <3>2. CASE backing' = backing \/ id # cur
      <4>1. backing'[id] = backing[id]
        BY <1>1, <3>1, <3>2 DEF Put
      <4>2. QED BY <2>1, <4>1
    <3>3. CASE backing' # backing /\ id = cur
      <4>1. backing'[id].generation = snap[id].generation
        BY <3>1, <3>3 DEF Put, AppliedBacking, row
      <4>2. NotAhead(id)
        BY <1>1 DEF KnownCovered
      <4>3. backing[id].generation <= snap[id].generation
        BY <3>1, <3>3, <4>2 DEF NotAhead
      <4>4. snap[id].generation \in Nat
        BY <1>1, <3>1, <3>3 DEF TypeOK, IsTable, StoredCluster
      <4>5. QED BY <2>1, <4>1, <4>3, <4>4
    <3>4. QED BY <3>2, <3>3
  <2>4. QED BY <2>2, <2>3
<1>2. TypeOK /\ TaskInv /\ KnownCovered /\ [Next]_vars =>
        [RowsLast =>
            \A id \in DOMAIN backing \cap DOMAIN backing' \cap DOMAIN backup.rows :
                backing'[id].generation >= backing[id].generation]_vars
  BY <1>1
<1>3. QED BY <1>2, TypeCorrect, TaskInvariant, KnownInvariant, PTL
          DEF Spec, KnownNeverRollsBack
=============================================================================
