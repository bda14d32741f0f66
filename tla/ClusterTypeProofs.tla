------------------------- MODULE ClusterTypeProofs --------------------------
(***************************************************************************)
(* What the store operations leave of the tables, and the type invariant   *)
(* of ClusterLifecycle, for any ids, specs, retentions, backoff constants  *)
(* and budgets.                                                            *)
(***************************************************************************)
EXTENDS ClusterProperties, TLAPS

-----------------------------------------------------------------------------
(* Tables.                                                                 *)

\* Inserting a well-typed row keeps a table well typed.
LEMMA PutType ==
    ASSUME NEW K, NEW V, NEW t, IsTable(t, K, V), NEW k \in K, NEW v \in V
    PROVE  IsTable(Put(t, k, v), K, V)
BY DEF IsTable, Put

\* Deleting a row keeps a table well typed.
LEMMA DropType ==
    ASSUME NEW K, NEW V, NEW t, IsTable(t, K, V), NEW k
    PROVE  IsTable(Drop(t, k), K, V)
BY DEF IsTable, Drop

\* The empty table is a table of any type.
LEMMA EmptyType == ASSUME NEW K, NEW V PROVE IsTable(EmptyTable, K, V)
BY DEF IsTable, EmptyTable

-----------------------------------------------------------------------------
(* Backoff.                                                                *)

\* 2^n for the shifts backoff_secs can ask for.
LEMMA PowerOfTwo == \A n \in 0..20 : 2 ^ n \in Nat
<1>1. /\ 2^0 \in Nat /\ 2^1 \in Nat /\ 2^2 \in Nat /\ 2^3 \in Nat
      /\ 2^4 \in Nat /\ 2^5 \in Nat /\ 2^6 \in Nat /\ 2^7 \in Nat
      /\ 2^8 \in Nat /\ 2^9 \in Nat /\ 2^10 \in Nat
  OBVIOUS
<1>2. /\ 2^11 \in Nat /\ 2^12 \in Nat /\ 2^13 \in Nat /\ 2^14 \in Nat
      /\ 2^15 \in Nat /\ 2^16 \in Nat /\ 2^17 \in Nat /\ 2^18 \in Nat
      /\ 2^19 \in Nat /\ 2^20 \in Nat
  OBVIOUS
<1>3. SUFFICES ASSUME NEW n \in 0..20 PROVE 2 ^ n \in Nat
  OBVIOUS
<1>4. \/ n = 0 \/ n = 1 \/ n = 2 \/ n = 3 \/ n = 4 \/ n = 5 \/ n = 6 \/ n = 7
      \/ n = 8 \/ n = 9 \/ n = 10 \/ n = 11 \/ n = 12 \/ n = 13 \/ n = 14
      \/ n = 15 \/ n = 16 \/ n = 17 \/ n = 18 \/ n = 19 \/ n = 20
  OBVIOUS
<1>5. QED BY <1>1, <1>2, <1>4, Zenon

\* A backoff delay is a number of seconds, never above the ceiling.
LEMMA BackoffDelayBound ==
    ASSUME NEW base \in Nat, NEW ceil \in Nat, NEW failures \in Nat
    PROVE  /\ BackoffDelay(base, ceil, failures) \in Nat
           /\ BackoffDelay(base, ceil, failures) <= ceil
<1> DEFINE shift == Least(SaturatingSub(failures, 1), 20)
           power == 2 ^ shift
           delay == base * power
<1>1. shift \in 0..20
  BY DEF SaturatingSub, Least
<1>2. power \in Nat
  <2> HIDE DEF shift
  <2> QED BY <1>1, PowerOfTwo
<1>3. delay \in Nat
  <2> HIDE DEF power
  <2> QED BY <1>2
<1>4. BackoffDelay(base, ceil, failures) = Least(delay, ceil)
  BY DEF BackoffDelay
<1> HIDE DEF delay
<1>5. QED BY <1>3, <1>4 DEF Least

-----------------------------------------------------------------------------
(* The statements of the store.                                            *)

\* Replacing an existing row by a well-typed one keeps a table well typed.
LEMMA ReplaceType ==
    ASSUME NEW K, NEW V, NEW t, IsTable(t, K, V), NEW k \in DOMAIN t,
           NEW v \in V
    PROVE  IsTable([t EXCEPT ![k] = v], K, V)
BY DEF IsTable

\* upsert_desired keeps the clusters table well typed.
LEMMA UpsertDesiredType ==
    ASSUME NEW t, IsTable(t, Ids, StoredCluster), NEW id \in Ids,
           NEW spec \in ClusterSpec, NEW at \in Nat
    PROVE  IsTable(UpsertDesired(t, id, spec, at), Ids, StoredCluster)
<1>1. CASE id \notin DOMAIN t
  <2>1. NewCluster(spec, at) \in StoredCluster
    BY DEF NewCluster, StoredCluster, DesiredState, NoTime
  <2>2. QED BY <1>1, <2>1, PutType DEF UpsertDesired
<1>2. CASE id \in DOMAIN t
  <2>1. t[id] \in StoredCluster
    BY <1>2 DEF IsTable
  <2> DEFINE next == IF SpecChanged(t[id].spec, spec)
                     THEN t[id].generation + 1 ELSE t[id].generation
             new  == [t[id] EXCEPT !.spec = spec, !.generation = next]
  <2>2. t[id].generation \in Nat \ {0}
    BY <2>1 DEF StoredCluster
  <2>3. next \in Nat \ {0}
    BY <2>2
  <2>4. new \in StoredCluster
    <3> HIDE DEF next
    <3> QED BY <2>1, <2>3 DEF StoredCluster
  <2>5. UpsertDesired(t, id, spec, at) = Put(t, id, new)
    BY <1>2, <2>1 DEF UpsertDesired, StoredCluster
  <2> HIDE DEF new
  <2>6. QED BY <2>4, <2>5, PutType
<1>3. QED BY <1>1, <1>2

\* set_desired keeps the clusters table well typed.
LEMMA SetDesiredType ==
    ASSUME NEW t, IsTable(t, Ids, StoredCluster), NEW id \in DOMAIN t,
           NEW desired \in DesiredState, NEW at \in Nat
    PROVE  IsTable(SetDesired(t, id, desired, at), Ids, StoredCluster)
<1>1. t[id] \in StoredCluster
  BY DEF IsTable
<1> DEFINE stamp == IF desired # "Terminated" THEN NoTime
                    ELSE IF t[id].terminated_at = NoTime THEN at
                    ELSE t[id].terminated_at
           new == [t[id] EXCEPT !.desired = desired, !.terminated_at = stamp]
<1>2. new \in StoredCluster
  BY <1>1 DEF StoredCluster
<1>3. SetDesired(t, id, desired, at) = [t EXCEPT ![id] = new]
  BY <1>1 DEF SetDesired, StoredCluster
<1> HIDE DEF new
<1>4. IsTable([t EXCEPT ![id] = new], Ids, StoredCluster)
  BY <1>2, ReplaceType
<1>5. QED BY <1>3, <1>4

\* record_observation keeps the clusters table well typed.
LEMMA RecordObservationType ==
    ASSUME NEW t, IsTable(t, Ids, StoredCluster), NEW id,
           NEW state \in ClusterState \cup {Absent}, NEW generation \in Nat
    PROVE  IsTable(RecordObservation(t, id, state, generation),
                   Ids, StoredCluster)
<1>1. CASE id \notin DOMAIN t
  BY <1>1 DEF RecordObservation
<1>2. CASE id \in DOMAIN t
  <2>1. t[id] \in StoredCluster
    BY <1>2 DEF IsTable
  <2> DEFINE seen == IF generation > t[id].observed_generation
                     THEN generation ELSE t[id].observed_generation
             new  == [t[id] EXCEPT !.observed_state = state,
                                      !.observed_generation = seen]
  <2>2. new \in StoredCluster
    BY <2>1 DEF StoredCluster
  <2>3. RecordObservation(t, id, state, generation) =
          [t EXCEPT ![id] = new]
    BY <1>2, <2>1 DEF RecordObservation, StoredCluster
  <2> HIDE DEF new
  <2>4. IsTable([t EXCEPT ![id] = new], Ids, StoredCluster)
    BY <1>2, <2>2, ReplaceType
  <2>5. QED BY <2>3, <2>4
<1>3. QED BY <1>1, <1>2

\* set_condition keeps the clusters table well typed.
LEMMA SetConditionType ==
    ASSUME NEW t, IsTable(t, Ids, StoredCluster), NEW id,
           NEW condition \in DriftCondition \cup {Absent}
    PROVE  IsTable(SetCondition(t, id, condition), Ids, StoredCluster)
<1>1. CASE id \notin DOMAIN t
  BY <1>1 DEF SetCondition
<1>2. CASE id \in DOMAIN t
  <2>1. t[id] \in StoredCluster
    BY <1>2 DEF IsTable
  <2>2. [t[id] EXCEPT !.condition = condition] \in StoredCluster
    BY <2>1 DEF StoredCluster
  <2>3. QED BY <1>2, <2>2, ReplaceType DEF SetCondition
<1>3. QED BY <1>1, <1>2

\* record_attempt keeps the clusters table well typed.
LEMMA RecordAttemptType ==
    ASSUME NEW t, IsTable(t, Ids, StoredCluster), NEW id,
           NEW failures \in Nat, NEW next \in Nat
    PROVE  IsTable(RecordAttempt(t, id, failures, next), Ids, StoredCluster)
<1>1. CASE id \notin DOMAIN t
  BY <1>1 DEF RecordAttempt
<1>2. CASE id \in DOMAIN t
  <2>1. t[id] \in StoredCluster
    BY <1>2 DEF IsTable
  <2> DEFINE new == [t[id] EXCEPT !.failure_count = failures,
                                     !.next_attempt_at = next]
  <2>2. new \in StoredCluster
    BY <2>1 DEF StoredCluster
  <2>3. RecordAttempt(t, id, failures, next) = [t EXCEPT ![id] = new]
    BY <1>2, <2>1 DEF RecordAttempt, StoredCluster
  <2> HIDE DEF new
  <2>4. IsTable([t EXCEPT ![id] = new], Ids, StoredCluster)
    BY <1>2, <2>2, ReplaceType
  <2>5. QED BY <2>3, <2>4
<1>3. QED BY <1>1, <1>2

\* begin_intent keeps the outbox well typed, and afterwards the key is held by
\* the parameters it was given, unless it was refused.
LEMMA BeginIntentType ==
    ASSUME NEW outbox, IsTable(outbox, IntentKeys, IntentRecord),
           NEW key \in IntentKeys, NEW fp \in Bodies \X Owners
    PROVE  /\ IsTable(BeginIntent(outbox, key, fp), IntentKeys, IntentRecord)
           /\ ~ParamMismatch(outbox, key, fp) =>
                 /\ key \in DOMAIN BeginIntent(outbox, key, fp)
                 /\ BeginIntent(outbox, key, fp)[key].params_fingerprint = fp
<1> DEFINE rec == [ params_fingerprint |-> fp, status |-> "Pending",
                    completed_at |-> NoTime ]
<1>1. rec \in IntentRecord
  BY DEF IntentRecord, IntentStatus, NoTime
<1>2. IsTable(Put(outbox, key, rec), IntentKeys, IntentRecord)
  BY <1>1, PutType
<1>3. QED BY <1>2 DEF BeginIntent, ParamMismatch, Put

\* complete_intent keeps the outbox well typed.
LEMMA CompleteIntentType ==
    ASSUME NEW outbox, IsTable(outbox, IntentKeys, IntentRecord),
           NEW key, NEW at \in Nat
    PROVE  IsTable(CompleteIntent(outbox, key, at), IntentKeys, IntentRecord)
<1>1. CASE key \notin DOMAIN outbox
  BY <1>1 DEF CompleteIntent
<1>2. CASE key \in DOMAIN outbox
  <2>1. outbox[key] \in IntentRecord
    BY <1>2 DEF IsTable
  <2> DEFINE new == [outbox[key] EXCEPT !.status = "Applied",
                                         !.completed_at = at]
  <2>2. new \in IntentRecord
    BY <2>1 DEF IntentRecord, IntentStatus
  <2>3. CompleteIntent(outbox, key, at) = [outbox EXCEPT ![key] = new]
    BY <1>2, <2>1 DEF CompleteIntent, IntentRecord
  <2> HIDE DEF new
  <2>4. IsTable([outbox EXCEPT ![key] = new], IntentKeys, IntentRecord)
    BY <1>2, <2>2, ReplaceType
  <2>5. QED BY <2>3, <2>4
<1>3. QED BY <1>1, <1>2

\* reap_intents keeps the outbox well typed.
LEMMA ReapIntentsType ==
    ASSUME NEW outbox, IsTable(outbox, IntentKeys, IntentRecord), NEW cutoff
    PROVE  IsTable(ReapIntents(outbox, cutoff), IntentKeys, IntentRecord)
BY DEF IsTable, ReapIntents

-----------------------------------------------------------------------------
(* Which operations may delay a row's next attempt.                        *)

\* From table t to table u no row is given a later next attempt: it keeps its
\* own, or starts with none.
NoLater(t, u) ==
    \A id \in DOMAIN u :
        \/ u[id].next_attempt_at = 0
        \/ id \in DOMAIN t /\ u[id].next_attempt_at = t[id].next_attempt_at

\* Every operation of the clusters table but record_attempt leaves the
\* attempts alone.
LEMMA UpsertNoLater ==
    ASSUME NEW t, IsTable(t, Ids, StoredCluster), NEW id,
           NEW spec, NEW at
    PROVE  NoLater(t, UpsertDesired(t, id, spec, at))
BY DEF NoLater, UpsertDesired, NewCluster, Put, IsTable, StoredCluster

\* set_desired leaves the attempts alone.
LEMMA SetDesiredNoLater ==
    ASSUME NEW t, IsTable(t, Ids, StoredCluster), NEW id \in DOMAIN t,
           NEW desired, NEW at
    PROVE  NoLater(t, SetDesired(t, id, desired, at))
BY DEF NoLater, SetDesired, IsTable, StoredCluster

\* record_observation leaves the attempts alone.
LEMMA RecordObservationNoLater ==
    ASSUME NEW t, IsTable(t, Ids, StoredCluster), NEW id,
           NEW state, NEW generation
    PROVE  NoLater(t, RecordObservation(t, id, state, generation))
BY DEF NoLater, RecordObservation, IsTable, StoredCluster

\* set_condition leaves the attempts alone.
LEMMA SetConditionNoLater ==
    ASSUME NEW t, IsTable(t, Ids, StoredCluster), NEW id, NEW condition
    PROVE  NoLater(t, SetCondition(t, id, condition))
BY DEF NoLater, SetCondition, IsTable, StoredCluster

\* remove_cluster leaves the attempts alone.
LEMMA DropNoLater == ASSUME NEW t, NEW id PROVE NoLater(t, Drop(t, id))
BY DEF NoLater, Drop

\* record_attempt changes the attempt of one row.
LEMMA RecordAttemptOthers ==
    ASSUME NEW t, IsTable(t, Ids, StoredCluster), NEW id,
           NEW failures, NEW next
    PROVE  LET new == RecordAttempt(t, id, failures, next)
           IN  /\ DOMAIN new = DOMAIN t
               /\ \A x \in DOMAIN t \ {id} : new[x] = t[x]
BY DEF RecordAttempt, IsTable

-----------------------------------------------------------------------------
(* The type invariant.                                                     *)

\* Counting an event leaves counts.
LEMMA SpendType ==
    ASSUME load \in Load, NEW kind \in Kinds, Spend(kind)
    PROVE  load' \in Load
<1>1. [load.spent EXCEPT ![kind] = @ + 1] \in [Kinds -> Nat]
  BY DEF Load
<1>2. QED BY <1>1 DEF Spend, Load

\* What observe returns is an observation.
LEMMA ObserveType ==
    ASSUME IsTable(backing, Ids, Backing), NEW id
    PROVE  Observe(id) \in Observation
<1>1. CASE id \in DOMAIN backing
  <2>1. backing[id] \in Backing
    BY <1>1 DEF IsTable
  <2>2. QED BY <1>1, <2>1 DEF Observe, Observation, Backing, BackingState, ClusterState
<1>2. CASE id \notin DOMAIN backing
  BY <1>2 DEF Observe, Observation, Unobserved, Absent
<1>3. QED BY <1>1, <1>2

\* The part of the type invariant about the reconcile task.
LoopOK ==
    /\ pc \in Locations
    /\ todo \subseteq Ids
    /\ IsTable(snap, Ids, StoredCluster)
    /\ passNow \in Nat
    /\ cur \in Ids \cup {Nobody}
    /\ pc \in PerCluster => cur \in DOMAIN snap
    /\ obs \in Observation
    /\ queue \in BOOLEAN
    /\ act \in Action
    /\ cond \in DriftCondition \cup {Absent}

\* The rest of it.
RestOK ==
    /\ IsTable(rows, Ids, StoredCluster)
    /\ IsTable(intents, IntentKeys, IntentRecord)
    /\ quarantined \in BOOLEAN
    /\ DatabaseOK(backup)
    /\ IsTable(backing, Ids, Backing)
    /\ netpol \subseteq Ids
    /\ queued \in BOOLEAN
    /\ pending \in [Clients -> Request \cup {NoRequest}]
    /\ now \in Nat
    /\ load \in Load

\* The two parts make the whole.
LEMMA TypeParts == TypeOK <=> LoopOK /\ RestOK
BY DEF TypeOK, LoopOK, RestOK, DatabaseOK, Database

\* ... in the next state as well.
LEMMA TypePartsNext == TypeOK' <=> LoopOK' /\ RestOK'
BY DEF TypeOK, LoopOK, RestOK, DatabaseOK, Database

\* A step that changes nothing of the reconcile task keeps its types.
LEMMA LoopUnchanged == LoopOK /\ UNCHANGED loop => LoopOK'
BY DEF LoopOK, loop, turn

\* The end of a cluster's turn keeps the types of the reconcile task.
LEMMA DoneType ==
    ASSUME LoopOK, NEW id, Done(id), todo' = todo, passNow' = passNow
    PROVE  LoopOK'
<1>1. IsTable(snap', Ids, StoredCluster)
  BY DropType DEF LoopOK, Done
<1>2. obs' \in Observation
  BY DEF Done, Observation, Unobserved, Absent
<1>3. pc' \in Locations /\ pc' \notin PerCluster
  BY DEF Done, Locations, PerCluster
<1>4. QED BY <1>1, <1>2, <1>3 DEF LoopOK, Done, Action

\* A restart puts the reconcile task at its start.
LEMMA ResetType == ASSUME ResetLoop, pc' = "boot" PROVE LoopOK'
<1>1. IsTable(snap', Ids, StoredCluster)
  BY EmptyType DEF ResetLoop
<1>2. obs' \in Observation
  BY DEF ResetLoop, Observation, Unobserved, Absent
<1>3. pc' \in Locations /\ pc' \notin PerCluster
  BY DEF Locations, PerCluster
<1>4. QED BY <1>1, <1>2, <1>3 DEF LoopOK, ResetLoop, Action

\* The row in hand is a row of the snapshot.
LEMMA RowType ==
    ASSUME LoopOK, pc \in PerCluster
    PROVE  /\ cur \in Ids
           /\ row \in StoredCluster
           /\ IntentKey(cur, row) \in IntentKeys
           /\ ParamsFingerprint(row.spec) \in Bodies \X Owners
<1>1. cur \in DOMAIN snap /\ cur \in Ids
  BY DEF LoopOK, IsTable
<1>2. row \in StoredCluster
  BY <1>1 DEF LoopOK, IsTable, row
<1>3. row.generation \in Nat \ {0} /\ row.spec \in ClusterSpec
  BY <1>2 DEF StoredCluster
<1>4. QED BY <1>1, <1>2, <1>3
          DEF IntentKey, IntentKeys, ParamsFingerprint, ClusterSpec

\* What apply writes is a well-formed CR.
LEMMA AppliedBackingType ==
    ASSUME LoopOK, IsTable(backing, Ids, Backing), pc \in PerCluster
    PROVE  AppliedBacking(row) \in Backing
<1>1. row.generation \in Nat \ {0} /\ row.spec.body \in Bodies
  BY RowType DEF StoredCluster, ClusterSpec
<1>2. cur \in DOMAIN backing => backing[cur].state \in BackingState
  BY DEF IsTable, Backing
<1>3. QED BY <1>1, <1>2 DEF AppliedBacking, Backing, BackingState, LoopOK

\* Changing fields of one CR, to values of their types, keeps the CRs typed.
LEMMA BackingReplace ==
    ASSUME IsTable(backing, Ids, Backing), NEW id \in DOMAIN backing
    PROVE  /\ \A s \in BackingState :
                 IsTable([backing EXCEPT ![id].state = s], Ids, Backing)
           /\ \A b \in BOOLEAN :
                 IsTable([backing EXCEPT ![id].suspend = b], Ids, Backing)
           /\ IsTable([backing EXCEPT ![id].fingerprint = Edited], Ids, Backing)
<1>1. backing[id] \in Backing
  BY DEF IsTable
<1>2. \A s \in BackingState : [backing[id] EXCEPT !.state = s] \in Backing
  BY <1>1 DEF Backing
<1>3. \A b \in BOOLEAN : [backing[id] EXCEPT !.suspend = b] \in Backing
  BY <1>1 DEF Backing
<1>4. [backing[id] EXCEPT !.fingerprint = Edited] \in Backing
  BY <1>1 DEF Backing
<1>5. QED BY <1>2, <1>3, <1>4, ReplaceType

\* A backoff delay is a number of seconds.
LEMMA BackoffType ==
    ASSUME NEW failures \in Nat PROVE BackoffSecs(failures) \in Nat
BY BackoffDelayBound, ConstantsAssumption DEF BackoffSecs

\* Every step of the reconcile task keeps the types.
LEMMA ReconcilerType == ASSUME TypeOK, Reconciler PROVE TypeOK'
<1>0. LoopOK /\ RestOK
  BY TypeParts
<1> SUFFICES LoopOK' /\ RestOK'
  BY TypePartsNext
<1>1. CASE DetectStaleRestore
  <2>1. LoopOK'
    BY <1>0, <1>1 DEF LoopOK, DetectStaleRestore, turn, Locations, PerCluster
  <2>2. load' \in Load
    BY <1>0, <1>1, SpendType DEF DetectStaleRestore, RestOK, Kinds
  <2>3. quarantined' \in BOOLEAN
    BY <1>0, <1>1 DEF DetectStaleRestore, RestOK
  <2>4. QED BY <1>0, <1>1, <2>1, <2>2, <2>3
            DEF DetectStaleRestore, RestOK, DatabaseOK, provider
<1>2. CASE ReapList
  <2>1. LoopOK'
    BY <1>0, <1>2 DEF LoopOK, RestOK, IsTable, ReapList, turn, Locations, PerCluster
  <2>2. load' \in Load
    BY <1>0, <1>2, SpendType DEF ReapList, RestOK, Kinds
  <2>3. QED BY <1>0, <1>2, <2>1, <2>2
            DEF ReapList, RestOK, DatabaseOK, store, provider
<1>3. CASE ReapIntentsPass
  <2>1. LoopOK'
    BY <1>0, <1>3 DEF LoopOK, ReapIntentsPass, turn, Locations, PerCluster
  <2>2. IsTable(intents', IntentKeys, IntentRecord)
    BY <1>0, <1>3, ReapIntentsType DEF RestOK, ReapIntentsPass
  <2>3. load' \in Load
    BY <1>0, <1>3, SpendType DEF ReapIntentsPass, RestOK, Kinds
  <2>4. QED BY <1>0, <1>3, <2>1, <2>2, <2>3
            DEF ReapIntentsPass, RestOK, DatabaseOK, provider
<1>4. CASE SweepList
  <2>1. LoopOK'
    BY <1>0, <1>4 DEF LoopOK, RestOK, IsTable, SweepList, turn, Locations, PerCluster
  <2>2. load' \in Load
    BY <1>0, <1>4, SpendType DEF SweepList, RestOK, Kinds
  <2>3. QED BY <1>0, <1>4, <2>1, <2>2
            DEF SweepList, RestOK, DatabaseOK, store, provider
<1>5. CASE PassList
  <2>1. LoopOK'
    BY <1>0, <1>5, EmptyType
       DEF LoopOK, RestOK, PassList, turn, Locations, PerCluster
  <2>2. load' \in Load
    BY <1>0, <1>5, SpendType DEF PassList, RestOK, Kinds
  <2>3. QED BY <1>0, <1>5, <2>1, <2>2
            DEF PassList, RestOK, DatabaseOK, store, provider
<1>6. CASE PassEnd
  <2>1. LoopOK'
    BY <1>0, <1>6 DEF LoopOK, PassEnd, turn, Locations, PerCluster
  <2>2. QED BY <1>0, <1>6, <2>1 DEF PassEnd, RestOK, DatabaseOK, store, provider
<1>7. ASSUME NEW id \in Ids, ReapExpired(id) PROVE LoopOK' /\ RestOK'
  <2>1. LoopOK'
    BY <1>0, <1>7 DEF LoopOK, ReapExpired, turn
  <2>2. IsTable(rows', Ids, StoredCluster)
    BY <1>0, <1>7, SetDesiredType DEF RestOK, ReapExpired, DesiredState
  <2>3. load' \in Load
    BY <1>0, <1>7, SpendType DEF ReapExpired, RestOK, Kinds
  <2>4. QED BY <1>0, <1>7, <2>1, <2>2, <2>3
            DEF ReapExpired, RestOK, DatabaseOK, provider
<1>8. ASSUME NEW id \in Ids, ReapTerminated(id) PROVE LoopOK' /\ RestOK'
  <2>1. LoopOK'
    BY <1>0, <1>8 DEF LoopOK, ReapTerminated, turn
  <2>2. IsTable(rows', Ids, StoredCluster)
    BY <1>0, <1>8, DropType DEF RestOK, ReapTerminated
  <2>3. load' \in Load
    BY <1>0, <1>8, SpendType DEF ReapTerminated, RestOK, Kinds
  <2>4. netpol' \subseteq Ids
    BY <1>0, <1>8 DEF ReapTerminated, RestOK
  <2>5. QED BY <1>0, <1>8, <2>1, <2>2, <2>3, <2>4
            DEF ReapTerminated, RestOK, DatabaseOK
<1>9. ASSUME NEW id \in Ids, ReconcileOne(id) PROVE LoopOK' /\ RestOK'
  <2>1. LoopOK'
    <3>1. CASE Done(id)
      BY <1>0, <1>9, <3>1, DoneType DEF ReconcileOne
    <3>2. CASE ~Done(id)
      <4>1. Observe(id) \in Observation
        BY <1>0, ObserveType DEF RestOK
      <4>2. QED BY <1>0, <1>9, <3>2, <4>1
                DEF LoopOK, ReconcileOne, Locations, PerCluster
    <3>3. QED BY <3>1, <3>2
  <2>2. load' \in Load
    BY <1>0, <1>9, SpendType DEF ReconcileOne, RestOK, Kinds
  <2>3. QED BY <1>0, <1>9, <2>1, <2>2
            DEF ReconcileOne, RestOK, DatabaseOK, store, provider
<1>10. CASE ObserveOnly
  <2>1. LoopOK'
    BY <1>0, <1>10, DoneType DEF ObserveOnly
  <2>2. obs.state \in ClusterState \cup {Absent} /\ obs.generation \in Nat
    BY <1>0 DEF LoopOK, Observation
  <2>3. IsTable(rows', Ids, StoredCluster)
    BY <1>0, <1>10, <2>2, RecordObservationType DEF RestOK, ObserveOnly
  <2>4. QED BY <1>0, <1>10, <2>1, <2>3 DEF ObserveOnly, RestOK, DatabaseOK, provider
<1>11. CASE Decide
  <2>1. /\ pc' \in PerCluster
        /\ act' \in Action
        /\ cond' \in DriftCondition \cup {Absent}
    <3>0. row.desired \in DesiredState
      BY <1>0, <1>11, RowType DEF Decide, PerCluster, StoredCluster
    <3>1. CASE row.desired = "Running"
      BY <1>11, <3>1
         DEF Decide, DecideRunning, GoTo, PerCluster, Action, DriftCondition
    <3>2. CASE row.desired = "Terminated"
      BY <1>11, <3>2 DEF Decide, DecideTerminated, GoTo, PerCluster, Action
    <3>3. CASE row.desired = "Suspended"
      BY <1>11, <3>3 DEF Decide, DecideSuspended, GoTo, PerCluster, Action
    <3>4. QED BY <3>0, <3>1, <3>2, <3>3 DEF DesiredState
  <2>2. cur \in DOMAIN snap
    BY <1>0, <1>11 DEF Decide, LoopOK, PerCluster
  <2>3. LoopOK'
    BY <1>0, <1>11, <2>1, <2>2 DEF LoopOK, RestOK, Decide, Locations
  <2>4. QED BY <1>0, <1>11, <2>3 DEF Decide, RestOK, DatabaseOK, store, provider
<1>12. CASE DeferApply
  <2>1. LoopOK'
    BY <1>0, <1>12, DoneType DEF DeferApply
  <2>2. load' \in Load
    BY <1>0, <1>12, SpendType DEF DeferApply, RestOK, Kinds
  <2>3. QED BY <1>0, <1>12, <2>1, <2>2
            DEF DeferApply, RestOK, DatabaseOK, store, provider
<1>13. CASE BeginApply
  <2>0. pc \in PerCluster
    BY <1>13 DEF BeginApply, PerCluster
  <2>1. LoopOK'
    <3>1. CASE Done(cur)
      BY <1>0, <1>13, <3>1, DoneType DEF BeginApply
    <3>2. CASE ~Done(cur)
      BY <1>0, <1>13, <2>0, <3>2
         DEF LoopOK, BeginApply, turn, Locations, PerCluster
    <3>3. QED BY <3>1, <3>2
  <2>2. IsTable(intents', IntentKeys, IntentRecord)
    BY <1>0, <1>13, <2>0, RowType, BeginIntentType DEF RestOK, BeginApply
  <2>3. QED BY <1>0, <1>13, <2>1, <2>2 DEF BeginApply, RestOK, DatabaseOK, provider
<1>14. CASE Apply
  <2>0. pc \in PerCluster
    BY <1>14 DEF Apply, PerCluster
  <2>1. LoopOK'
    <3>1. CASE Done(cur)
      BY <1>0, <1>14, <3>1, DoneType DEF Apply
    <3>2. CASE ~Done(cur)
      BY <1>0, <1>14, <2>0, <3>2 DEF LoopOK, Apply, turn, Locations, PerCluster
    <3>3. QED BY <3>1, <3>2
  <2>2. cur \in Ids /\ AppliedBacking(row) \in Backing
    BY <1>0, <2>0, RowType, AppliedBackingType DEF RestOK
  <2>3. IsTable(Put(backing, cur, AppliedBacking(row)), Ids, Backing)
    BY <1>0, <2>2, PutType DEF RestOK
  <2>4. IsTable(backing', Ids, Backing) /\ netpol' \subseteq Ids
    BY <1>0, <1>14, <2>2, <2>3 DEF RestOK, Apply, provider
  <2>5. load' \in Load
    BY <1>0, <1>14, SpendType DEF Apply, RestOK, Kinds
  <2>6. QED BY <1>0, <1>14, <2>1, <2>4, <2>5 DEF Apply, RestOK, DatabaseOK, store
<1>15. CASE CompleteApply
  <2>1. LoopOK'
    BY <1>0, <1>15 DEF LoopOK, CompleteApply, turn, Locations, PerCluster
  <2>2. IsTable(intents', IntentKeys, IntentRecord)
    BY <1>0, <1>15, CompleteIntentType DEF RestOK, CompleteApply
  <2>3. QED BY <1>0, <1>15, <2>1, <2>2
            DEF CompleteApply, RestOK, DatabaseOK, provider
<1>16. CASE Terminate
  <2>1. LoopOK'
    <3>1. CASE Done(cur)
      BY <1>0, <1>16, <3>1, DoneType DEF Terminate
    <3>2. CASE ~Done(cur)
      BY <1>0, <1>16, <3>2 DEF LoopOK, Terminate, turn, Locations, PerCluster
    <3>3. QED BY <3>1, <3>2
  <2>2. IsTable(Drop(backing, cur), Ids, Backing)
    BY <1>0, DropType DEF RestOK
  <2>3. IsTable(backing', Ids, Backing) /\ netpol' \subseteq Ids
    BY <1>0, <1>16, <2>2 DEF RestOK, Terminate, provider
  <2>4. load' \in Load
    BY <1>0, <1>16, SpendType DEF Terminate, RestOK, Kinds
  <2>5. QED BY <1>0, <1>16, <2>1, <2>3, <2>4 DEF Terminate, RestOK, DatabaseOK, store
<1>17. CASE Suspend
  <2>1. LoopOK'
    <3>1. CASE Done(cur)
      BY <1>0, <1>17, <3>1, DoneType DEF Suspend
    <3>2. CASE ~Done(cur)
      BY <1>0, <1>17, <3>2 DEF LoopOK, Suspend, turn, Locations, PerCluster
    <3>3. QED BY <3>1, <3>2
  <2>2. IsTable(backing', Ids, Backing)
    BY <1>0, <1>17, BackingReplace DEF RestOK, Suspend
  <2>3. load' \in Load
    BY <1>0, <1>17, SpendType DEF Suspend, RestOK, Kinds
  <2>4. QED BY <1>0, <1>17, <2>1, <2>2, <2>3 DEF Suspend, RestOK, DatabaseOK, store
<1>18. CASE Reobserve
  <2>1. LoopOK'
    <3>1. CASE Done(cur)
      BY <1>0, <1>18, <3>1, DoneType DEF Reobserve
    <3>2. CASE ~Done(cur)
      <4>1. Observe(cur) \in Observation
        BY <1>0, ObserveType DEF RestOK
      <4>2. QED BY <1>0, <1>18, <3>2, <4>1
                DEF LoopOK, Reobserve, Locations, PerCluster
    <3>3. QED BY <3>1, <3>2
  <2>2. load' \in Load
    BY <1>0, <1>18, SpendType DEF Reobserve, RestOK, Kinds
  <2>3. QED BY <1>0, <1>18, <2>1, <2>2
            DEF Reobserve, RestOK, DatabaseOK, store, provider
<1>19. CASE RecordStatus
  <2>1. LoopOK'
    BY <1>0, <1>19 DEF LoopOK, RecordStatus, turn, Locations, PerCluster
  <2>2. obs.state \in ClusterState \cup {Absent} /\ obs.generation \in Nat
    BY <1>0 DEF LoopOK, Observation
  <2>3. IsTable(rows', Ids, StoredCluster)
    BY <1>0, <1>19, <2>2, RecordObservationType DEF RestOK, RecordStatus
  <2>4. QED BY <1>0, <1>19, <2>1, <2>3
            DEF RecordStatus, RestOK, DatabaseOK, provider
<1>20. CASE RecordCondition
  <2>1. LoopOK'
    BY <1>0, <1>20 DEF LoopOK, RecordCondition, turn, Locations, PerCluster
  <2>2. IsTable(rows', Ids, StoredCluster)
    BY <1>0, <1>20, SetConditionType DEF RestOK, LoopOK, RecordCondition
  <2>3. QED BY <1>0, <1>20, <2>1, <2>2
            DEF RecordCondition, RestOK, DatabaseOK, provider
<1>21. CASE RecordProgress
  <2>1. LoopOK'
    BY <1>0, <1>21, DoneType DEF RecordProgress
  <2>2. row.failure_count + 1 \in Nat
    BY <1>0, <1>21, RowType DEF RecordProgress, PerCluster, StoredCluster
  <2>3. passNow + BackoffSecs(row.failure_count + 1) \in Nat
    BY <1>0, <2>2, BackoffType DEF LoopOK
  <2>4. IsTable(rows', Ids, StoredCluster)
    BY <1>0, <1>21, <2>2, <2>3, RecordAttemptType DEF RestOK, RecordProgress
  <2>5. QED BY <1>0, <1>21, <2>1, <2>4
            DEF RecordProgress, RestOK, DatabaseOK, provider
<1>22. CASE StoreError
  <2>1. LoopOK'
    BY <1>0, <1>22, DoneType DEF StoreError
  <2>2. load' \in Load
    BY <1>0, <1>22, SpendType DEF StoreError, RestOK, Kinds
  <2>3. QED BY <1>0, <1>22, <2>1, <2>2
            DEF StoreError, RestOK, DatabaseOK, store, provider
<1>23. QED
  BY <1>1, <1>2, <1>3, <1>4, <1>5, <1>6, <1>7, <1>8, <1>9, <1>10, <1>11, <1>12,
     <1>13, <1>14, <1>15, <1>16, <1>17, <1>18, <1>19, <1>20, <1>21, <1>22
     DEF Reconciler

\* Every step of the API handlers keeps the types.
LEMMA ApiType == ASSUME TypeOK, Api PROVE TypeOK'
<1>0. LoopOK /\ RestOK
  BY TypeParts
<1> SUFFICES LoopOK' /\ RestOK'
  BY TypePartsNext
<1>1. ASSUME NEW id \in Ids, NEW spec \in ClusterSpec, CreateCluster(id, spec)
      PROVE  LoopOK' /\ RestOK'
  <2>1. LoopOK'
    BY <1>0, <1>1, LoopUnchanged DEF CreateCluster
  <2>2. IsTable(rows', Ids, StoredCluster)
    BY <1>0, <1>1, UpsertDesiredType DEF RestOK, CreateCluster
  <2>3. load' \in Load
    BY <1>0, <1>1, SpendType DEF CreateCluster, RestOK, Kinds
  <2>4. QED BY <1>0, <1>1, <2>1, <2>2, <2>3
            DEF CreateCluster, RestOK, DatabaseOK, provider
<1>2. ASSUME NEW id \in Ids, DeleteCluster(id) PROVE LoopOK' /\ RestOK'
  <2>1. LoopOK'
    BY <1>0, <1>2, LoopUnchanged DEF DeleteCluster
  <2>2. IsTable(rows', Ids, StoredCluster)
    BY <1>0, <1>2, SetDesiredType DEF RestOK, DeleteCluster, DesiredState
  <2>3. load' \in Load
    BY <1>0, <1>2, SpendType DEF DeleteCluster, RestOK, Kinds
  <2>4. QED BY <1>0, <1>2, <2>1, <2>2, <2>3
            DEF DeleteCluster, RestOK, DatabaseOK, provider
<1>3. ASSUME NEW c \in Clients, NEW id \in Ids, PurgeCheck(c, id)
      PROVE  LoopOK' /\ RestOK'
  <2>1. LoopOK'
    BY <1>0, <1>3, LoopUnchanged DEF PurgeCheck
  <2>2. pending' \in [Clients -> Request \cup {NoRequest}]
    BY <1>0, <1>3 DEF RestOK, PurgeCheck, Request
  <2>3. load' \in Load
    BY <1>0, <1>3, SpendType DEF PurgeCheck, RestOK, Kinds
  <2>4. QED BY <1>0, <1>3, <2>1, <2>2, <2>3
            DEF PurgeCheck, RestOK, DatabaseOK, store, provider
<1>4. ASSUME NEW c \in Clients, NEW id \in Ids, NEW cmd \in {"suspend", "resume"},
             LifecycleCheck(c, id, cmd)
      PROVE  LoopOK' /\ RestOK'
  <2>1. LoopOK'
    BY <1>0, <1>4, LoopUnchanged DEF LifecycleCheck
  <2>2. pending' \in [Clients -> Request \cup {NoRequest}]
    BY <1>0, <1>4 DEF RestOK, LifecycleCheck, Request
  <2>3. load' \in Load
    BY <1>0, <1>4, SpendType DEF LifecycleCheck, RestOK, Kinds
  <2>4. QED BY <1>0, <1>4, <2>1, <2>2, <2>3
            DEF LifecycleCheck, RestOK, DatabaseOK, store, provider
<1>5. ASSUME NEW c \in Clients, PurgeCluster(c) PROVE LoopOK' /\ RestOK'
  <2>1. LoopOK'
    BY <1>0, <1>5, LoopUnchanged DEF PurgeCluster
  <2>2. IsTable(rows', Ids, StoredCluster)
    BY <1>0, <1>5, DropType DEF RestOK, PurgeCluster
  <2>3. pending' \in [Clients -> Request \cup {NoRequest}]
    BY <1>0, <1>5 DEF RestOK, PurgeCluster
  <2>4. QED BY <1>0, <1>5, <2>1, <2>2, <2>3
            DEF PurgeCluster, RestOK, DatabaseOK, provider
<1>6. ASSUME NEW c \in Clients, LifecycleCommand(c) PROVE LoopOK' /\ RestOK'
  <2>1. LoopOK'
    BY <1>0, <1>6, LoopUnchanged DEF LifecycleCommand
  <2>2. CommandDesired(pending[c].op) \in DesiredState
    BY DEF CommandDesired, DesiredState
  <2>3. IsTable(rows', Ids, StoredCluster)
    BY <1>0, <1>6, <2>2, SetDesiredType DEF RestOK, LifecycleCommand
  <2>4. pending' \in [Clients -> Request \cup {NoRequest}]
    BY <1>0, <1>6 DEF RestOK, LifecycleCommand
  <2>5. QED BY <1>0, <1>6, <2>1, <2>3, <2>4
            DEF LifecycleCommand, RestOK, DatabaseOK, provider
<1>7. QED BY <1>1, <1>2, <1>3, <1>4, <1>5, <1>6 DEF Api, Handlers

\* Every step of the provider, the operator and the clock keeps the types.
LEMMA EnvironmentType ==
    ASSUME TypeOK, Environment \/ \E id \in Ids : Settle(id)
    PROVE  TypeOK'
<1>0. LoopOK /\ RestOK
  BY TypeParts
<1> SUFFICES LoopOK' /\ RestOK'
  BY TypePartsNext
<1>1. ASSUME NEW id \in Ids, KueueSuspend(id) PROVE LoopOK' /\ RestOK'
  <2>1. LoopOK'
    BY <1>0, <1>1, LoopUnchanged DEF KueueSuspend
  <2>2. IsTable(backing', Ids, Backing)
    BY <1>0, <1>1, BackingReplace DEF RestOK, KueueSuspend
  <2>3. load' \in Load
    BY <1>0, <1>1, SpendType DEF KueueSuspend, RestOK, Kinds
  <2>4. QED BY <1>0, <1>1, <2>1, <2>2, <2>3
            DEF KueueSuspend, RestOK, DatabaseOK, store
<1>2. ASSUME NEW id \in Ids, Degrade(id) PROVE LoopOK' /\ RestOK'
  <2>1. LoopOK'
    BY <1>0, <1>2, LoopUnchanged DEF Degrade
  <2>2. IsTable(backing', Ids, Backing)
    BY <1>0, <1>2, BackingReplace DEF RestOK, Degrade, BackingState
  <2>3. load' \in Load
    BY <1>0, <1>2, SpendType DEF Degrade, RestOK, Kinds
  <2>4. QED BY <1>0, <1>2, <2>1, <2>2, <2>3 DEF Degrade, RestOK, DatabaseOK, store
<1>3. ASSUME NEW id \in Ids, Tamper(id) PROVE LoopOK' /\ RestOK'
  <2>1. LoopOK'
    BY <1>0, <1>3, LoopUnchanged DEF Tamper
  <2>2. IsTable(Drop(backing, id), Ids, Backing)
    BY <1>0, DropType DEF RestOK
  <2>3. IsTable(backing', Ids, Backing)
    BY <1>0, <1>3, <2>2, BackingReplace DEF RestOK, Tamper
  <2>4. load' \in Load
    BY <1>0, <1>3, SpendType DEF Tamper, RestOK, Kinds
  <2>5. QED BY <1>0, <1>3, <2>1, <2>3, <2>4 DEF Tamper, RestOK, DatabaseOK, store
<1>4. CASE ChangeAllocation
  <2>1. LoopOK'
    BY <1>0, <1>4, LoopUnchanged DEF ChangeAllocation
  <2>2. load' \in Load
    BY <1>0, <1>4, SpendType DEF ChangeAllocation, RestOK, Kinds
  <2>3. QED BY <1>0, <1>4, <2>1, <2>2
            DEF ChangeAllocation, RestOK, DatabaseOK, store, provider
<1>5. CASE Crash
  <2>1. LoopOK'
    BY <1>5, ResetType DEF Crash
  <2>2. load' \in Load
    BY <1>0, <1>5, SpendType DEF Crash, RestOK, Kinds
  <2>3. QED BY <1>0, <1>5, <2>1, <2>2
            DEF Crash, RestOK, DatabaseOK, store, provider
<1>6. CASE TakeBackup
  <2>1. LoopOK'
    BY <1>0, <1>6, LoopUnchanged DEF TakeBackup
  <2>2. load' \in Load
    BY <1>0, <1>6, SpendType DEF TakeBackup, RestOK, Kinds
  <2>3. DatabaseOK(backup')
    BY <1>0, <1>6 DEF TakeBackup, RestOK, DatabaseOK, Database
  <2>4. QED BY <1>0, <1>6, <2>1, <2>2, <2>3
            DEF TakeBackup, RestOK, DatabaseOK, store, provider
<1>7. CASE Restore
  <2>1. LoopOK'
    BY <1>7, ResetType DEF Restore
  <2>2. load' \in Load
    BY <1>0, <1>7, SpendType DEF Restore, RestOK, Kinds
  <2>3. QED BY <1>0, <1>7, <2>1, <2>2 DEF Restore, RestOK, DatabaseOK, provider
<1>8. CASE ClearQuarantine
  <2>1. LoopOK'
    BY <1>0, <1>8, LoopUnchanged DEF ClearQuarantine
  <2>2. load' \in Load
    BY <1>0, <1>8, SpendType DEF ClearQuarantine, RestOK, Kinds
  <2>3. QED BY <1>0, <1>8, <2>1, <2>2
            DEF ClearQuarantine, RestOK, DatabaseOK, provider
<1>9. CASE ClockTick
  <2>1. LoopOK'
    BY <1>0, <1>9, LoopUnchanged DEF ClockTick
  <2>2. load' \in Load
    BY <1>0, <1>9, SpendType DEF ClockTick, RestOK, Kinds
  <2>3. now' \in Nat
    BY <1>0, <1>9 DEF ClockTick, RestOK
  <2>4. UNCHANGED << rows, intents, quarantined, backup, backing, netpol, queued,
                     pending >>
    BY <1>9 DEF ClockTick, store, provider
  <2>5. QED BY <1>0, <2>1, <2>2, <2>3, <2>4 DEF RestOK
<1>10. ASSUME NEW id \in Ids, Settle(id) PROVE LoopOK' /\ RestOK'
  <2>1. LoopOK'
    BY <1>0, <1>10, LoopUnchanged DEF Settle
  <2>2. PICK s \in BackingState : backing' = [backing EXCEPT ![id].state = s]
    BY <1>10 DEF Settle, BackingState
  <2>3. IsTable(backing', Ids, Backing)
    BY <1>0, <1>10, <2>2, BackingReplace DEF RestOK, Settle
  <2>4. QED BY <1>0, <1>10, <2>1, <2>3 DEF Settle, RestOK, DatabaseOK, store
<1>11. QED BY <1>1, <1>2, <1>3, <1>4, <1>5, <1>6, <1>7, <1>8, <1>9, <1>10
           DEF Environment

\* Every step keeps the types.
LEMMA TypeStep == TypeOK /\ [Next]_vars => TypeOK'
<1>1. ASSUME TypeOK, UNCHANGED vars PROVE TypeOK'
  BY <1>1 DEF TypeOK, DatabaseOK, Database, vars, store, provider, loop, turn
<1>2. QED BY <1>1, ReconcilerType, ApiType, EnvironmentType DEF Next

\* The tables, the provider's objects and the state of the task keep their
\* types, whatever the interleaving of the loop, the handlers and the faults.
THEOREM TypeCorrect == Spec => []TypeOK
<1>1. Init => TypeOK
  <2> SUFFICES ASSUME Init PROVE TypeOK
    OBVIOUS
  <2>1. /\ IsTable(rows, Ids, StoredCluster)
        /\ IsTable(intents, IntentKeys, IntentRecord)
        /\ IsTable(backing, Ids, Backing)
        /\ IsTable(snap, Ids, StoredCluster)
    BY EmptyType DEF Init
  <2>2. obs \in Observation
    BY DEF Init, Observation, Unobserved, Absent
  <2>3. pc \in Locations /\ pc \notin PerCluster
    BY DEF Init, Locations, PerCluster
  <2>4. DatabaseOK(Database)
    BY <2>1 DEF Init, DatabaseOK, Database
  <2>5. load \in Load
    BY ConstantsAssumption DEF Init, Load
  <2>6. QED BY <2>1, <2>2, <2>3, <2>4, <2>5 DEF Init, TypeOK, Action
<1>2. QED BY <1>1, TypeStep, PTL DEF Spec
=============================================================================
