--------------------------- MODULE SqlStoreProofs ---------------------------
(***************************************************************************)
(* What holds of the SQL stores between any two statements, and that they  *)
(* implement the atomic store, for any calls, callers, lock hash, old rows *)
(* and workloads.                                                          *)
(***************************************************************************)
EXTENDS SqlRefinement, SequenceTheorems, TLAPS

USE DEF admin, db

-----------------------------------------------------------------------------
(* A call in its transaction, and the trail.                               *)

\* A call keeps where it is, what was asked and what it read.
LEMMA InCallFields ==
    ASSUME NEW p, NEW k, NEW seen
    PROVE  /\ InCall(p, k, seen).pc = p /\ InCall(p, k, seen).req = k
           /\ InCall(p, k, seen).seen = seen
BY DEF InCall

\* What a call in its transaction may rely on: the row it read is still the
\* row it will write, but for a removal on Postgres.
ClusterSeen(c) ==
    LET id == call[c].req.id
        seen == call[c].seen
    IN  /\ seen.found \in BOOLEAN
        /\ ~seen.found => id \notin DOMAIN clusters
        /\ seen.found /\ id \in DOMAIN clusters =>
            /\ seen.spec = clusters[id].spec
            /\ seen.generation = clusters[id].generation
        /\ seen.found /\ id \notin DOMAIN clusters =>
            /\ backend = "postgres"
            /\ id \in DOMAIN retired
            /\ retired[id] = seen.generation

PoolSeen(c) ==
    LET n == call[c].req.name
        seen == call[c].seen
    IN  /\ seen.found \in BOOLEAN
        /\ ~seen.found => n \notin DOMAIN pools
        /\ seen.found /\ n \in DOMAIN pools =>
            /\ seen.spec = pools[n].spec
            /\ seen.generation = pools[n].generation
        /\ seen.found /\ n \notin DOMAIN pools =>
            /\ backend = "postgres"
            /\ n \in DOMAIN dropped
            /\ dropped[n] = seen.generation

SeenHolds(c) ==
    /\ call[c].req.op = "upsert" => ClusterSeen(c)
    /\ call[c].req.op = "upsert_pool" => PoolSeen(c)
    /\ call[c].req.op = "begin" => call[c].req.key \notin DOMAIN intents

\* A row has the columns that upsert_desired and upsert_pool read.
RowsOK ==
    /\ \A id \in DOMAIN clusters :
        {"spec", "generation"} \subseteq DOMAIN clusters[id]
    /\ \A n \in DOMAIN pools : {"spec", "generation"} \subseteq DOMAIN pools[n]

\* The locks a call took are its own, and what it read under them holds until
\* it writes.
CallOK(c) ==
    /\ call[c].pc # "idle" => call[c].req \in Calls
    /\ call[c].pc \in {"locked", "read"} =>
        \A l \in LocksOf(call[c].req) : l \in DOMAIN locks /\ locks[l] = c
    /\ call[c].pc = "read" => SeenHolds(c)

\* The inductive invariant.
TxInv ==
    /\ backend \in {"sqlite", "postgres"}
    /\ DOMAIN call = Callers
    /\ RowsOK
    /\ \A c \in Callers : CallOK(c)

\* A fresh database satisfies it.
LEMMA TxInit == SqlInit => TxInv
BY DEF SqlInit, TxInv, CallOK, NoCall, EmptyTable, RowsOK

\* What a call read of the clusters, or of the pools, holds while they and the
\* call stay as they are.
LEMMA ClusterSeenFrame ==
    ASSUME NEW d, ClusterSeen(d), call'[d] = call[d],
           UNCHANGED << backend, clusters, retired >>
    PROVE  ClusterSeen(d)'
BY DEF ClusterSeen

\* The same of the pools.
LEMMA PoolSeenFrame ==
    ASSUME NEW d, PoolSeen(d), call'[d] = call[d],
           UNCHANGED << backend, pools, dropped >>
    PROVE  PoolSeen(d)'
BY DEF PoolSeen

\* And of everything a call may have read.
LEMMA SeenFrame ==
    ASSUME NEW d, SeenHolds(d), call'[d] = call[d],
           UNCHANGED << backend, clusters, retired, pools, dropped >>,
           DOMAIN intents' \subseteq DOMAIN intents
    PROVE  SeenHolds(d)'
BY ClusterSeenFrame, PoolSeenFrame DEF SeenHolds

\* Two calls inside their transactions share no lock.
LEMMA Alone ==
    ASSUME TxInv, NEW c \in Callers, NEW d \in Callers, c # d,
           call[c].pc \in {"locked", "read"}, call[d].pc \in {"locked", "read"}
    PROVE  LocksOf(call[c].req) \cap LocksOf(call[d].req) = {}
BY DEF TxInv, CallOK

\* A call that ends leaves the invariant if its write leaves what the other
\* transactions read.
LEMMA FinishKeeps ==
    ASSUME TxInv, NEW c \in Callers, NEW kind, NEW n, Finish(c, kind, n),
           backend' = backend, RowsOK',
           \A d \in Callers \ {c} :
                call[d].pc = "read" /\ SeenHolds(d) /\ call'[d] = call[d]
                    => SeenHolds(d)'
    PROVE  TxInv'
<1>1. /\ DOMAIN call' = Callers
      /\ call'[c] = NoCall
      /\ \A d \in Callers \ {c} : call'[d] = call[d]
  BY DEF TxInv, Finish
<1>2. \A l \in DOMAIN locks : locks[l] # c => l \in DOMAIN locks' /\ locks'[l] = locks[l]
  BY DEF Finish, Release, Held
<1>3. ASSUME NEW d \in Callers
      PROVE  CallOK(d)'
  <2>1. CASE d = c
    BY <1>1, <2>1 DEF NoCall, CallOK
  <2>2. CASE d # c
    BY <1>1, <1>2, <2>2 DEF TxInv, CallOK, LocksOf
  <2>3. QED BY <2>1, <2>2
<1>4. QED BY <1>1, <1>3 DEF TxInv

\* Two transactions on the same cluster, pool or intent exclude one another.
LEMMA Exclusive ==
    ASSUME TxInv, NEW c \in Callers, NEW d \in Callers, c # d,
           call[c].pc \in {"locked", "read"}, call[d].pc \in {"locked", "read"},
           call[c].req.op = call[d].req.op
    PROVE  /\ call[c].req.op = "upsert" => call[c].req.id # call[d].req.id
           /\ call[c].req.op = "upsert_pool" =>
                call[c].req.name # call[d].req.name
           /\ call[c].req.op = "begin" => call[c].req.key # call[d].req.key
<1>1. backend \in {"sqlite", "postgres"}
  BY DEF TxInv
<1>2. LocksOf(call[c].req) \cap LocksOf(call[d].req) = {}
  BY Alone
<1> USE DEF LocksOf, Transacted, SqliteLock, PostgresLock
<1>3. call[c].req.op = "upsert" => call[c].req.id # call[d].req.id
  BY <1>1, <1>2
<1>4. call[c].req.op = "upsert_pool" => call[c].req.name # call[d].req.name
  BY <1>1, <1>2
<1>5. call[c].req.op = "begin" => call[c].req.key # call[d].req.key
  BY <1>1, <1>2
<1>6. QED BY <1>3, <1>4, <1>5

\* A statement that keeps every row's spec and generation.
KeepsRows ==
    /\ DOMAIN clusters' = DOMAIN clusters
    /\ \A id \in DOMAIN clusters :
        /\ DOMAIN clusters'[id] = DOMAIN clusters[id]
        /\ clusters'[id].spec = clusters[id].spec
        /\ clusters'[id].generation = clusters[id].generation

\* The updates of one row: set_desired ...
LEMMA SetDesiredKeeps ==
    ASSUME RowsOK, NEW id, NEW desired, NEW t,
           clusters' = SetDesired(clusters, id, desired, t)
    PROVE  KeepsRows
BY DEF RowsOK, KeepsRows, SetDesired

\* ... record_observation ...
LEMMA ObservationKeeps ==
    ASSUME RowsOK, NEW id, NEW state, NEW g,
           clusters' = RecordObservation(clusters, id, state, g)
    PROVE  KeepsRows
BY DEF RowsOK, KeepsRows, RecordObservation

\* ... set_condition ...
LEMMA ConditionKeeps ==
    ASSUME RowsOK, NEW id, NEW condition,
           clusters' = SetCondition(clusters, id, condition)
    PROVE  KeepsRows
BY DEF RowsOK, KeepsRows, SetCondition

\* ... and record_attempt keep them.
LEMMA AttemptKeeps ==
    ASSUME RowsOK, NEW id, NEW failures, NEW next,
           clusters' = RecordAttempt(clusters, id, failures, next)
    PROVE  KeepsRows
BY DEF RowsOK, KeepsRows, RecordAttempt

\* So a single-statement update of a row disturbs no transaction.
LEMMA UpdateKeeps ==
    ASSUME TxInv, NEW c \in Callers, NEW kind, NEW n, Finish(c, kind, n),
           KeepsRows, UNCHANGED << backend, intents, retired, pools, dropped >>
    PROVE  TxInv'
<1>1. RowsOK'
  BY DEF TxInv, RowsOK, KeepsRows
<1>2. ASSUME NEW d \in Callers \ {c}, SeenHolds(d), call'[d] = call[d]
      PROVE  SeenHolds(d)'
  <2>1. ClusterSeen(d) => ClusterSeen(d)'
    BY <1>2 DEF ClusterSeen, KeepsRows
  <2>2. QED BY <1>2, <2>1, PoolSeenFrame DEF SeenHolds
<1>3. QED BY <1>1, <1>2, FinishKeeps

\* upsert_desired writes the row it read.
LEMMA WriteClusterKeeps ==
    ASSUME TxInv, NEW c \in Callers, WriteCluster(c)
    PROVE  TxInv'
<1> DEFINE k == call[c].req
           g == NextGeneration(call[c].seen, k.spec)
<1>1. Finish(c, "generation", g)
      /\ UNCHANGED << backend, intents, retired, pools, dropped >>
  BY DEF WriteCluster
<1>2. /\ DOMAIN clusters' = DOMAIN clusters \cup {k.id}
      /\ \A id \in DOMAIN clusters : id # k.id => clusters'[id] = clusters[id]
      /\ {"spec", "generation"} \subseteq DOMAIN clusters'[k.id]
  BY DEF WriteCluster, Put, TxInv, RowsOK, NewCluster
<1>3. RowsOK'
  BY <1>1, <1>2 DEF TxInv, RowsOK
<1>4. ASSUME NEW d \in Callers \ {c}, call[d].pc = "read", SeenHolds(d),
             call'[d] = call[d]
      PROVE  SeenHolds(d)'
  <2>1. call[d].req.op = "upsert" => call[d].req.id # k.id
    BY <1>4, Exclusive DEF WriteCluster, At, TxInv, CallOK
  <2>2. call[d].req.id # k.id /\ ClusterSeen(d) => ClusterSeen(d)'
    BY <1>1, <1>2, <1>4 DEF ClusterSeen
  <2>3. QED BY <1>1, <1>4, <2>1, <2>2, PoolSeenFrame DEF SeenHolds
<1>5. QED BY <1>1, <1>3, <1>4, FinishKeeps

\* begin_intent opens a key that nobody else is opening.
LEMMA InsertIntentKeeps ==
    ASSUME TxInv, NEW c \in Callers, InsertIntent(c)
    PROVE  TxInv'
<1> DEFINE k == call[c].req
<1>1. Finish(c, "fresh", 0)
      /\ UNCHANGED << backend, clusters, retired, pools, dropped >>
  BY DEF InsertIntent
<1>2. DOMAIN intents' = DOMAIN intents \cup {k.key}
  BY DEF InsertIntent, Put
<1>3. RowsOK'
  BY <1>1 DEF TxInv, RowsOK
<1>4. ASSUME NEW d \in Callers \ {c}, call[d].pc = "read", SeenHolds(d),
             call'[d] = call[d]
      PROVE  SeenHolds(d)'
  <2>1. call[d].req.op = "begin" => call[d].req.key # k.key
    BY <1>4, Exclusive DEF InsertIntent, At
  <2>2. QED BY <1>1, <1>2, <1>4, <2>1, ClusterSeenFrame, PoolSeenFrame
        DEF SeenHolds
<1>5. QED BY <1>1, <1>3, <1>4, FinishKeeps

\* remove_cluster: on SQLite no transaction is open, on Postgres a reader of
\* the row is left with the generation that was retired.
LEMMA RemoveKeeps ==
    ASSUME TxInv, NEW c \in Callers, SqlRemove(c)
    PROVE  TxInv'
<1> DEFINE id == call[c].req.id
<1>1. PICK n : Finish(c, "ok", n)
  BY DEF SqlRemove
<1>2. UNCHANGED << backend, intents, pools, dropped >>
  BY DEF SqlRemove, ClustersOnly
<1>3. /\ DOMAIN clusters' = DOMAIN clusters \ {id}
      /\ \A x \in DOMAIN clusters' : clusters'[x] = clusters[x]
  BY DEF SqlRemove, Drop
<1>4. \A x : x \in DOMAIN retired /\ x # id =>
                x \in DOMAIN retired' /\ retired'[x] = retired[x]
  BY DEF SqlRemove, Put
<1>5. id \in DOMAIN clusters =>
        id \in DOMAIN retired' /\ retired'[id] = clusters[id].generation
  BY DEF SqlRemove, Put
<1>6. id \notin DOMAIN clusters => retired' = retired
  BY DEF SqlRemove
<1>7. RowsOK'
  BY <1>2, <1>3 DEF TxInv, RowsOK
<1>8. ASSUME NEW d \in Callers \ {c}, call[d].pc = "read", SeenHolds(d),
             call'[d] = call[d]
      PROVE  SeenHolds(d)'
  <2>1. CASE call[d].req.op = "upsert"
    <3>1. backend = "postgres"
      <4>1. SUFFICES ASSUME backend = "sqlite" PROVE FALSE
        BY DEF TxInv
      <4>2. LocksOf(call[d].req) = {"db"}
        BY <2>1, <4>1 DEF LocksOf, Transacted, SqliteLock
      <4>3. "db" \in DOMAIN locks /\ locks["db"] = d
        BY <1>8, <4>2 DEF TxInv, CallOK
      <4>4. QED BY <4>1, <4>3 DEF SqlRemove, Runs, MayWrite
    <3>2. ClusterSeen(d)
      BY <1>8, <2>1 DEF SeenHolds
    <3>3. ClusterSeen(d)'
      BY <1>2, <1>3, <1>4, <1>5, <1>6, <1>8, <3>1, <3>2 DEF ClusterSeen
    <3>4. QED BY <1>8, <2>1, <3>3 DEF SeenHolds
  <2>2. CASE call[d].req.op # "upsert"
    BY <1>2, <1>8, <2>2, PoolSeenFrame DEF SeenHolds
  <2>3. QED BY <2>1, <2>2
<1>9. QED BY <1>1, <1>2, <1>7, <1>8, FinishKeeps

\* A call that ends without touching a cluster or adding an intent.
LEMMA QuietKeeps ==
    ASSUME TxInv, NEW c \in Callers, NEW kind, NEW n, Finish(c, kind, n),
           UNCHANGED << backend, clusters, retired, pools, dropped >>,
           DOMAIN intents' \subseteq DOMAIN intents
    PROVE  TxInv'
<1>1. RowsOK'
  BY DEF TxInv, RowsOK
<1>2. ASSUME NEW d \in Callers \ {c}, SeenHolds(d), call'[d] = call[d]
      PROVE  SeenHolds(d)'
  BY <1>2, SeenFrame
<1>3. QED BY <1>1, <1>2, FinishKeeps

\* A call that moves on, the tables and the other calls staying as they are.
LEMMA MoveKeeps ==
    ASSUME TxInv, NEW c \in Callers, NEW now2,
           call' = [call EXCEPT ![c] = now2],
           UNCHANGED << backend, clusters, intents, retired, pools, dropped >>,
           CallOK(c)',
           \A l \in DOMAIN locks : l \in DOMAIN locks' /\ locks'[l] = locks[l]
    PROVE  TxInv'
<1>1. DOMAIN call' = Callers /\ \A d \in Callers \ {c} : call'[d] = call[d]
  BY DEF TxInv
<1>2. ASSUME NEW d \in Callers \ {c} PROVE CallOK(d)'
  <2>1. call[d].pc = "read" => SeenHolds(d)'
    BY <1>1, SeenFrame DEF TxInv, CallOK
  <2>2. QED BY <1>1, <2>1 DEF TxInv, CallOK, LocksOf
<1>3. QED BY <1>1, <1>2 DEF TxInv, RowsOK

\* A call that starts holds nothing yet.
LEMMA StartKeeps ==
    ASSUME TxInv, NEW c \in Callers, Start(c)
    PROVE  TxInv'
<1>1. PICK k \in Calls : call' = [call EXCEPT ![c] =
            InCall(IF Transacted(k) THEN "wait" ELSE "locked", k, Missing)]
  BY DEF Start
<1>2. call'[c] = InCall(IF Transacted(k) THEN "wait" ELSE "locked", k, Missing)
  BY <1>1 DEF TxInv
<1>3. CallOK(c)'
  BY <1>2 DEF CallOK, InCall, LocksOf
<1>4. QED BY <1>1, <1>3, MoveKeeps DEF Start, tables

\* A call takes only locks that are free.
LEMMA AcquireKeeps ==
    ASSUME TxInv, NEW c \in Callers, Acquire(c)
    PROVE  TxInv'
<1>1. call'[c] = InCall("locked", call[c].req, Missing)
  BY DEF TxInv, Acquire
<1>2. call[c].req \in Calls
  BY DEF TxInv, CallOK, Acquire
<1>3. \A l \in LocksOf(call[c].req) : l \in DOMAIN locks' /\ locks'[l] = c
  BY DEF Acquire
<1>4. CallOK(c)'
  BY <1>1, <1>2, <1>3 DEF CallOK, InCall, LocksOf, Acquire
<1>5. QED BY <1>4, MoveKeeps DEF Acquire, tables

\* The reads: what upsert_desired read is what the table holds ...
LEMMA ReadClusterKeeps ==
    ASSUME TxInv, NEW c \in Callers, ReadCluster(c)
    PROVE  TxInv'
<1> DEFINE k == call[c].req
           row == IF k.id \in DOMAIN clusters
                  THEN [found |-> TRUE, spec |-> clusters[k.id].spec,
                        generation |-> clusters[k.id].generation]
                  ELSE Missing
<1>1. call'[c] = InCall("read", k, row)
  BY DEF TxInv, ReadCluster
<1>2. k \in Calls /\ \A l \in LocksOf(k) : l \in DOMAIN locks /\ locks[l] = c
  BY DEF TxInv, CallOK, ReadCluster, At
<1>3. SeenHolds(c)'
  <2> HIDE DEF row
  <2>1. call'[c].req = k /\ call'[c].seen = row /\ k.op = "upsert"
    BY <1>1 DEF InCall, ReadCluster, At
  <2>2. clusters' = clusters
    BY DEF ReadCluster, tables
  <2>3. CASE k.id \in DOMAIN clusters
    <3>1. /\ row.found = TRUE
          /\ row.spec = clusters[k.id].spec
          /\ row.generation = clusters[k.id].generation
      BY <2>3 DEF row
    <3>2. QED BY <2>1, <2>2, <2>3, <3>1 DEF SeenHolds, ClusterSeen
  <2>4. CASE k.id \notin DOMAIN clusters
    <3>1. row.found = FALSE
      BY <2>4 DEF row, Missing
    <3>2. QED BY <2>1, <2>2, <2>4, <3>1 DEF SeenHolds, ClusterSeen
  <2>5. QED BY <2>3, <2>4
<1>4. CallOK(c)'
  BY <1>1, <1>2, <1>3 DEF CallOK, InCall, LocksOf, ReadCluster
<1>5. QED BY <1>4, MoveKeeps DEF ReadCluster, tables

\* ... so with begin_intent, which ends here where the intent exists ...
LEMMA ReadIntentKeeps ==
    ASSUME TxInv, NEW c \in Callers, ReadIntent(c)
    PROVE  TxInv'
<1> DEFINE k == call[c].req
<1>1. CASE k.key \in DOMAIN intents
  <2>1. PICK kind : Finish(c, kind, 0)
    BY <1>1 DEF ReadIntent
  <2>2. QED BY <2>1, QuietKeeps DEF ReadIntent, tables
<1>2. CASE k.key \notin DOMAIN intents
  <2>1. call'[c] = InCall("read", k, Missing)
    BY <1>2 DEF TxInv, ReadIntent
  <2>2. k \in Calls /\ \A l \in LocksOf(k) : l \in DOMAIN locks /\ locks[l] = c
    BY DEF TxInv, CallOK, ReadIntent, At
  <2>3. SeenHolds(c)'
    BY <1>2, <2>1 DEF SeenHolds, InCall, ReadIntent, At, tables
  <2>4. CallOK(c)'
    BY <1>2, <2>1, <2>2, <2>3 DEF CallOK, InCall, LocksOf, ReadIntent
  <2>5. QED BY <1>2, <2>4, MoveKeeps DEF ReadIntent, tables
<1>3. QED BY <1>1, <1>2

\* ... and record_audit reads no table of the invariant.
LEMMA ReadTailKeeps ==
    ASSUME TxInv, NEW c \in Callers, ReadTail(c) \/ ReadLostTail(c)
    PROVE  TxInv'
<1> DEFINE k == call[c].req
<1>0. DOMAIN call = Callers
  BY DEF TxInv
<1>1. PICK h : call' = [call EXCEPT ![c] = InCall("read", k, h)]
  BY DEF ReadTail, ReadLostTail
<1>2. call'[c] = InCall("read", k, h)
  BY <1>0, <1>1
<1>3. k \in Calls /\ \A l \in LocksOf(k) : l \in DOMAIN locks /\ locks[l] = c
  BY DEF TxInv, CallOK, ReadTail, ReadLostTail, At
<1>4. SeenHolds(c)'
  BY <1>2 DEF SeenHolds, InCall, ReadTail, ReadLostTail, At
<1>5. CallOK(c)'
  BY <1>2, <1>3, <1>4 DEF CallOK, InCall, LocksOf, ReadTail, ReadLostTail
<1>6. QED BY <1>1, <1>5, MoveKeeps DEF ReadTail, ReadLostTail, tables

\* upsert_pool: what it read is what the table holds ...
LEMMA ReadPoolKeeps ==
    ASSUME TxInv, NEW c \in Callers, ReadPool(c)
    PROVE  TxInv'
<1> DEFINE k == call[c].req
           row == IF k.name \in DOMAIN pools
                  THEN [found |-> TRUE, spec |-> pools[k.name].spec,
                        generation |-> pools[k.name].generation]
                  ELSE Missing
<1>1. call'[c] = InCall("read", k, row)
  BY DEF TxInv, ReadPool
<1>2. k \in Calls /\ \A l \in LocksOf(k) : l \in DOMAIN locks /\ locks[l] = c
  BY DEF TxInv, CallOK, ReadPool, At
<1>3. SeenHolds(c)'
  <2> HIDE DEF row
  <2>1. call'[c].req = k /\ call'[c].seen = row /\ k.op = "upsert_pool"
    BY <1>1 DEF InCall, ReadPool, At
  <2>2. pools' = pools
    BY DEF ReadPool, tables
  <2>3. CASE k.name \in DOMAIN pools
    <3>1. /\ row.found = TRUE
          /\ row.spec = pools[k.name].spec
          /\ row.generation = pools[k.name].generation
      BY <2>3 DEF row
    <3>2. QED BY <2>1, <2>2, <2>3, <3>1 DEF SeenHolds, PoolSeen
  <2>4. CASE k.name \notin DOMAIN pools
    <3>1. row.found = FALSE
      BY <2>4 DEF row, Missing
    <3>2. QED BY <2>1, <2>2, <2>4, <3>1 DEF SeenHolds, PoolSeen
  <2>5. QED BY <2>3, <2>4
<1>4. CallOK(c)'
  BY <1>1, <1>2, <1>3 DEF CallOK, InCall, LocksOf, ReadPool
<1>5. QED BY <1>4, MoveKeeps DEF ReadPool, tables

\* ... it writes the row it read ...
LEMMA WritePoolKeeps ==
    ASSUME TxInv, NEW c \in Callers, WritePool(c)
    PROVE  TxInv'
<1> DEFINE k == call[c].req
           g == NextPoolGeneration(call[c].seen, k.spec)
<1>1. Finish(c, "generation", g)
      /\ UNCHANGED << backend, clusters, intents, retired, dropped >>
  BY DEF WritePool, PoolsOnly
<1>2. /\ DOMAIN pools' = DOMAIN pools \cup {k.name}
      /\ \A n \in DOMAIN pools : n # k.name => pools'[n] = pools[n]
      /\ {"spec", "generation"} \subseteq DOMAIN pools'[k.name]
  BY DEF WritePool, InsertOrUpdate, UpdateWhere, Assigned, PoolRow, Put, TxInv,
         RowsOK
<1>3. RowsOK'
  BY <1>1, <1>2 DEF TxInv, RowsOK
<1>4. ASSUME NEW d \in Callers \ {c}, call[d].pc = "read", SeenHolds(d),
             call'[d] = call[d]
      PROVE  SeenHolds(d)'
  <2>1. call[d].req.op = "upsert_pool" => call[d].req.name # k.name
    BY <1>4, Exclusive DEF WritePool, At
  <2>2. call[d].req.name # k.name /\ PoolSeen(d) => PoolSeen(d)'
    BY <1>1, <1>2, <1>4 DEF PoolSeen
  <2>3. QED BY <1>1, <1>4, <2>1, <2>2, ClusterSeenFrame DEF SeenHolds
<1>5. QED BY <1>1, <1>3, <1>4, FinishKeeps

\* ... record_pool_observation touches no column it reads ...
LEMMA ObservePoolKeeps ==
    ASSUME TxInv, NEW c \in Callers, SqlObservePool(c)
    PROVE  TxInv'
<1>1. Finish(c, "ok", 0)
      /\ UNCHANGED << backend, clusters, intents, retired, dropped >>
  BY DEF SqlObservePool, PoolsOnly
<1>2. /\ DOMAIN pools' = DOMAIN pools
      /\ \A n \in DOMAIN pools :
            /\ DOMAIN pools'[n] = DOMAIN pools[n]
            /\ pools'[n].spec = pools[n].spec
            /\ pools'[n].generation = pools[n].generation
  BY DEF SqlObservePool, UpdateWhere, Assigned, TxInv, RowsOK
<1>3. RowsOK'
  BY <1>1, <1>2 DEF TxInv, RowsOK
<1>4. ASSUME NEW d \in Callers \ {c}, SeenHolds(d), call'[d] = call[d]
      PROVE  SeenHolds(d)'
  <2>1. PoolSeen(d) => PoolSeen(d)'
    BY <1>1, <1>2, <1>4 DEF PoolSeen
  <2>2. QED BY <1>1, <1>4, <2>1, ClusterSeenFrame DEF SeenHolds
<1>5. QED BY <1>1, <1>3, <1>4, FinishKeeps

\* ... and delete_pool leaves a reader on Postgres with the generation that
\* was dropped.
LEMMA DeletePoolKeeps ==
    ASSUME TxInv, NEW c \in Callers, SqlDeletePool(c),
           call[c].req.name \in DOMAIN pools
    PROVE  TxInv'
<1> DEFINE n == call[c].req.name
<1>1. Finish(c, "ok", 0) /\ UNCHANGED << backend, clusters, intents, retired >>
  BY DEF SqlDeletePool, PoolsOnly
<1>2. /\ DOMAIN pools' = DOMAIN pools \ {n}
      /\ \A x \in DOMAIN pools' : pools'[x] = pools[x]
  BY DEF SqlDeletePool, Drop
<1>3. /\ \A x : x \in DOMAIN dropped /\ x # n =>
                x \in DOMAIN dropped' /\ dropped'[x] = dropped[x]
      /\ n \in DOMAIN dropped' /\ dropped'[n] = pools[n].generation
  BY DEF SqlDeletePool, Put
<1>4. RowsOK'
  BY <1>1, <1>2 DEF TxInv, RowsOK
<1>5. ASSUME NEW d \in Callers \ {c}, call[d].pc = "read", SeenHolds(d),
             call'[d] = call[d]
      PROVE  SeenHolds(d)'
  <2>1. CASE call[d].req.op = "upsert_pool"
    <3>1. backend = "postgres"
      <4>1. SUFFICES ASSUME backend = "sqlite" PROVE FALSE
        BY DEF TxInv
      <4>2. LocksOf(call[d].req) = {"db"}
        BY <2>1, <4>1 DEF LocksOf, Transacted, SqliteLock
      <4>3. "db" \in DOMAIN locks /\ locks["db"] = d
        BY <1>5, <4>2 DEF TxInv, CallOK
      <4>4. QED BY <4>1, <4>3 DEF SqlDeletePool, Runs, MayWrite
    <3>2. PoolSeen(d)
      BY <1>5, <2>1 DEF SeenHolds
    <3>3. PoolSeen(d)'
      BY <1>1, <1>2, <1>3, <1>5, <3>1, <3>2 DEF PoolSeen
    <3>4. QED BY <1>5, <2>1, <3>3 DEF SeenHolds
  <2>2. CASE call[d].req.op # "upsert_pool"
    BY <1>1, <1>5, <2>2, ClusterSeenFrame DEF SeenHolds
  <2>3. QED BY <2>1, <2>2
<1>6. QED BY <1>1, <1>4, <1>5, FinishKeeps

\* A statement on the other tables answers, and touches none of these.
LEMMA RowStatementQuiet ==
    ASSUME NEW c \in Callers, RowStatement(c)
    PROVE  /\ RowsOnly
           /\ \E kind, n : Finish(c, kind, n)
           /\ call[c].pc = "locked"
BY DEF At, Runs, RowStatement, SqlUpsertAllocation, SqlDeleteAllocation, SqlSetPolicy,
       SqlSeedPolicy, SqlRecordJob, SqlCreateUser, SqlSetPassword, SqlSetRole,
       SqlSetDisabled, SqlSetLockout, SqlCreateToken, SqlRevokeToken,
       SqlTouchToken, SqlAssign, SqlUnassign, UpdateUser, Affects

\* Steps that leave the calls, the locks and the tables alone.
LEMMA IdleKeeps ==
    ASSUME TxInv, UNCHANGED << backend, clusters, intents, retired, pools, dropped,
                              locks, call >>
    PROVE  TxInv'
<1>1. ASSUME NEW d \in Callers PROVE CallOK(d)'
  <2>1. SeenHolds(d) => SeenHolds(d)'
    BY SeenFrame
  <2>2. QED BY <2>1 DEF TxInv, CallOK, LocksOf
<1>2. QED BY <1>1 DEF TxInv, RowsOK

\* A crash forgets every call, and every lock with it.
LEMMA CrashKeeps ==
    ASSUME TxInv, Crash
    PROVE  TxInv'
BY DEF TxInv, Crash, CallOK, NoCall, RowsOK, tables

\* Every step keeps the invariant.
LEMMA TxStep == TxInv /\ [SqlNext]_svars => TxInv'
<1> SUFFICES ASSUME TxInv, [SqlNext]_svars PROVE TxInv'
  OBVIOUS
<1>1. ASSUME NEW c \in Callers, CallStep(c) PROVE TxInv'
  <2>1. CASE Acquire(c) BY <2>1, AcquireKeeps
  <2>2. CASE ReadCluster(c) BY <2>2, ReadClusterKeeps
  <2>3. CASE WriteCluster(c) BY <2>3, WriteClusterKeeps
  <2>4. CASE ReadIntent(c) BY <2>4, ReadIntentKeeps
  <2>5. CASE InsertIntent(c) BY <2>5, InsertIntentKeeps
  <2>6. CASE InsertSamples(c) BY <2>6, QuietKeeps DEF InsertSamples
  <2>7. CASE ReadTail(c) BY <2>7, ReadTailKeeps
  <2>8. CASE InsertAudit(c) BY <2>8, QuietKeeps DEF InsertAudit
  <2>9. CASE SqlSetDesired(c)
    <3>1. CASE call[c].req.id \in DOMAIN clusters
      <4>1. KeepsRows BY <2>9, <3>1, SetDesiredKeeps DEF SqlSetDesired, TxInv
      <4>2. QED BY <2>9, <3>1, <4>1, UpdateKeeps DEF SqlSetDesired, ClustersOnly
    <3>2. CASE call[c].req.id \notin DOMAIN clusters
      BY <2>9, <3>2, QuietKeeps DEF SqlSetDesired, ClustersOnly
    <3>3. QED BY <3>1, <3>2
  <2>10. CASE SqlRemove(c) BY <2>10, RemoveKeeps
  <2>11. CASE SqlObserve(c)
    <3>1. KeepsRows BY <2>11, ObservationKeeps DEF SqlObserve, TxInv
    <3>2. QED BY <2>11, <3>1, UpdateKeeps DEF SqlObserve, ClustersOnly
  <2>12. CASE SqlCondition(c)
    <3>1. KeepsRows BY <2>12, ConditionKeeps DEF SqlCondition, TxInv
    <3>2. QED BY <2>12, <3>1, UpdateKeeps DEF SqlCondition, ClustersOnly
  <2>13. CASE SqlAttempt(c)
    <3>1. KeepsRows BY <2>13, AttemptKeeps DEF SqlAttempt, TxInv
    <3>2. QED BY <2>13, <3>1, UpdateKeeps DEF SqlAttempt, ClustersOnly
  <2>14. CASE SqlComplete(c)
    <3>1. DOMAIN intents' \subseteq DOMAIN intents
      BY <2>14 DEF SqlComplete, CompleteIntent
    <3>2. QED BY <2>14, <3>1, QuietKeeps DEF SqlComplete, IntentsOnly
  <2>15. CASE SqlReap(c)
    <3>1. DOMAIN intents' \subseteq DOMAIN intents
      BY <2>15 DEF SqlReap, ReapIntents
    <3>2. QED BY <2>15, <3>1, QuietKeeps DEF SqlReap, IntentsOnly
  <2>16. CASE SqlQuarantine(c) BY <2>16, QuietKeeps DEF SqlQuarantine
  <2>17. CASE ReadPool(c) BY <2>17, ReadPoolKeeps
  <2>18. CASE WritePool(c) BY <2>18, WritePoolKeeps
  <2>19. CASE SqlObservePool(c) BY <2>19, ObservePoolKeeps
  <2>20. CASE SqlDeletePool(c)
    <3>1. CASE call[c].req.name \in DOMAIN pools BY <2>20, <3>1, DeletePoolKeeps
    <3>2. CASE call[c].req.name \notin DOMAIN pools
      BY <2>20, <3>2, QuietKeeps DEF SqlDeletePool, PoolsOnly
    <3>3. QED BY <3>1, <3>2
  <2>21. CASE RowStatement(c)
    BY <2>21, RowStatementQuiet, QuietKeeps DEF RowsOnly
  <2>22. QED BY <1>1, <2>1, <2>2, <2>3, <2>4, <2>5, <2>6, <2>7, <2>8, <2>9,
               <2>10, <2>11, <2>12, <2>13, <2>14, <2>15, <2>16, <2>17, <2>18,
               <2>19, <2>20, <2>21 DEF CallStep
<1>2. ASSUME NEW c \in Callers, Start(c) PROVE TxInv'
  BY <1>2, StartKeeps
<1>3. ASSUME NEW c \in Callers, Fails(c) PROVE TxInv'
  BY <1>3, QuietKeeps DEF Fails, tables
<1>4. ASSUME NEW c \in Callers, TimesOut(c) PROVE TxInv'
  BY <1>4, QuietKeeps DEF TimesOut, tables
<1>5. ASSUME NEW c \in Callers, LeavesOpen(c) PROVE TxInv'
  BY <1>5, QuietKeeps DEF LeavesOpen, tables
<1>6. ASSUME NEW c \in Callers, LostWrite(c) PROVE TxInv'
  <2>1. PICK a : Finish(c, a[1], a[2])
    BY <1>6 DEF LostWrite
  <2>2. QED BY <1>6, <2>1, QuietKeeps DEF LostWrite, tables
<1>7. ASSUME NEW c \in Callers, ReadLostTail(c) PROVE TxInv'
  BY <1>7, ReadTailKeeps
<1>8. CASE ConnectionCloses BY <1>8, IdleKeeps DEF ConnectionCloses, tables
<1>9. CASE BackfillAuditChain BY <1>9, IdleKeeps DEF BackfillAuditChain
<1>10. CASE Connected BY <1>10, IdleKeeps DEF Connected, tables
<1>11. CASE Crash BY <1>11, CrashKeeps
<1>12. CASE SecondPasses BY <1>12, IdleKeeps DEF SecondPasses, tables
<1>13. CASE UNCHANGED svars BY <1>13, IdleKeeps DEF svars, tables
<1>14. QED BY <1>1, <1>2, <1>3, <1>4, <1>5, <1>6, <1>7, <1>8, <1>9, <1>10,
             <1>11, <1>12, <1>13 DEF SqlNext

-----------------------------------------------------------------------------
(* The audit trail. *)

\* The trail is a sequence of rows.
TrailOK ==
    /\ trail \in Seq({trail[i] : i \in DOMAIN trail})
    /\ \A i \in DOMAIN trail : {"event", "chain_hash"} \subseteq DOMAIN trail[i]

\* A function on an initial segment is a sequence.
LEMMA SegmentSeq ==
    ASSUME NEW n \in Nat, NEW S, NEW f \in [1 .. n -> S]
    PROVE  f \in Seq(S)
OBVIOUS

\* Appending a row appends its event.
LEMMA EventsAppend ==
    ASSUME NEW S, NEW s \in Seq(S), NEW e, NEW h
    PROVE  /\ Events(Append(s, [event |-> e, chain_hash |-> h])) =
                Append(Events(s), e)
           /\ Append(s, [event |-> e, chain_hash |-> h]) \in
                Seq(S \cup {[event |-> e, chain_hash |-> h]})
<1> DEFINE r == [event |-> e, chain_hash |-> h]
           t == Append(s, r)
<1>1. s \in Seq(S \cup {r}) /\ t \in Seq(S \cup {r})
  OBVIOUS
<1>2. /\ DOMAIN s = 1 .. Len(s) /\ DOMAIN t = 1 .. Len(s) + 1 /\ Len(s) \in Nat
      /\ \A i \in 1 .. Len(s) : t[i] = s[i]
      /\ t[Len(s) + 1] = r
  BY <1>1
<1> DEFINE E == Events(s)
           T == {s[i].event : i \in DOMAIN s}
<1>3. E \in Seq(T) /\ Len(E) = Len(s)
  <2>1. E \in [1 .. Len(s) -> T]
    BY <1>2 DEF Events
  <2>2. QED BY <1>2, <2>1
<1>4. /\ Append(E, e) \in Seq(T \cup {e})
      /\ DOMAIN Append(E, e) = 1 .. Len(s) + 1
      /\ \A i \in 1 .. Len(s) : Append(E, e)[i] = E[i]
      /\ Append(E, e)[Len(s) + 1] = e
  BY <1>2, <1>3
<1>5. DOMAIN Events(t) = 1 .. Len(s) + 1
  BY <1>2 DEF Events
<1>6. \A i \in 1 .. Len(s) + 1 : Events(t)[i] = Append(E, e)[i]
  BY <1>2, <1>4, <1>5 DEF Events
<1>7. Events(t) = Append(E, e)
  BY <1>4, <1>5, <1>6 DEF Events
<1>8. QED BY <1>1, <1>7

\* The trail stays a sequence.
LEMMA TrailStep == TrailOK /\ [SqlNext]_svars => TrailOK'
<1> SUFFICES ASSUME TrailOK, [SqlNext]_svars PROVE TrailOK'
  OBVIOUS
<1>1. CASE trail' = trail
  BY <1>1 DEF TrailOK
<1>2. ASSUME NEW c \in Callers, InsertAudit(c) PROVE TrailOK'
  <2> DEFINE S == {trail[i] : i \in DOMAIN trail}
  <2>1. PICK e, h : trail' = Append(trail, [event |-> e, chain_hash |-> h])
    BY <1>2 DEF InsertAudit
  <2>2. trail' \in Seq(S \cup {[event |-> e, chain_hash |-> h]})
    BY <2>1, EventsAppend DEF TrailOK
  <2>3. trail' \in [1 .. Len(trail') -> {trail'[i] : i \in DOMAIN trail'}]
        /\ Len(trail') \in Nat
    BY <2>2
  <2>4. \A i \in DOMAIN trail' : {"event", "chain_hash"} \subseteq DOMAIN trail'[i]
    BY <2>1 DEF TrailOK
  <2>5. QED BY <2>3, <2>4, SegmentSeq DEF TrailOK
<1>3. CASE BackfillAuditChain
  <2>1. PICK i \in DOMAIN trail : trail' = [trail EXCEPT ![i].chain_hash =
            AuditChainHash(IF i = 1 THEN GenesisHash ELSE trail[i - 1].chain_hash,
                           trail[i].event)]
    BY <1>3 DEF BackfillAuditChain
  <2>2. DOMAIN trail = 1 .. Len(trail) /\ Len(trail) \in Nat
    BY DEF TrailOK
  <2>3. trail' \in [1 .. Len(trail) -> {trail'[j] : j \in DOMAIN trail'}]
    BY <2>1, <2>2
  <2>4. \A j \in DOMAIN trail' : {"event", "chain_hash"} \subseteq DOMAIN trail'[j]
    BY <2>1 DEF TrailOK
  <2>5. QED BY <2>2, <2>3, <2>4, SegmentSeq DEF TrailOK
<1>4. trail' = trail \/ BackfillAuditChain \/ \E c \in Callers : InsertAudit(c)
  BY RowStatementQuiet DEF SqlNext, CallStep, svars, tables, Start, Acquire, Fails, ReadCluster,
         WriteCluster, ReadIntent, InsertIntent, InsertSamples, ReadTail,
         SqlSetDesired, SqlRemove, SqlObserve, SqlCondition, SqlAttempt,
         SqlComplete, SqlReap, SqlQuarantine, ClustersOnly, IntentsOnly,
         Connected, Crash, SecondPasses, ReadPool, WritePool, SqlDeletePool,
         SqlObservePool, PoolsOnly, RowsOnly, TimesOut, LeavesOpen, LostWrite,
         ReadLostTail, ConnectionCloses
<1>5. QED BY <1>1, <1>2, <1>3, <1>4

\* Old rows given to the store are a sequence, so its first trail is one.
LEMMA TrailInit ==
    ASSUME SqlInit
    PROVE  TrailOK /\ Events(trail) = OldRows
<1>1. DOMAIN OldRows = 1 .. Len(OldRows) /\ Len(OldRows) \in Nat
  BY OldRowsAssumption
<1>2. trail \in [1 .. Len(OldRows) -> {trail[i] : i \in DOMAIN trail}]
  BY <1>1 DEF SqlInit
<1>3. TrailOK
  <2>1. \A i \in DOMAIN trail : {"event", "chain_hash"} \subseteq DOMAIN trail[i]
    BY DEF SqlInit
  <2>2. QED BY <1>1, <1>2, <2>1, SegmentSeq DEF TrailOK
<1>4. DOMAIN Events(trail) = DOMAIN OldRows
      /\ \A i \in DOMAIN OldRows : Events(trail)[i] = OldRows[i]
  BY DEF SqlInit, Events
<1>5. Events(trail) = OldRows
  <2>1. OldRows = [i \in DOMAIN OldRows |-> OldRows[i]]
    BY <1>1, OldRowsAssumption
  <2>2. QED BY <1>4, <2>1 DEF Events
<1>6. QED BY <1>3, <1>5

\* Between the read and the write of a transaction nobody else moves the row it
\* read, whatever the lock hash collides on; only Postgres, which deletes under
\* no lock, may have removed it.
THEOREM ReadsStayTrue == SqlSpec => [](TxInv /\ TrailOK)
<1>1. SqlInit => TxInv /\ TrailOK
  BY TxInit, TrailInit
<1>2. TxInv /\ TrailOK /\ [SqlNext]_svars => (TxInv /\ TrailOK)'
  BY TxStep, TrailStep
<1>3. QED BY <1>1, <1>2, PTL DEF SqlSpec

-----------------------------------------------------------------------------
(* The refinement.                                                         *)

USE DEF Abstract!admin, Abstract!db

\* The atomic store is built from the same operators: the same answers.
LEMMA SameSays ==
    ASSUME NEW c, NEW kind, NEW n, Says(c, kind, n)
    PROVE  Abstract!Says(c, kind, n)
BY DEF Says, Abstract!Says

\* The same inserts.
LEMMA SamePut == \A t, k, v : Abstract!Put(t, k, v) = Put(t, k, v)
BY DEF Abstract!Put, Put

\* The same deletes of a row.
LEMMA SameDrop == \A t, k : Abstract!Drop(t, k) = Drop(t, k)
BY DEF Abstract!Drop, Drop

\* The same new cluster rows.
LEMMA SameNewCluster == \A s, t : Abstract!NewCluster(s, t) = NewCluster(s, t)
BY DEF Abstract!NewCluster, NewCluster, Abstract!Absent, Absent,
       Abstract!NoTime, NoTime

\* The same upserts.
LEMMA SameUpsert ==
    \A t, id, s, n : Abstract!UpsertDesired(t, id, s, n) = UpsertDesired(t, id, s, n)
BY SamePut, SameNewCluster
DEF Abstract!UpsertDesired, UpsertDesired, Abstract!SpecChanged, SpecChanged

\* The same desired states.
LEMMA SameSetDesired ==
    \A t, id, d, n : Abstract!SetDesired(t, id, d, n) = SetDesired(t, id, d, n)
BY DEF Abstract!SetDesired, SetDesired, Abstract!NoTime, NoTime

\* The same observations.
LEMMA SameObservation ==
    \A t, id, s, g :
        Abstract!RecordObservation(t, id, s, g) = RecordObservation(t, id, s, g)
BY DEF Abstract!RecordObservation, RecordObservation

\* The same conditions.
LEMMA SameCondition ==
    \A t, id, x : Abstract!SetCondition(t, id, x) = SetCondition(t, id, x)
BY DEF Abstract!SetCondition, SetCondition

\* The same attempts.
LEMMA SameAttempt ==
    \A t, id, f, n : Abstract!RecordAttempt(t, id, f, n) = RecordAttempt(t, id, f, n)
BY DEF Abstract!RecordAttempt, RecordAttempt

\* The same intents.
LEMMA SameIntents ==
    /\ \A t, k, f : Abstract!ParamMismatch(t, k, f) <=> ParamMismatch(t, k, f)
    /\ \A t, k, f : Abstract!BeginIntent(t, k, f) = BeginIntent(t, k, f)
    /\ \A t, k, n : Abstract!CompleteIntent(t, k, n) = CompleteIntent(t, k, n)
    /\ \A t, n : Abstract!ReapIntents(t, n) = ReapIntents(t, n)
<1>1. \A t, k, f : Abstract!ParamMismatch(t, k, f) <=> ParamMismatch(t, k, f)
  BY DEF Abstract!ParamMismatch, ParamMismatch
<1>2. \A t, k, f : Abstract!BeginIntent(t, k, f) = BeginIntent(t, k, f)
  BY SamePut DEF Abstract!BeginIntent, BeginIntent, Abstract!NoTime, NoTime
<1>3. \A t, k, n : Abstract!CompleteIntent(t, k, n) = CompleteIntent(t, k, n)
  BY DEF Abstract!CompleteIntent, CompleteIntent
<1>4. \A t, n : Abstract!ReapIntents(t, n) = ReapIntents(t, n)
  BY DEF Abstract!ReapIntents, ReapIntents, Abstract!NoTime, NoTime
<1>5. QED BY <1>1, <1>2, <1>3, <1>4

\* The write of upsert_desired is the atomic upsert, or on Postgres the upsert
\* of a row removed since it was read.
LEMMA WriteClusterRefines ==
    ASSUME TxInv, NEW c \in Callers, WriteCluster(c)
    PROVE  \E k \in Calls : Abstract!UpsertCall(c, k) \/ Abstract!ReviveCall(c, k)
<1> DEFINE k == call[c].req
           seen == call[c].seen
           g == NextGeneration(seen, k.spec)
<1>1. k \in Calls /\ k.op = "upsert" /\ SeenHolds(c)
  BY DEF TxInv, CallOK, WriteCluster, At
<1>2. /\ Says(c, "generation", g)
      /\ UNCHANGED << Abstract!db, intents, samples, quarantine, admin,
                      Events(trail), now, retired >>
  BY DEF WriteCluster, Finish
<1>3. CASE k.id \in DOMAIN clusters
  <2>1. seen.found /\ seen.spec = clusters[k.id].spec
        /\ seen.generation = clusters[k.id].generation
    BY <1>1, <1>3 DEF SeenHolds, ClusterSeen
  <2>2. {"spec", "generation"} \subseteq DOMAIN clusters[k.id]
    BY <1>3 DEF TxInv, RowsOK
  <2>3. g = IF SpecChanged(clusters[k.id].spec, k.spec)
            THEN clusters[k.id].generation + 1 ELSE clusters[k.id].generation
    BY <2>1 DEF NextGeneration
  <2> DEFINE row == [clusters[k.id] EXCEPT !.spec = k.spec, !.generation = g]
  <2>4. row = [clusters[k.id] EXCEPT
                !.spec = k.spec,
                !.generation = IF SpecChanged(clusters[k.id].spec, k.spec)
                               THEN @ + 1 ELSE @]
    BY <2>2, <2>3
  <2>5. row.generation = g
    BY <2>2
  <2>6. clusters' = Put(clusters, k.id, row)
    BY <1>3 DEF WriteCluster
  <2> HIDE DEF row, g
  <2>7. clusters' = UpsertDesired(clusters, k.id, k.spec, now)
    BY <1>3, <2>4, <2>6 DEF UpsertDesired
  <2>8. clusters'[k.id].generation = g
    BY <2>5, <2>6 DEF Put
  <2>9. Abstract!UpsertCall(c, k)
    BY <1>1, <1>2, <2>7, <2>8, SameUpsert
    DEF Abstract!UpsertCall, Abstract!Says, Says
  <2>10. QED BY <1>1, <2>9
<1>4. CASE k.id \notin DOMAIN clusters /\ ~seen.found
  <2>1. g = 1
    BY <1>4 DEF NextGeneration
  <2> DEFINE row == NewCluster(k.spec, now)
  <2>2. [row EXCEPT !.generation = g] = row /\ row.generation = g
    BY <2>1 DEF NewCluster
  <2>3. clusters' = Put(clusters, k.id, row)
    BY <1>4, <2>2 DEF WriteCluster
  <2> HIDE DEF row, g
  <2>4. clusters' = UpsertDesired(clusters, k.id, k.spec, now)
    BY <1>4, <2>3 DEF UpsertDesired, row
  <2>5. clusters'[k.id].generation = g
    BY <2>2, <2>3 DEF Put
  <2>6. Abstract!UpsertCall(c, k)
    BY <1>1, <1>2, <2>4, <2>5, SameUpsert
    DEF Abstract!UpsertCall, Abstract!Says, Says
  <2>7. QED BY <1>1, <2>6
<1>5. CASE k.id \notin DOMAIN clusters /\ seen.found
  <2>1. /\ backend = "postgres" /\ k.id \in DOMAIN retired
        /\ retired[k.id] = seen.generation
    BY <1>1, <1>5 DEF SeenHolds, ClusterSeen
  <2>2. g \in {retired[k.id], retired[k.id] + 1}
    BY <1>5, <2>1 DEF NextGeneration
  <2>3. clusters' = Put(clusters, k.id,
                        [NewCluster(k.spec, now) EXCEPT !.generation = g])
    BY <1>5 DEF WriteCluster
  <2> HIDE DEF g
  <2>4. Abstract!ReviveCall(c, k)
    BY <1>1, <1>2, <1>5, <2>1, <2>2, <2>3, SamePut, SameNewCluster
    DEF Abstract!ReviveCall, Abstract!Says, Says
  <2>5. QED BY <1>1, <2>4
<1>6. seen.found \in BOOLEAN
  BY <1>1 DEF SeenHolds, ClusterSeen
<1>7. QED BY <1>3, <1>4, <1>5, <1>6

\* The read and the insert of begin_intent each are the atomic call.
LEMMA BeginRefines ==
    ASSUME TxInv, NEW c \in Callers,
           InsertIntent(c) \/ (ReadIntent(c) /\ call[c].req.key \in DOMAIN intents)
    PROVE  \E k \in Calls : Abstract!BeginCall(c, k)
<1> DEFINE k == call[c].req
<1>1. k \in Calls /\ k.op = "begin"
  BY DEF TxInv, CallOK, InsertIntent, ReadIntent, At
<1>2. UNCHANGED << Abstract!db, clusters, samples, quarantine, admin, Events(trail),
                   now, retired >>
  BY DEF InsertIntent, ReadIntent, tables
<1>3. CASE InsertIntent(c)
  <2>1. k.key \notin DOMAIN intents
    BY <1>3 DEF TxInv, CallOK, SeenHolds, InsertIntent, At
  <2>2. intents' = BeginIntent(intents, k.key, k.fp)
    BY <1>3, <2>1 DEF InsertIntent, BeginIntent
  <2>3. ~ParamMismatch(intents, k.key, k.fp)
    BY <2>1 DEF ParamMismatch
  <2>4. Says(c, "fresh", 0)
    BY <1>3 DEF InsertIntent, Finish
  <2>5. Abstract!BeginCall(c, k)
    BY <1>1, <1>2, <2>1, <2>2, <2>3, <2>4, SameIntents
    DEF Abstract!BeginCall, Abstract!Says, Says
  <2>6. QED BY <1>1, <2>5
<1>4. CASE ReadIntent(c) /\ k.key \in DOMAIN intents
  <2>1. intents' = BeginIntent(intents, k.key, k.fp)
    BY <1>4 DEF ReadIntent, BeginIntent, tables
  <2>2. Says(c, IF ParamMismatch(intents, k.key, k.fp) THEN "mismatch"
                ELSE "replay", 0)
    BY <1>4 DEF ReadIntent, Finish
  <2>3. Abstract!BeginCall(c, k)
    BY <1>1, <1>2, <1>4, <2>1, <2>2, SameIntents
    DEF Abstract!BeginCall, Abstract!Says, Says
  <2>4. QED BY <1>1, <2>3
<1>5. QED BY <1>3, <1>4

\* record_audit's insert appends the event.
LEMMA AuditRefines ==
    ASSUME TxInv, TrailOK, NEW c \in Callers, InsertAudit(c)
    PROVE  \E k \in Calls : Abstract!AuditCall(c, k)
<1> DEFINE k == call[c].req
<1>1. k \in Calls /\ k.op = "audit"
  BY DEF TxInv, CallOK, InsertAudit, At
<1>2. trail' = Append(trail, [event |-> k.event,
                    chain_hash |-> AuditChainHash(call[c].seen, k.event)])
  BY DEF InsertAudit
<1>3. Events(trail') = Append(Events(trail), k.event)
  BY <1>2, EventsAppend DEF TrailOK
<1>4. Says(c, "ok", 0)
  BY DEF InsertAudit, Finish
<1>5. Abstract!AuditCall(c, k)
  BY <1>1, <1>3, <1>4 DEF Abstract!AuditCall, Abstract!Says, Says, InsertAudit, Events
<1>6. QED BY <1>1, <1>5

\* Chaining an old row changes no event.
LEMMA BackfillRefines ==
    ASSUME TrailOK, BackfillAuditChain
    PROVE  UNCHANGED Abstract!avars
<1>1. DOMAIN trail' = DOMAIN trail
      /\ \A i \in DOMAIN trail : trail'[i].event = trail[i].event
  BY DEF BackfillAuditChain, TrailOK
<1>2. Events(trail') = Events(trail)
  BY <1>1 DEF Events
<1>3. QED BY <1>2 DEF Abstract!avars, BackfillAuditChain, Events

\* A single statement is the atomic call it is named after.
LEMMA StatementRefines ==
    ASSUME TxInv, NEW c \in Callers,
           \/ SqlSetDesired(c) \/ SqlRemove(c) \/ SqlObserve(c)
           \/ SqlCondition(c) \/ SqlAttempt(c) \/ SqlComplete(c)
           \/ SqlReap(c) \/ SqlQuarantine(c) \/ InsertSamples(c)
    PROVE  (\E k \in Calls : Abstract!AtomicCall(c, k)) \/ Abstract!FailedCall(c)
<1> DEFINE k == call[c].req
<1>1. k \in Calls
  BY DEF TxInv, CallOK, SqlSetDesired, SqlRemove, SqlObserve, SqlCondition,
         SqlAttempt, SqlComplete, SqlReap, SqlQuarantine, InsertSamples, Runs, At
<1> USE DEF Runs, At, Finish, Says, Abstract!Says, ClustersOnly, IntentsOnly
<1>2. CASE SqlSetDesired(c)
  <2>1. CASE k.id \in DOMAIN clusters
    BY <1>1, <1>2, <2>1, SameSetDesired
    DEF SqlSetDesired, Abstract!SetDesiredCall, Abstract!AtomicCall, Events
  <2>2. CASE k.id \notin DOMAIN clusters
    BY <1>2, <2>2 DEF SqlSetDesired, Abstract!FailedCall, Events
  <2>3. QED BY <2>1, <2>2
<1>3. CASE SqlRemove(c)
  BY <1>1, <1>3, SameDrop, SamePut
  DEF SqlRemove, Abstract!RemoveCall, Abstract!AtomicCall, Events
<1>4. CASE SqlObserve(c)
  BY <1>1, <1>4, SameObservation
  DEF SqlObserve, Abstract!ObserveCall, Abstract!AtomicCall, Events
<1>5. CASE SqlCondition(c)
  BY <1>1, <1>5, SameCondition
  DEF SqlCondition, Abstract!ConditionCall, Abstract!AtomicCall, Events
<1>6. CASE SqlAttempt(c)
  BY <1>1, <1>6, SameAttempt
  DEF SqlAttempt, Abstract!AttemptCall, Abstract!AtomicCall, Events
<1>7. CASE SqlComplete(c)
  BY <1>1, <1>7, SameIntents
  DEF SqlComplete, Abstract!CompleteCall, Abstract!AtomicCall, Events
<1>8. CASE SqlReap(c)
  BY <1>1, <1>8, SameIntents
  DEF SqlReap, Abstract!ReapCall, Abstract!AtomicCall, Events
<1>9. CASE SqlQuarantine(c)
  BY <1>1, <1>9 DEF SqlQuarantine, Abstract!QuarantineCall, Abstract!AtomicCall, Events
<1>10. CASE InsertSamples(c)
  BY <1>1, <1>10 DEF InsertSamples, Abstract!SamplesCall, Abstract!AtomicCall, Events
<1>11. QED BY <1>2, <1>3, <1>4, <1>5, <1>6, <1>7, <1>8, <1>9, <1>10

\* The write of upsert_pool is the atomic upsert, or on Postgres the upsert of
\* a pool deleted since it was read.
LEMMA WritePoolRefines ==
    ASSUME TxInv, NEW c \in Callers, WritePool(c)
    PROVE  \E k \in Calls :
                Abstract!UpsertPoolCall(c, k) \/ Abstract!RevivePoolCall(c, k)
<1> DEFINE k == call[c].req
           seen == call[c].seen
           g == NextPoolGeneration(seen, k.spec)
           fresh == [spec |-> k.spec, generation |-> g, observed |-> "none",
                     observed_at |-> -1, created_at |-> now]
<1>1. k \in Calls /\ k.op = "upsert_pool" /\ PoolSeen(c)
  BY DEF TxInv, CallOK, SeenHolds, WritePool, At
<1>2. /\ Says(c, "generation", g)
      /\ UNCHANGED dropped
      /\ Abstract!PoolsOnly
  BY DEF WritePool, Finish, PoolsOnly, Abstract!PoolsOnly, Events
<1>3. CASE k.name \in DOMAIN pools
  <2>1. seen.found /\ seen.spec = pools[k.name].spec
        /\ seen.generation = pools[k.name].generation
    BY <1>1, <1>3 DEF PoolSeen
  <2>2. {"spec", "generation"} \subseteq DOMAIN pools[k.name]
    BY <1>3 DEF TxInv, RowsOK
  <2>3. g = IF pools[k.name].spec = k.spec
            THEN pools[k.name].generation ELSE pools[k.name].generation + 1
    BY <2>1 DEF NextPoolGeneration
  <2> DEFINE old == pools[k.name]
             row == [old EXCEPT !.spec = k.spec, !.generation = g]
  <2>4. row = [old EXCEPT
                !.spec = k.spec,
                !.generation = IF old.spec = k.spec THEN @ ELSE @ + 1]
    BY <2>2, <2>3
  <2>5. row.generation = g
    BY <2>2
  <2>6. Assigned(old, [spec |-> k.spec, generation |-> g]) = row
    <3> HIDE DEF g
    <3> DEFINE set == [spec |-> k.spec, generation |-> g]
               both == [f \in DOMAIN old |-> IF f = "generation" THEN g
                            ELSE IF f = "spec" THEN k.spec ELSE old[f]]
    <3>1. /\ DOMAIN set = {"spec", "generation"}
          /\ set["spec"] = k.spec /\ set["generation"] = g
      OBVIOUS
    <3>2. row = both
      OBVIOUS
    <3>3. Assigned(old, set) = both
      <4> HIDE DEF set
      <4>1. QED BY <3>1 DEF Assigned
    <3>4. QED BY <3>2, <3>3
  <2>7. pools' = Put(pools, k.name, row)
    <3>1. pools' = UpdateWhere(pools, {k.name}, [spec |-> k.spec, generation |-> g])
      BY <1>3 DEF WritePool, InsertOrUpdate
    <3> HIDE DEF row, g
    <3>2. QED BY <1>3, <2>6, <3>1 DEF UpdateWhere, Put
  <2> HIDE DEF row, g
  <2>8. pools'[k.name].generation = g
    BY <2>5, <2>7 DEF Put
  <2>9. Abstract!UpsertPoolCall(c, k)
    BY <1>1, <1>2, <1>3, <2>4, <2>7, <2>8, SamePut
    DEF Abstract!UpsertPoolCall, Abstract!Says, Says
  <2>10. QED BY <1>1, <2>9
<1>4. CASE k.name \notin DOMAIN pools
  <2>1. pools' = Put(pools, k.name, fresh)
    BY <1>4 DEF WritePool, InsertOrUpdate, PoolRow
  <2>2. pools'[k.name].generation = g
    <3> HIDE DEF g
    <3>1. QED BY <2>1 DEF Put
  <2>3. CASE ~seen.found
    <3>1. g = 1
      BY <2>3 DEF NextPoolGeneration
    <3> HIDE DEF g
    <3>2. Abstract!UpsertPoolCall(c, k)
      BY <1>1, <1>2, <1>4, <2>1, <2>2, <3>1, SamePut
      DEF Abstract!UpsertPoolCall, Abstract!Says, Says
    <3>3. QED BY <1>1, <3>2
  <2>4. CASE seen.found
    <3>1. /\ backend = "postgres" /\ k.name \in DOMAIN dropped
          /\ dropped[k.name] = seen.generation
      BY <1>1, <1>4, <2>4 DEF PoolSeen
    <3>2. g \in {dropped[k.name], dropped[k.name] + 1}
      BY <2>4, <3>1 DEF NextPoolGeneration
    <3> HIDE DEF g
    <3>3. Abstract!RevivePoolCall(c, k)
      BY <1>1, <1>2, <1>4, <2>1, <3>1, <3>2, SamePut
      DEF Abstract!RevivePoolCall, Abstract!Says, Says
    <3>4. QED BY <1>1, <3>3
  <2>5. QED BY <1>1, <2>3, <2>4 DEF PoolSeen
<1>5. QED BY <1>3, <1>4

\* delete_pool and record_pool_observation are the atomic calls.
LEMMA PoolStatementRefines ==
    ASSUME TxInv, NEW c \in Callers, SqlDeletePool(c) \/ SqlObservePool(c)
    PROVE  (\E k \in Calls : Abstract!AtomicCall(c, k)) \/ Abstract!FailedCall(c)
<1> DEFINE k == call[c].req
<1>1. k \in Calls
  BY DEF TxInv, CallOK, SqlDeletePool, SqlObservePool, Runs, At
<1>2. CASE SqlDeletePool(c)
  <2>1. CASE k.name \in DOMAIN pools
    <3>1. Abstract!DeletePoolCall(c, k)
      BY <1>2, <2>1, SamePut, SameDrop
      DEF SqlDeletePool, PoolsOnly, Runs, At, Finish, Says,
          Abstract!DeletePoolCall, Abstract!PoolsOnly, Abstract!Says, Events
    <3>2. QED BY <1>1, <3>1 DEF Abstract!AtomicCall
  <2>2. CASE k.name \notin DOMAIN pools
    BY <1>2, <2>2 DEF SqlDeletePool, PoolsOnly, Finish, Says,
                      Abstract!FailedCall, Abstract!Says, Events
  <2>3. QED BY <2>1, <2>2
<1>3. CASE SqlObservePool(c)
  <2> DEFINE set == [observed |-> k.observed, observed_at |-> now]
  <2>1. pools' = UpdateWhere(pools, {k.name}, set)
    BY <1>3 DEF SqlObservePool
  <2>2. pools' = [n \in DOMAIN pools |->
                    IF n # k.name THEN pools[n]
                    ELSE [pools[n] EXCEPT !.observed = k.observed,
                                          !.observed_at = now]]
    <3>1. /\ DOMAIN set = {"observed", "observed_at"}
          /\ set["observed"] = k.observed /\ set["observed_at"] = now
      OBVIOUS
    <3>2. ASSUME NEW n \in DOMAIN pools
          PROVE  Assigned(pools[n], set) = [pools[n] EXCEPT !.observed = k.observed,
                                                           !.observed_at = now]
      <4> DEFINE old == pools[n]
                 both == [f \in DOMAIN old |-> IF f = "observed_at" THEN now
                             ELSE IF f = "observed" THEN k.observed ELSE old[f]]
      <4>1. [old EXCEPT !.observed = k.observed, !.observed_at = now] = both
        OBVIOUS
      <4>2. Assigned(old, set) = both
        <5> HIDE DEF set
        <5>1. QED BY <3>1 DEF Assigned
      <4>3. QED BY <4>1, <4>2
    <3> HIDE DEF set
    <3>3. QED BY <2>1, <3>2 DEF UpdateWhere
  <2>3. Abstract!ObservePoolCall(c, k)
    BY <1>3, <2>2 DEF SqlObservePool, PoolsOnly, Runs, At, Finish, Says,
          Abstract!ObservePoolCall, Abstract!PoolsOnly, Abstract!Says, Events
  <2>4. QED BY <1>1, <2>3 DEF Abstract!AtomicCall
<1>4. QED BY <1>2, <1>3

\* UPDATE ... SET revoked is the update of that column.
LEMMA AssignRevoked ==
    ASSUME NEW row, NEW yes
    PROVE  Assigned(row, [revoked |-> yes]) = [row EXCEPT !.revoked = yes]
BY DEF Assigned

\* The single statements on the other tables are the atomic calls, or fail and
\* change nothing.
LEMMA RowStatementRefines ==
    ASSUME TxInv, NEW c \in Callers, RowStatement(c)
    PROVE  (\E k \in Calls : Abstract!RowCall(c, k)) \/ Abstract!FailedCall(c)
<1> DEFINE k == call[c].req
<1>1. k \in Calls /\ Abstract!RowsOnly
  BY RowStatementQuiet DEF RowStatement, TxInv, CallOK, Runs, At, Affects, UpdateUser, RowsOnly,
     Abstract!RowsOnly, Events, SqlUpsertAllocation, SqlDeleteAllocation,
     SqlSetPolicy, SqlSeedPolicy, SqlRecordJob, SqlCreateUser, SqlSetPassword,
     SqlSetRole, SqlSetDisabled, SqlSetLockout, SqlCreateToken, SqlRevokeToken,
     SqlTouchToken, SqlAssign, SqlUnassign
<1>2. ASSUME NEW after, Affects(c, TRUE, after)
      PROVE  rows' = after /\ Abstract!Says(c, "ok", 0)
  BY <1>2 DEF Affects, Finish, Says, Abstract!Says
<1>3. ASSUME Finish(c, "error", 0), UNCHANGED rows, RowsOnly
      PROVE  Abstract!FailedCall(c)
  BY <1>3 DEF Finish, Says, Abstract!Says, Abstract!FailedCall, RowsOnly, Events
<1> USE DEF Runs, At
<1>4. CASE SqlUpsertAllocation(c)
  BY <1>1, <1>2, <1>4, SamePut
  DEF SqlUpsertAllocation, Abstract!UpsertAllocationCall, Abstract!RowCall
<1>5. CASE SqlSetPolicy(c)
  BY <1>1, <1>2, <1>5, SamePut
  DEF SqlSetPolicy, Abstract!SetPolicyCall, Abstract!RowCall
<1>6. CASE SqlSeedPolicy(c)
  BY <1>1, <1>6, SamePut
  DEF SqlSeedPolicy, InsertNew, Finish, Says, Abstract!Says,
      Abstract!SeedPolicyCall, Abstract!RowCall
<1>7. CASE SqlRecordJob(c)
  <2> DEFINE set == [status |-> k.status, duration |-> k.duration]
  <2>1. rows' = [rows EXCEPT !.jobs = InsertOrUpdate(@, k.id, JobRow(k), set)]
        /\ Abstract!Says(c, "ok", 0) /\ k.op = "record_job"
    BY <1>2, <1>7 DEF SqlRecordJob
  <2>2. CASE k.id \in DOMAIN rows.jobs
    <3>1. UpdateWhere(rows.jobs, {k.id}, set) = [rows.jobs EXCEPT ![k.id] =
                [@ EXCEPT !.status = k.status, !.duration = k.duration]]
      <4> HIDE DEF set
      <4>1. /\ DOMAIN set = {"status", "duration"}
            /\ set["status"] = k.status /\ set["duration"] = k.duration
        BY DEF set
      <4> DEFINE old == rows.jobs[k.id]
                 both == [f \in DOMAIN old |-> IF f = "duration" THEN k.duration
                              ELSE IF f = "status" THEN k.status ELSE old[f]]
      <4>2. [old EXCEPT !.status = k.status, !.duration = k.duration] = both
        OBVIOUS
      <4>3. Assigned(old, set) = both
        BY <4>1 DEF Assigned
      <4>4. QED BY <2>2, <4>2, <4>3 DEF UpdateWhere
    <3>2. rows' = [rows EXCEPT !.jobs[k.id] =
                [@ EXCEPT !.status = k.status, !.duration = k.duration]]
      BY <2>1, <2>2, <3>1 DEF InsertOrUpdate
    <3>3. Abstract!RecordJobCall(c, k)
      BY <1>1, <2>1, <2>2, <3>2 DEF Abstract!RecordJobCall
    <3>4. QED BY <1>1, <3>3 DEF Abstract!RowCall
  <2>3. CASE k.id \notin DOMAIN rows.jobs
    <3>1. Abstract!RecordJobCall(c, k)
      BY <1>1, <2>1, <2>3, SamePut DEF InsertOrUpdate, JobRow, Abstract!RecordJobCall
    <3>2. QED BY <1>1, <3>1 DEF Abstract!RowCall
  <2>4. QED BY <2>2, <2>3
<1>8. CASE SqlCreateUser(c)
  <2>1. CASE k.user \notin DOMAIN rows.users
    <3>1. k.op = "create_user" /\ rows' = [rows EXCEPT !.users = Put(@, k.user, UserRow(k, now))]
          /\ Abstract!Says(c, "ok", 0)
      BY <1>2, <1>8, <2>1 DEF SqlCreateUser, InsertNew
    <3>2. Abstract!CreateUserCall(c, k)
      BY <1>1, <2>1, <3>1, SamePut DEF UserRow, Abstract!CreateUserCall
    <3>3. QED BY <1>1, <3>2 DEF Abstract!RowCall
  <2>2. CASE ~(k.user \notin DOMAIN rows.users)
    BY <1>3, <1>8, <2>2 DEF SqlCreateUser, InsertNew, Affects
  <2>3. QED BY <2>1, <2>2
<1>9. CASE SqlSetPassword(c)
  <2>1. CASE k.user \in DOMAIN rows.users
    <3>1. k.op = "set_password" /\ rows' = [rows EXCEPT !.users =
                                UpdateWhere(@, {k.user}, [password |-> k.password])]
          /\ Abstract!Says(c, "ok", 0)
      BY <1>2, <1>9, <2>1 DEF SqlSetPassword, UpdateUser
    <3>2. UpdateWhere(rows.users, {k.user}, [password |-> k.password])
            = [rows.users EXCEPT ![k.user].password = k.password]
      BY <2>1 DEF UpdateWhere, Assigned
    <3>3. Abstract!SetPasswordCall(c, k)
      BY <1>1, <2>1, <3>1, <3>2 DEF Abstract!SetPasswordCall
    <3>4. QED BY <1>1, <3>3 DEF Abstract!RowCall
  <2>2. CASE ~(k.user \in DOMAIN rows.users)
    BY <1>3, <1>9, <2>2 DEF SqlSetPassword, UpdateUser, Affects
  <2>3. QED BY <2>1, <2>2
<1>10. CASE SqlSetRole(c)
  <2>1. CASE k.user \in DOMAIN rows.users
    <3>1. k.op = "set_role" /\ rows' = [rows EXCEPT !.users =
                                UpdateWhere(@, {k.user}, [role |-> k.role])]
          /\ Abstract!Says(c, "ok", 0)
      BY <1>2, <1>10, <2>1 DEF SqlSetRole, UpdateUser
    <3>2. UpdateWhere(rows.users, {k.user}, [role |-> k.role])
            = [rows.users EXCEPT ![k.user].role = k.role]
      BY <2>1 DEF UpdateWhere, Assigned
    <3>3. Abstract!SetRoleCall(c, k)
      BY <1>1, <2>1, <3>1, <3>2 DEF Abstract!SetRoleCall
    <3>4. QED BY <1>1, <3>3 DEF Abstract!RowCall
  <2>2. CASE ~(k.user \in DOMAIN rows.users)
    BY <1>3, <1>10, <2>2 DEF SqlSetRole, UpdateUser, Affects
  <2>3. QED BY <2>1, <2>2
<1>11. CASE SqlSetDisabled(c)
  <2>1. CASE k.user \in DOMAIN rows.users
    <3>1. k.op = "set_disabled" /\ rows' = [rows EXCEPT !.users =
                                UpdateWhere(@, {k.user}, [disabled |-> k.disabled])]
          /\ Abstract!Says(c, "ok", 0)
      BY <1>2, <1>11, <2>1 DEF SqlSetDisabled, UpdateUser
    <3>2. UpdateWhere(rows.users, {k.user}, [disabled |-> k.disabled])
            = [rows.users EXCEPT ![k.user].disabled = k.disabled]
      BY <2>1 DEF UpdateWhere, Assigned
    <3>3. Abstract!SetDisabledCall(c, k)
      BY <1>1, <2>1, <3>1, <3>2 DEF Abstract!SetDisabledCall
    <3>4. QED BY <1>1, <3>3 DEF Abstract!RowCall
  <2>2. CASE ~(k.user \in DOMAIN rows.users)
    BY <1>3, <1>11, <2>2 DEF SqlSetDisabled, UpdateUser, Affects
  <2>3. QED BY <2>1, <2>2
<1>12. CASE SqlSetLockout(c)
  <2> DEFINE set == [failed_logins |-> k.failed, locked_until |-> k.until]
  <2>1. CASE k.user \in DOMAIN rows.users
    <3>1. UpdateWhere(rows.users, {k.user}, set) = [rows.users EXCEPT ![k.user] =
                [@ EXCEPT !.failed_logins = k.failed, !.locked_until = k.until]]
      <4> HIDE DEF set
      <4>1. /\ DOMAIN set = {"failed_logins", "locked_until"}
            /\ set["failed_logins"] = k.failed /\ set["locked_until"] = k.until
        BY DEF set
      <4> DEFINE old == rows.users[k.user]
                 both == [f \in DOMAIN old |-> IF f = "locked_until" THEN k.until
                              ELSE IF f = "failed_logins" THEN k.failed ELSE old[f]]
      <4>2. [old EXCEPT !.failed_logins = k.failed, !.locked_until = k.until] = both
        OBVIOUS
      <4>3. Assigned(old, set) = both
        BY <4>1 DEF Assigned
      <4>4. QED BY <2>1, <4>2, <4>3 DEF UpdateWhere
    <3>2. rows' = [rows EXCEPT !.users = UpdateWhere(@, {k.user}, set)]
          /\ Abstract!Says(c, "ok", 0) /\ k.op = "set_lockout"
      BY <1>2, <1>12, <2>1 DEF SqlSetLockout, UpdateUser
    <3>3. Abstract!SetLockoutCall(c, k)
      BY <1>1, <2>1, <3>1, <3>2 DEF Abstract!SetLockoutCall
    <3>4. QED BY <1>1, <3>3 DEF Abstract!RowCall
  <2>2. CASE k.user \notin DOMAIN rows.users
    BY <1>3, <1>12, <2>2 DEF SqlSetLockout, UpdateUser, Affects
  <2>3. QED BY <2>1, <2>2
<1>13. CASE SqlCreateToken(c)
  <2>1. CASE k.prefix \notin DOMAIN rows.tokens
    <3>1. k.op = "create_token" /\ rows' = [rows EXCEPT !.tokens = Put(@, k.prefix, TokenRow(k))]
          /\ Abstract!Says(c, "ok", 0)
      BY <1>2, <1>13, <2>1 DEF SqlCreateToken, InsertNew
    <3>2. Abstract!CreateTokenCall(c, k)
      BY <1>1, <2>1, <3>1, SamePut DEF TokenRow, Abstract!CreateTokenCall
    <3>3. QED BY <1>1, <3>2 DEF Abstract!RowCall
  <2>2. CASE ~(k.prefix \notin DOMAIN rows.tokens)
    BY <1>3, <1>13, <2>2 DEF SqlCreateToken, InsertNew, Affects
  <2>3. QED BY <2>1, <2>2
<1>14. CASE SqlRevokeToken(c)
  <2> DEFINE hit == OwnedToken(rows.tokens, k.prefix, k.username)
  <2>1. k.op = "revoke_token"
        /\ Affects(c, hit # {}, [rows EXCEPT !.tokens =
                                    UpdateWhere(@, hit, [revoked |-> TRUE])])
    BY <1>14 DEF SqlRevokeToken
  <2>2. CASE hit = {}
    BY <1>3, <2>1, <2>2 DEF Affects
  <2>3. CASE hit # {}
    <3>1. /\ k.prefix \in DOMAIN rows.tokens /\ hit = {k.prefix}
          /\ rows.tokens[k.prefix].username = k.username
      BY <2>3 DEF OwnedToken
    <3>2. rows' = [rows EXCEPT !.tokens = UpdateWhere(@, hit, [revoked |-> TRUE])]
          /\ Abstract!Says(c, "ok", 0)
      <4> HIDE DEF hit
      <4>1. QED BY <1>2, <2>1, <2>3
    <3>3. rows' = [rows EXCEPT !.tokens[k.prefix].revoked = TRUE]
      <4> HIDE DEF hit
      <4>1. UpdateWhere(rows.tokens, hit, [revoked |-> TRUE])
                = [rows.tokens EXCEPT ![k.prefix].revoked = TRUE]
        <5> DEFINE yes == TRUE
        <5> HIDE DEF yes
        <5>1. Assigned(rows.tokens[k.prefix], [revoked |-> yes])
                = [rows.tokens[k.prefix] EXCEPT !.revoked = yes]
          BY AssignRevoked
        <5>2. UpdateWhere(rows.tokens, hit, [revoked |-> yes])
                = [rows.tokens EXCEPT ![k.prefix].revoked = yes]
          BY <3>1, <5>1 DEF UpdateWhere
        <5>3. QED BY <5>2 DEF yes
      <4>2. QED BY <3>2, <4>1
    <3>4. Abstract!RevokeTokenCall(c, k)
      BY <1>1, <2>1, <3>1, <3>2, <3>3 DEF Abstract!RevokeTokenCall
    <3>5. QED BY <1>1, <3>4 DEF Abstract!RowCall
  <2>4. QED BY <2>2, <2>3
<1>15. CASE SqlTouchToken(c)
  <2>1. rows' = [rows EXCEPT !.tokens =
                    UpdateWhere(@, {k.prefix}, [last_used_at |-> now])]
        /\ Abstract!Says(c, "ok", 0) /\ k.op = "touch_token"
    BY <1>2, <1>15 DEF SqlTouchToken
  <2>2. UpdateWhere(rows.tokens, {k.prefix}, [last_used_at |-> now])
            = [p \in DOMAIN rows.tokens |->
                    IF p # k.prefix THEN rows.tokens[p]
                    ELSE [rows.tokens[p] EXCEPT !.last_used_at = now]]
    BY DEF UpdateWhere, Assigned
  <2>3. Abstract!TouchTokenCall(c, k)
    BY <1>1, <2>1, <2>2 DEF Abstract!TouchTokenCall
  <2>4. QED BY <1>1, <2>3 DEF Abstract!RowCall
<1>16. CASE SqlAssign(c)
  <2>1. /\ k.op = "assign" /\ Abstract!Says(c, "ok", 0)
        /\ rows' = [rows EXCEPT !.assignments = InsertNew(@, k.grant, now)]
    BY <1>2, <1>16 DEF SqlAssign
  <2>2. Abstract!AssignCall(c, k)
    BY <1>1, <2>1, SamePut DEF InsertNew, Abstract!AssignCall
  <2>3. QED BY <1>1, <2>2 DEF Abstract!RowCall
<1>17. CASE SqlUnassign(c)
  <2>1. CASE k.grant \in DOMAIN rows.assignments
    <3>1. k.op = "unassign" /\ rows' = [rows EXCEPT !.assignments = Drop(@, k.grant)]
          /\ Abstract!Says(c, "ok", 0)
      BY <1>2, <1>17, <2>1 DEF SqlUnassign
    <3>2. Abstract!UnassignCall(c, k)
      BY <1>1, <2>1, <3>1, SameDrop DEF Abstract!UnassignCall
    <3>3. QED BY <1>1, <3>2 DEF Abstract!RowCall
  <2>2. CASE ~(k.grant \in DOMAIN rows.assignments)
    BY <1>3, <1>17, <2>2 DEF SqlUnassign, Affects
  <2>3. QED BY <2>1, <2>2
<1>18. CASE SqlDeleteAllocation(c)
  <2>1. CASE <<k.pool, k.project>> \in DOMAIN rows.allocations
    <3>1. k.op = "delete_allocation" /\ rows' = [rows EXCEPT !.allocations =
                                            Drop(@, <<k.pool, k.project>>)]
          /\ Abstract!Says(c, "ok", 0)
      BY <1>2, <1>18, <2>1 DEF SqlDeleteAllocation
    <3>2. Abstract!DeleteAllocationCall(c, k)
      BY <1>1, <2>1, <3>1, SameDrop DEF Abstract!DeleteAllocationCall
    <3>3. QED BY <1>1, <3>2 DEF Abstract!RowCall
  <2>2. CASE ~(<<k.pool, k.project>> \in DOMAIN rows.allocations)
    BY <1>3, <1>18, <2>2 DEF SqlDeleteAllocation, Affects
  <2>3. QED BY <2>1, <2>2
<1>19. QED BY <1>4, <1>5, <1>6, <1>7, <1>8, <1>9, <1>10, <1>11, <1>12, <1>13,
              <1>14, <1>15, <1>16, <1>17, <1>18 DEF RowStatement

\* Every step of the SQL stores is a step of the atomic store, or none.
LEMMA StepRefines ==
    TxInv /\ TrailOK /\ [SqlNext]_svars => [Abstract!AtomicNext]_(Abstract!avars)
<1> SUFFICES ASSUME TxInv, TrailOK, [SqlNext]_svars
             PROVE  [Abstract!AtomicNext]_(Abstract!avars)
  OBVIOUS
<1>1. ASSUME NEW c \in Callers, CallStep(c)
      PROVE  \/ \E k \in Calls : Abstract!AtomicCall(c, k)
             \/ Abstract!FailedCall(c)
             \/ UNCHANGED Abstract!avars
  <2>1. CASE Acquire(c) \/ ReadCluster(c) \/ ReadTail(c) \/ ReadPool(c)
    BY <2>1 DEF Acquire, ReadCluster, ReadTail, ReadPool, tables, Abstract!avars,
                Events
  <2>2. CASE WriteCluster(c)
    BY <2>2, WriteClusterRefines DEF Abstract!AtomicCall
  <2>3. CASE InsertIntent(c)
    BY <2>3, BeginRefines DEF Abstract!AtomicCall
  <2>4. CASE ReadIntent(c)
    <3>1. CASE call[c].req.key \in DOMAIN intents
      BY <2>4, <3>1, BeginRefines DEF Abstract!AtomicCall
    <3>2. CASE call[c].req.key \notin DOMAIN intents
      BY <2>4, <3>2 DEF ReadIntent, tables, Abstract!avars, Events
    <3>3. QED BY <3>1, <3>2
  <2>5. CASE InsertAudit(c)
    BY <2>5, AuditRefines DEF Abstract!AtomicCall
  <2>6. CASE \/ SqlSetDesired(c) \/ SqlRemove(c) \/ SqlObserve(c)
             \/ SqlCondition(c) \/ SqlAttempt(c) \/ SqlComplete(c)
             \/ SqlReap(c) \/ SqlQuarantine(c) \/ InsertSamples(c)
    BY <2>6, StatementRefines
  <2>7. CASE WritePool(c)
    BY <2>7, WritePoolRefines DEF Abstract!AtomicCall
  <2>8. CASE SqlDeletePool(c) \/ SqlObservePool(c)
    BY <2>8, PoolStatementRefines
  <2>9. CASE RowStatement(c)
    BY <2>9, RowStatementRefines DEF Abstract!AtomicCall
  <2>10. QED
    BY <1>1, <2>1, <2>2, <2>3, <2>4, <2>5, <2>6, <2>7, <2>8, <2>9 DEF CallStep
<1>2. ASSUME NEW c \in Callers, CallStep(c)
      PROVE  [Abstract!AtomicNext]_(Abstract!avars)
  BY <1>1, <1>2 DEF Abstract!AtomicNext
<1>3. ASSUME NEW c \in Callers, Start(c) PROVE UNCHANGED Abstract!avars
  BY <1>3 DEF Start, tables, Abstract!avars, Events
<1>4. ASSUME NEW c \in Callers, Fails(c) PROVE Abstract!AtomicNext
  <2>1. Abstract!FailedCall(c)
    BY <1>4 DEF Fails, Finish, Says, Abstract!FailedCall, Abstract!Says, tables, Events
  <2>2. QED BY <2>1 DEF Abstract!AtomicNext
<1>5. ASSUME NEW c \in Callers, TimesOut(c) PROVE Abstract!AtomicNext
  <2>1. Abstract!FailedCall(c)
    BY <1>5, SameSays DEF TimesOut, Finish, Abstract!FailedCall, tables, Events
  <2>2. QED BY <2>1 DEF Abstract!AtomicNext
<1>6. ASSUME NEW c \in Callers, LeavesOpen(c) PROVE Abstract!AtomicNext
  <2>1. Abstract!StrandedCall(c)
    BY <1>6, SameSays DEF LeavesOpen, Finish, Abstract!StrandedCall, tables, Events
  <2>2. QED BY <2>1 DEF Abstract!AtomicNext
<1>7. ASSUME NEW c \in Callers, LostWrite(c) PROVE Abstract!AtomicNext
  <2>1. PICK a \in {<<"ok", 0>>, <<"ok", 1>>, <<"error", 0>>} : Says(c, a[1], a[2])
    BY <1>7 DEF LostWrite, Finish
  <2>2. Abstract!Says(c, a[1], a[2])
    BY <2>1, SameSays
  <2>3. stranded /\ UNCHANGED << Abstract!db, tables, now >>
    BY <1>7 DEF LostWrite
  <2>4. Abstract!LostCall(c)
    BY <2>2, <2>3 DEF Abstract!LostCall, tables, Events
  <2>5. QED BY <2>4 DEF Abstract!AtomicNext
<1>8. ASSUME NEW c \in Callers, ReadLostTail(c) PROVE UNCHANGED Abstract!avars
  BY <1>8 DEF ReadLostTail, tables, Abstract!avars, Events
<1>9. CASE ConnectionCloses \/ Crash
  <2>1. Abstract!ConnectionCloses
    BY <1>9 DEF ConnectionCloses, Crash, Abstract!ConnectionCloses, tables, Events
  <2>2. QED BY <2>1 DEF Abstract!AtomicNext
<1>10. CASE BackfillAuditChain
  BY <1>10, BackfillRefines
<1>11. CASE Connected \/ UNCHANGED svars
  BY <1>11 DEF Connected, svars, tables, Abstract!avars, Events
<1>12. CASE SecondPasses
  BY <1>12 DEF SecondPasses, Abstract!SecondPasses, Abstract!AtomicNext, tables, Events
<1>13. QED BY <1>2, <1>3, <1>4, <1>5, <1>6, <1>7, <1>8, <1>9, <1>10, <1>11, <1>12
  DEF SqlNext

\* A fresh database is a fresh atomic store.
LEMMA InitRefines == SqlInit => Abstract!AtomicInit
BY TrailInit DEF SqlInit, Abstract!AtomicInit, EmptyTable, Abstract!EmptyTable

\* Whatever the calls, the callers, the collisions of the lock hash and the
\* crashes, both SQL stores behave as a store whose calls are atomic.
THEOREM SqlRefinesAtomic == SqlSpec => ImplementsStore
<1>1. SqlInit => Abstract!AtomicInit
  BY InitRefines
<1>2. TxInv /\ TrailOK /\ [SqlNext]_svars => [Abstract!AtomicNext]_(Abstract!avars)
  BY StepRefines
<1>3. QED BY <1>1, <1>2, ReadsStayTrue, PTL
    DEF SqlSpec, ImplementsStore, Abstract!AtomicSpec

-----------------------------------------------------------------------------
(* The hash chain.                                                         *)

\* Hashing on gives a hash.
LEMMA HashGrows ==
    ASSUME NEW h, IsHash(h), NEW e
    PROVE  IsHash(AuditChainHash(h, e)) /\ AuditChainHash(h, e) # Unchained
<1> DEFINE S == {h[i] : i \in DOMAIN h}
           g == Append(h, e)
<1>1. h \in Seq(S \cup {e}) /\ Len(h) \in Nat
  BY DEF IsHash
<1>2. g \in Seq(S \cup {e}) /\ Len(g) = Len(h) + 1
  BY <1>1
<1>3. g # << >>
  BY <1>1, <1>2
<1>4. DOMAIN g = 1 .. Len(g) /\ Len(g) \in Nat
  BY <1>1, <1>2
<1> HIDE DEF g
<1>5. g = [i \in DOMAIN g |-> g[i]]
  BY <1>2
<1>6. g \in [1 .. Len(g) -> {g[i] : i \in DOMAIN g}]
  BY <1>4, <1>5
<1>7. QED BY <1>3, <1>4, <1>6, SegmentSeq DEF IsHash, AuditChainHash, Unchained, g

\* So is the tail of a trail whose rows all have one.
LEMMA TailIsHash ==
    ASSUME TrailOK, ChainKept, phase = "serving"
    PROVE  IsHash(TailHash)
<1>1. CASE trail = << >>
  <2>1. << "genesis" >> \in [1 .. 1 -> {"genesis"}] /\ << "genesis" >> # << >>
    OBVIOUS
  <2>2. {<< "genesis" >>[i] : i \in DOMAIN << "genesis" >>} = {"genesis"}
    OBVIOUS
  <2>3. QED BY <1>1, <2>1, <2>2 DEF IsHash, TailHash, GenesisHash
<1>2. CASE trail # << >>
  <2>1. Len(trail) \in DOMAIN trail
    BY <1>2 DEF TrailOK
  <2>2. QED BY <1>2, <2>1 DEF ChainKept, TailHash
<1>3. QED BY <1>1, <1>2

\* What the step of a call does to the calls: a new call starts only while the
\* store serves, and only a read of the tail sets an append to write.
LEMMA CallMoves ==
    ASSUME DOMAIN call = Callers, NEW c \in Callers,
           Start(c) \/ CallStep(c) \/ Fails(c) \/ TimesOut(c), ~InsertAudit(c)
    PROVE  /\ UNCHANGED << trail, phase >>
           /\ phase = "serving" \/ call[c].pc # "idle"
           /\ \A d \in Callers \ {c} : call'[d] = call[d]
           /\ call'[c].pc = "read" /\ call'[c].req.op = "audit" =>
                call'[c].seen = TailHash
<1> DEFINE Stands == UNCHANGED << trail, phase >>
           Moved == /\ Stands
                    /\ phase = "serving" \/ call[c].pc # "idle"
                    /\ \A d \in Callers \ {c} : call'[d] = call[d]
                    /\ call'[c].pc = "read" /\ call'[c].req.op = "audit" =>
                         call'[c].seen = TailHash
<1>1. ASSUME call' = [call EXCEPT ![c] = NoCall], Stands, call[c].pc # "idle"
      PROVE  Moved
  <2>1. call'[c].pc # "read"
    BY <1>1 DEF NoCall
  <2>2. QED BY <1>1, <2>1
<1>2. ASSUME NEW p, NEW k, NEW seen, call' = [call EXCEPT ![c] = InCall(p, k, seen)],
             p = "read" /\ k.op = "audit" => seen = TailHash,
             Stands, phase = "serving" \/ call[c].pc # "idle"
      PROVE  Moved
  <2>1. call'[c] = InCall(p, k, seen)
    BY <1>2
  <2>2. call'[c].pc = p /\ call'[c].req = k /\ call'[c].seen = seen
    BY <2>1, InCallFields
  <2>3. QED BY <1>2, <2>2
<1> SUFFICES Moved
  OBVIOUS
<1> HIDE DEF Moved
<1>3. CASE Start(c)
  <2>1. PICK k \in Calls : call' = [call EXCEPT ![c] =
                  InCall(IF Transacted(k) THEN "wait" ELSE "locked", k, Missing)]
    BY <1>3 DEF Start
  <2>2. (IF Transacted(k) THEN "wait" ELSE "locked") # "read"
    OBVIOUS
  <2>3. Stands /\ phase = "serving"
    BY <1>3 DEF Start, tables
  <2>4. QED BY <1>2, <2>1, <2>2, <2>3
<1>4. CASE Fails(c) \/ TimesOut(c)
  BY <1>1, <1>4 DEF Fails, TimesOut, Blocked, Finish, tables
<1>5. CASE Acquire(c)
  BY <1>2, <1>5 DEF Acquire, tables
<1>6. CASE ReadTail(c)
  BY <1>2, <1>6 DEF ReadTail, tables, At
<1>7. CASE ReadCluster(c) \/ ReadPool(c)
  <2>1. PICK seen : call' = [call EXCEPT ![c] = InCall("read", call[c].req, seen)]
    BY <1>7 DEF ReadCluster, ReadPool
  <2>2. Stands
    BY <1>7 DEF ReadCluster, ReadPool, tables
  <2>3. call[c].pc # "idle" /\ call[c].req.op # "audit"
    BY <1>7 DEF ReadCluster, ReadPool, At
  <2>4. QED BY <1>2, <2>1, <2>2, <2>3
<1>8. CASE ReadIntent(c)
  <2>1. \/ call' = [call EXCEPT ![c] = NoCall]
        \/ call' = [call EXCEPT ![c] = InCall("read", call[c].req, Missing)]
    BY <1>8 DEF ReadIntent, Finish
  <2>2. Stands
    BY <1>8 DEF ReadIntent, tables
  <2>3. call[c].pc # "idle" /\ call[c].req.op # "audit"
    BY <1>8 DEF ReadIntent, At
  <2>4. CASE call' = [call EXCEPT ![c] = NoCall]
    BY <1>1, <2>2, <2>3, <2>4
  <2>5. QED BY <1>2, <2>1, <2>2, <2>3, <2>4
<1>9. CASE WriteCluster(c) \/ InsertIntent(c) \/ InsertSamples(c)
  BY <1>1, <1>9 DEF WriteCluster, InsertIntent, InsertSamples, Finish, At
<1>10. CASE SqlSetDesired(c) \/ SqlRemove(c)
  BY <1>1, <1>10 DEF SqlSetDesired, SqlRemove, ClustersOnly, Finish, Runs, At
<1>11. CASE SqlObserve(c) \/ SqlCondition(c) \/ SqlAttempt(c)
  BY <1>1, <1>11 DEF SqlObserve, SqlCondition, SqlAttempt, ClustersOnly, Finish,
     Runs, At
<1>12. CASE SqlComplete(c) \/ SqlReap(c) \/ SqlQuarantine(c)
  BY <1>1, <1>12 DEF SqlComplete, SqlReap, SqlQuarantine, IntentsOnly, Finish,
     Runs, At
<1>13. CASE WritePool(c) \/ SqlDeletePool(c) \/ SqlObservePool(c)
  BY <1>1, <1>13 DEF WritePool, SqlDeletePool, SqlObservePool, PoolsOnly, Finish,
     Runs, At
<1>14. CASE RowStatement(c)
  <2>1. PICK kind, n : Finish(c, kind, n)
    BY <1>14, RowStatementQuiet
  <2>2. RowsOnly /\ call[c].pc = "locked"
    BY <1>14, RowStatementQuiet
  <2>3. QED BY <1>1, <2>1, <2>2 DEF RowsOnly, Finish
<1>15. QED
  BY <1>3, <1>4, <1>5, <1>6, <1>7, <1>8, <1>9, <1>10, <1>11, <1>12, <1>13, <1>14
     DEF CallStep

\* While the trail and the phase stand, so does the invariant.
LEMMA ChainFrame ==
    ASSUME ChainKept, UNCHANGED << trail, phase >>,
           \A c \in Callers :
              /\ call'[c].pc # "idle" => phase = "serving"
              /\ At(c, "read", "audit")' => call'[c].seen = TailHash
    PROVE  ChainKept'
<1>1. TailHash' = TailHash
  BY DEF TailHash
<1>2. QED BY <1>1 DEF ChainKept, Chained

\* The chain is kept while every COMMIT succeeds.
LEMMA ChainKeptStep ==
    ASSUME TxInv, TrailOK, ChainKept, ~stranded, ~strandedOnce', [SqlNext]_svars
    PROVE  ChainKept'
<1>0. DOMAIN call = Callers /\ DOMAIN trail = 1 .. Len(trail) /\ Len(trail) \in Nat
  BY DEF TxInv, TrailOK
<1>1. ASSUME NEW c \in Callers, Start(c) \/ CallStep(c) \/ Fails(c) \/ TimesOut(c),
             ~InsertAudit(c)
      PROVE  ChainKept'
  <2>1. phase = "serving"
    BY <1>0, <1>1, CallMoves DEF ChainKept
  <2>2. UNCHANGED << trail, phase >>
    BY <1>0, <1>1, CallMoves
  <2>3. ASSUME NEW d \in Callers, At(d, "read", "audit")'
        PROVE  call'[d].seen = TailHash
    <3>1. CASE d = c
      BY <1>0, <1>1, <2>3, <3>1, CallMoves DEF At
    <3>2. CASE d # c
      BY <1>0, <1>1, <2>3, <3>2, CallMoves DEF At, ChainKept
    <3>3. QED BY <3>1, <3>2
  <2>4. QED BY <2>1, <2>2, <2>3, ChainFrame
<1>2. ASSUME NEW c \in Callers, InsertAudit(c) PROVE ChainKept'
  <2> DEFINE n == Len(trail) + 1
             e == call[c].req.event
             r == [event |-> e, chain_hash |-> AuditChainHash(TailHash, e)]
  <2>1. At(c, "read", "audit") /\ phase = "serving" /\ call[c].seen = TailHash
    BY <1>2 DEF InsertAudit, ChainKept, At
  <2>2. trail' = Append(trail, r) /\ phase' = phase
        /\ call' = [call EXCEPT ![c] = NoCall]
    BY <1>2, <2>1 DEF InsertAudit, Finish
  <2>3. /\ DOMAIN trail' = 1 .. n /\ Len(trail') = n /\ trail' # << >>
        /\ trail'[n] = r /\ \A i \in 1 .. Len(trail) : trail'[i] = trail[i]
    BY <1>0, <2>2, SMTT(30) DEF TrailOK
  <2>4. r.chain_hash # Unchained /\ IsHash(r.chain_hash)
    BY <2>1, TailIsHash, HashGrows
  <2>5. Chained(trail', n)
    <3>1. CASE trail = << >>
      BY <2>3, <3>1 DEF Chained, TailHash
    <3>2. CASE trail # << >>
      <4>1. n # 1 /\ n - 1 = Len(trail) /\ Len(trail) \in 1 .. Len(trail)
        BY <1>0, <3>2 DEF TrailOK
      <4>2. QED BY <2>3, <3>2, <4>1 DEF Chained, TailHash
    <3>3. QED BY <3>1, <3>2
  <2>6. ASSUME NEW i \in DOMAIN trail'
        PROVE  /\ trail'[i].chain_hash # Unchained /\ IsHash(trail'[i].chain_hash)
               /\ Chained(trail', i)
    <3>1. CASE i = n
      BY <2>3, <2>4, <2>5, <3>1
    <3>2. CASE i # n
      <4>1. i \in 1 .. Len(trail) /\ (i # 1 => i - 1 \in 1 .. Len(trail))
        BY <1>0, <2>3, <3>2
      <4>2. /\ trail[i].chain_hash # Unchained /\ IsHash(trail[i].chain_hash)
            /\ Chained(trail, i)
        BY <1>0, <2>1, <4>1 DEF ChainKept
      <4>3. QED BY <2>3, <4>1, <4>2 DEF Chained
    <3>3. QED BY <3>1, <3>2
  <2>7. \A i \in DOMAIN trail' : \A j \in 1 .. i - 1 : j \in DOMAIN trail'
    BY <1>0, <2>3
  <2>8. ASSUME NEW d \in Callers, At(d, "read", "audit")'
        PROVE  FALSE
    <3>1. d # c /\ At(d, "read", "audit")
      BY <1>0, <2>2, <2>8 DEF At, NoCall
    <3>2. LocksOf(call[c].req) \cap LocksOf(call[d].req) = {}
      BY <2>1, <3>1, Alone DEF At
    <3>3. QED
      BY <2>1, <3>1, <3>2 DEF At, LocksOf, Transacted, SqliteLock, PostgresLock
  <2>9. QED BY <2>1, <2>2, <2>6, <2>7, <2>8 DEF ChainKept
<1>3. CASE BackfillAuditChain
  <2>1. PICK i \in DOMAIN trail :
          /\ trail[i].chain_hash = Unchained
          /\ \A j \in 1 .. i - 1 : trail[j].chain_hash # Unchained
          /\ trail' = [trail EXCEPT ![i].chain_hash =
                AuditChainHash(IF i = 1 THEN GenesisHash
                               ELSE trail[i - 1].chain_hash, trail[i].event)]
    BY <1>3 DEF BackfillAuditChain
  <2> DEFINE prev == IF i = 1 THEN GenesisHash ELSE trail[i - 1].chain_hash
  <2>2. phase = "boot" /\ phase' = "boot" /\ call' = call
    BY <1>3 DEF BackfillAuditChain
  <2>3. /\ DOMAIN trail' = DOMAIN trail
        /\ trail'[i].event = trail[i].event
        /\ trail'[i].chain_hash = AuditChainHash(prev, trail[i].event)
        /\ \A j \in DOMAIN trail : j # i => trail'[j] = trail[j]
    BY <2>1 DEF TrailOK
  <2>4. IsHash(prev)
    <3>1. CASE i = 1
      <4>1. << "genesis" >> \in [1 .. 1 -> {"genesis"}] /\ << "genesis" >> # << >>
        OBVIOUS
      <4>2. {<< "genesis" >>[j] : j \in DOMAIN << "genesis" >>} = {"genesis"}
        OBVIOUS
      <4>3. QED BY <3>1, <4>1, <4>2 DEF IsHash, GenesisHash
    <3>2. CASE i # 1
      <4>1. i - 1 \in DOMAIN trail /\ i - 1 \in 1 .. i - 1
        BY <1>0, <3>2
      <4>2. QED BY <2>1, <3>2, <4>1 DEF ChainKept
    <3>3. QED BY <3>1, <3>2
  <2>5. IsHash(trail'[i].chain_hash) /\ trail'[i].chain_hash # Unchained
    BY <2>3, <2>4, HashGrows
  <2>6. \A j \in DOMAIN trail : j < i => trail'[j] = trail[j]
    BY <1>0, <2>3
  <2>7. Chained(trail', i)
    <3>1. CASE i = 1
      BY <2>3, <3>1 DEF Chained
    <3>2. CASE i # 1
      <4>1. i - 1 \in DOMAIN trail /\ i - 1 # i
        BY <1>0, <3>2
      <4>2. QED BY <2>3, <3>2, <4>1 DEF Chained
    <3>3. QED BY <3>1, <3>2
  <2>8. ASSUME NEW j \in DOMAIN trail', trail'[j].chain_hash # Unchained
        PROVE  /\ IsHash(trail'[j].chain_hash) /\ Chained(trail', j)
               /\ \A k \in 1 .. j - 1 : trail'[k].chain_hash # Unchained
    <3>1. CASE j = i
      <4>1. \A k \in 1 .. i - 1 : k \in DOMAIN trail /\ k < i
        BY <1>0
      <4>2. QED BY <2>1, <2>5, <2>6, <2>7, <3>1, <4>1
    <3>2. CASE j # i
      <4>1. j \in DOMAIN trail /\ trail'[j] = trail[j]
        BY <2>3, <2>8, <3>2
      <4>2. /\ IsHash(trail[j].chain_hash) /\ Chained(trail, j)
            /\ \A k \in 1 .. j - 1 : trail[k].chain_hash # Unchained
        BY <2>8, <4>1 DEF ChainKept
      <4>3. j < i
        <5>1. i \notin 1 .. j - 1
          BY <2>1, <4>2
        <5>2. QED BY <1>0, <3>2, <4>1, <5>1
      <4>4. \A k \in 1 .. j - 1 : k \in DOMAIN trail /\ k # i
        BY <1>0, <4>1, <4>3
      <4>5. \A k \in 1 .. j - 1 : trail'[k] = trail[k]
        BY <2>3, <4>4
      <4>6. j # 1 => j - 1 \in 1 .. j - 1
        BY <1>0, <4>1
      <4>7. QED BY <4>1, <4>2, <4>5, <4>6 DEF Chained
    <3>3. QED BY <3>1, <3>2
  <2>9. \A c \in Callers : call'[c].pc = "idle"
    BY <2>2 DEF ChainKept
  <2>10. QED BY <2>2, <2>8, <2>9 DEF ChainKept, At
<1>4. CASE Connected
  <2>1. /\ phase = "boot" /\ phase' = "serving" /\ UNCHANGED << trail, call >>
        /\ \A i \in DOMAIN trail : trail[i].chain_hash # Unchained
    BY <1>4 DEF Connected, tables
  <2>2. QED BY <2>1 DEF ChainKept, Chained, At
<1>5. CASE Crash
  <2>1. /\ phase' = "boot" /\ UNCHANGED trail
        /\ \A c \in Callers : call'[c].pc = "idle"
    BY <1>5 DEF Crash, tables, NoCall
  <2>2. QED BY <2>1 DEF ChainKept, Chained, At
<1>6. CASE SecondPasses \/ UNCHANGED svars
  <2>1. UNCHANGED << trail, phase, call >>
    BY <1>6 DEF SecondPasses, svars, tables
  <2>2. QED BY <2>1, ChainFrame DEF ChainKept, At
<1>7. /\ ~ConnectionCloses
      /\ \A c \in Callers : ~LeavesOpen(c) /\ ~LostWrite(c) /\ ~ReadLostTail(c)
  BY DEF ConnectionCloses, LeavesOpen, LostWrite, ReadLostTail
<1>8. QED BY <1>1, <1>2, <1>3, <1>4, <1>5, <1>6, <1>7 DEF SqlNext

\* A transaction is left open only by a COMMIT that fails, and that is
\* remembered.
LEMMA StrandedMoves ==
    ASSUME [SqlNext]_svars
    PROVE  \/ stranded' = stranded /\ strandedOnce' = strandedOnce
           \/ stranded' = TRUE /\ strandedOnce' = TRUE
           \/ stranded' = FALSE /\ strandedOnce' = strandedOnce
<1>1. ASSUME NEW c \in Callers, CallStep(c) PROVE UNCHANGED db
  BY <1>1, RowStatementQuiet DEF CallStep, Acquire, ReadCluster, WriteCluster,
     ReadIntent, InsertIntent, InsertSamples, ReadTail, InsertAudit, SqlSetDesired,
     SqlRemove, SqlObserve, SqlCondition, SqlAttempt, SqlComplete, SqlReap,
     SqlQuarantine, ClustersOnly, IntentsOnly, ReadPool, WritePool, SqlDeletePool,
     SqlObservePool, PoolsOnly, RowsOnly
<1>2. ASSUME NEW c \in Callers,
             \/ Start(c) \/ Fails(c) \/ TimesOut(c) \/ LostWrite(c) \/ ReadLostTail(c)
      PROVE  UNCHANGED db
  BY <1>2 DEF Start, Fails, TimesOut, LostWrite, ReadLostTail
<1>3. ASSUME NEW c \in Callers, LeavesOpen(c)
      PROVE  stranded' = TRUE /\ strandedOnce' = TRUE
  BY <1>3 DEF LeavesOpen
<1>4. CASE ConnectionCloses \/ Crash
  BY <1>4 DEF ConnectionCloses, Crash
<1>5. CASE BackfillAuditChain \/ Connected \/ SecondPasses \/ UNCHANGED svars
  BY <1>5 DEF BackfillAuditChain, Connected, SecondPasses, svars
<1>6. QED BY <1>1, <1>2, <1>3, <1>4, <1>5 DEF SqlNext

\* The chain invariant is kept.
LEMMA ChainStep ==
    ASSUME TxInv, TrailOK, ChainInv, [SqlNext]_svars
    PROVE  ChainInv'
<1>1. stranded' => strandedOnce'
  BY StrandedMoves DEF ChainInv
<1>2. ASSUME ~strandedOnce' PROVE ChainKept'
  <2>1. ~strandedOnce
    BY <1>2, StrandedMoves
  <2>2. ~stranded /\ ChainKept
    BY <2>1 DEF ChainInv
  <2>3. QED BY <1>2, <2>2, ChainKeptStep
<1>3. QED BY <1>1, <1>2 DEF ChainInv

\* record_audit and backfill_audit_chain: the whole trail replays whenever the
\* store serves, for any number of callers, any old rows, any hash of the lock
\* keys, and through boots cut short anywhere, until a COMMIT fails on SQLite and
\* leaves its transaction open.
THEOREM TrailReplays == SqlSpec => []TrailChained
<1>1. SqlInit => ChainInv
  <2>1. SUFFICES ASSUME SqlInit PROVE ChainInv
    OBVIOUS
  <2>2. phase = "boot" /\ \A c \in Callers : call[c].pc = "idle"
    BY <2>1 DEF SqlInit, NoCall
  <2>3. \A i \in DOMAIN trail : trail[i].chain_hash = Unchained
    BY <2>1 DEF SqlInit
  <2>4. ChainKept
    BY <2>2, <2>3 DEF ChainKept, At
  <2>5. QED BY <2>1, <2>4 DEF ChainInv, SqlInit
<1>2. TxInv /\ TrailOK /\ ChainInv /\ [SqlNext]_svars => ChainInv'
  BY ChainStep
<1>3. TrailOK /\ ChainInv => TrailChained
  <2>1. SUFFICES ASSUME TrailOK, ChainKept, phase = "serving"
                 PROVE  FirstBroken(GenesisHash, trail) = 0
    BY DEF TrailChained, ChainInv
  <2>2. \A i \in DOMAIN trail : Chained(trail, i)
    BY <2>1 DEF ChainKept
  <2>3. QED BY <2>2 DEF FirstBroken, Chained
<1>4. QED BY <1>1, <1>2, <1>3, ReadsStayTrue, PTL DEF SqlSpec
=============================================================================
