----------------------------- MODULE PoolProofs -----------------------------
(***************************************************************************)
(* What the pool loop guarantees, for any pools, projects, specs, clients  *)
(* and workloads: types, that a quarantined pass leaves Kueue alone, and   *)
(* that no object is lost track of unnoticed.                              *)
(***************************************************************************)
EXTENDS PoolReconcile, FiniteSetTheorems, TLAPS

-----------------------------------------------------------------------------
(* Tables.                                                                 *)

\* Inserting a well-typed row keeps a table well typed.
LEMMA PutType ==
    ASSUME NEW K, NEW V, NEW t, IsTable(t, K, V), NEW k \in K, NEW v \in V
    PROVE  IsTable(Put(t, k, v), K, V)
BY DEF IsTable, Put

\* Deleting a row keeps a table well typed.
LEMMA DropType ==
    ASSUME NEW K, NEW V, NEW t, IsTable(t, K, V), NEW k
    PROVE  IsTable(Drop(t, k), K, V)
BY DEF IsTable, Drop

\* The empty table is a table of any type.
LEMMA EmptyType == ASSUME NEW K, NEW V PROVE IsTable(EmptyTable, K, V)
BY DEF IsTable, EmptyTable

-----------------------------------------------------------------------------
(* The objects of a pool.                                                  *)

\* SetToSeq lists the elements of a finite set.
LEMMA SetToSeqElements ==
    ASSUME NEW S, IsFiniteSet(S)
    PROVE  SetToSeq(S) \in Seq(S)
<1>1. Cardinality(S) \in Nat /\ ExistsBijection(1 .. Cardinality(S), S)
  BY FS_CardinalityType
<1>2. PICK f \in Bijection(1 .. Cardinality(S), S) : TRUE
  BY <1>1 DEF ExistsBijection
<1>3. f \in [1 .. Cardinality(S) -> S] /\ IsInjective(f)
  BY <1>2 DEF Bijection, Injection, IsInjective
<1>4. SetToSeq(S) \in [1 .. Cardinality(S) -> S]
  BY <1>3 DEF SetToSeq
<1>5. QED BY <1>1, <1>4

\* There are finitely many LocalQueues to make.
LEMMA LocalQueuesFinite ==
    ASSUME NEW p, NEW a, IsTable(a, Projects, Allocations)
    PROVE  IsFiniteSet({ToLocalQueue(p, q, a[q]) : q \in DOMAIN a})
<1> DEFINE S == {ToLocalQueue(p, q, a[q]) : q \in DOMAIN a}
           f == [q \in DOMAIN a |-> ToLocalQueue(p, q, a[q])]
<1>1. IsFiniteSet(DOMAIN a)
  BY PoolAssumption, FS_Subset DEF IsTable
<1>2. f \in Surjection(DOMAIN a, S)
  BY DEF Surjection
<1>3. QED BY <1>1, <1>2, FS_Surjection

\* A sequence is one of its own elements.
LEMMA OwnElements ==
    ASSUME NEW S, NEW q \in Seq(S)
    PROVE  q \in Seq({q[i] : i \in DOMAIN q})
OBVIOUS

\* What follows the first of several elements.
LEMMA TailOf ==
    ASSUME NEW S, NEW q \in Seq(S), Len(q) > 1
    PROVE  /\ Tail(q) \in Seq({Tail(q)[i] : i \in DOMAIN Tail(q)})
           /\ Tail(q) # << >>
           /\ \A i \in DOMAIN Tail(q) :
                i + 1 \in DOMAIN q /\ Tail(q)[i] = q[i + 1]
<1>1. /\ Tail(q) \in Seq(S) /\ Len(Tail(q)) = Len(q) - 1
      /\ \A i \in 1 .. Len(q) - 1 : Tail(q)[i] = q[i + 1]
  OBVIOUS
<1>2. DOMAIN Tail(q) = 1 .. Len(q) - 1 /\ DOMAIN q = 1 .. Len(q) /\ Len(q) \in Nat
  BY <1>1
<1>3. Tail(q) \in Seq({Tail(q)[i] : i \in DOMAIN Tail(q)})
  BY <1>1, OwnElements
<1>4. QED BY <1>1, <1>2, <1>3

\* to_kueue: the manifests of a pool are a sequence with at least the Cohort
\* in it, and every one carries the pool's label.
LEMMA ManifestsOfPool ==
    ASSUME NEW p, NEW s \in Specs, NEW a, IsTable(a, Projects, Allocations),
           NEW m, m = Manifests(p, s, a)
    PROVE  /\ m \in Seq({m[i] : i \in DOMAIN m})
           /\ m # << >>
           /\ \A i \in DOMAIN m : m[i].pool = p
<1> DEFINE Q == {ToLocalQueue(p, q, a[q]) : q \in DOMAIN a}
           F == {ToResourceFlavor(p, s.flavors[i]) : i \in DOMAIN s.flavors}
           O == {ToCohort(p, s), ToClusterQueue(p, s)} \cup F \cup Q
           fl == [i \in DOMAIN s.flavors |-> ToResourceFlavor(p, s.flavors[i])]
<1>1. /\ <<ToCohort(p, s)>> \in Seq(O) /\ Len(<<ToCohort(p, s)>>) = 1
      /\ <<ToClusterQueue(p, s)>> \in Seq(O)
  OBVIOUS
<1>2. fl \in Seq(O)
  <2>1. s.flavors \in Seq({s.flavors[i] : i \in DOMAIN s.flavors})
    BY PoolAssumption
  <2>2. Len(s.flavors) \in Nat /\ DOMAIN s.flavors = 1 .. Len(s.flavors)
    BY <2>1
  <2>3. QED BY <2>2
<1>3. SetToSeq(Q) \in Seq(O)
  <2>1. SetToSeq(Q) \in Seq(Q)
    BY LocalQueuesFinite, SetToSeqElements
  <2>2. QED BY <2>1
<1>4. \A o \in O : o.pool = p
  <2>1. ToCohort(p, s).pool = p /\ ToClusterQueue(p, s).pool = p
    BY DEF ToCohort, ToClusterQueue, Object
  <2>2. \A i \in DOMAIN s.flavors : ToResourceFlavor(p, s.flavors[i]).pool = p
    BY DEF ToResourceFlavor, Object
  <2>3. \A q \in DOMAIN a : ToLocalQueue(p, q, a[q]).pool = p
    BY DEF ToLocalQueue, Object
  <2>4. QED BY <2>1, <2>2, <2>3
<1>5. m = <<ToCohort(p, s)>> \o fl \o <<ToClusterQueue(p, s)>> \o SetToSeq(Q)
  BY DEF Manifests
<1> HIDE DEF O, fl, Q, F
<1>6. <<ToCohort(p, s)>> \o fl \in Seq(O) /\ Len(<<ToCohort(p, s)>> \o fl) >= 1
  BY <1>1, <1>2
<1>7. /\ <<ToCohort(p, s)>> \o fl \o <<ToClusterQueue(p, s)>> \in Seq(O)
      /\ Len(<<ToCohort(p, s)>> \o fl \o <<ToClusterQueue(p, s)>>) >= 1
  BY <1>1, <1>6
<1>8. m \in Seq(O) /\ Len(m) >= 1
  BY <1>3, <1>5, <1>7
<1>9. QED BY <1>4, <1>8

\* total_nominal leaves out exactly the resources with a quantity that does not
\* parse, so it is total where the API's validation passed.
LEMMA TotalsCover ==
    ASSUME NEW p, NEW s
    PROVE  DOMAIN TotalNominal(s) = ToClusterQueue(p, s).body.covered
           <=> ValidQuantities(s)
<1>1. DOMAIN TotalNominal(s) = Resources(s) \ Unparseable(s)
  BY DEF TotalNominal
<1>2. ToClusterQueue(p, s).body.covered = Resources(s)
  BY DEF ToClusterQueue, Object
<1>3. Unparseable(s) \subseteq Resources(s)
      /\ (Unparseable(s) = {} <=> ValidQuantities(s))
  BY DEF Unparseable, ValidQuantities
<1>4. QED BY <1>1, <1>2, <1>3

-----------------------------------------------------------------------------
(* Rows.                                                                   *)

\* upsert_pool inserts a well-typed row with the spec it is given.
LEMMA UpsertPoolType ==
    ASSUME NEW t, IsTable(t, PoolNames, PoolRow), NEW p \in PoolNames,
           NEW s \in Specs
    PROVE  \E r \in PoolRow : r.spec = s /\ UpsertPool(t, p, s) = Put(t, p, r)
<1> DEFINE r == IF p \notin DOMAIN t
                THEN [spec |-> s, generation |-> 1, observed |-> NoObservation]
                ELSE [t[p] EXCEPT
                        !.spec = s,
                        !.generation = IF s = t[p].spec THEN @ ELSE @ + 1]
<1> HIDE DEF r
<1>1. r \in PoolRow /\ r.spec = s
  <2>1. CASE p \notin DOMAIN t
    <3>1. r = [spec |-> s, generation |-> 1, observed |-> NoObservation]
      BY <2>1 DEF r
    <3>2. QED BY <3>1 DEF PoolRow
  <2>2. CASE p \in DOMAIN t
    <3>1. t[p] \in PoolRow
      BY <2>2 DEF IsTable
    <3>2. r = [t[p] EXCEPT !.spec = s,
                   !.generation = IF s = t[p].spec THEN @ ELSE @ + 1]
      BY <2>2 DEF r
    <3>3. /\ r.spec = s /\ r.observed = t[p].observed
          /\ r.generation \in {t[p].generation, t[p].generation + 1}
          /\ r = [spec |-> r.spec, generation |-> r.generation,
                  observed |-> r.observed]
      BY <3>1, <3>2 DEF PoolRow
    <3>4. t[p].generation \in Nat \ {0} /\ t[p].observed \in Ledgers \cup {NoObservation}
      BY <3>1 DEF PoolRow
    <3>5. r.generation \in Nat \ {0}
      BY <3>3, <3>4
    <3>6. QED BY <3>3, <3>4, <3>5 DEF PoolRow
  <2>3. QED BY <2>1, <2>2
<1>2. UpsertPool(t, p, s) = Put(t, p, r)
  BY DEF UpsertPool, r
<1>3. QED BY <1>1, <1>2

\* record_pool_observation leaves well-typed rows with their specs.
LEMMA ObservationType ==
    ASSUME NEW t, IsTable(t, PoolNames, PoolRow), NEW p, NEW o \in Ledgers,
           NEW u, u = RecordPoolObservation(t, p, o)
    PROVE  /\ IsTable(u, PoolNames, PoolRow)
           /\ DOMAIN u = DOMAIN t
           /\ \A q \in DOMAIN t : u[q].spec = t[q].spec
<1>1. CASE p \notin DOMAIN t
  BY <1>1 DEF RecordPoolObservation
<1>2. CASE p \in DOMAIN t
  <2>1. u = [t EXCEPT ![p].observed = o]
    BY <1>2 DEF RecordPoolObservation
  <2>2. \A q \in DOMAIN t : u[q] \in PoolRow /\ u[q].spec = t[q].spec
    BY <1>2, <2>1 DEF IsTable, PoolRow
  <2>3. QED BY <2>1, <2>2 DEF IsTable
<1>3. QED BY <1>1, <1>2

\* The allocations of one pool, by project.
LEMMA ListedType ==
    ASSUME NEW t, IsTable(t, PoolNames \X Projects, Allocations), NEW p
    PROVE  IsTable(ListAllocations(t, p), Projects, Allocations)
BY DEF IsTable, ListAllocations

-----------------------------------------------------------------------------
(* The type invariant.                                                     *)

\* The environment's steps.
Around ==
    \/ \E key \in DOMAIN intents : ReapIntent(key)
    \/ LedgerMoves \/ Quarantine \/ ClearQuarantine \/ Restart

\* The API's steps.
Api ==
    \/ \E c \in Clients : RequestStep(c) \/ RequestFails(c)
                          \/ CreatePoolLookup(c) \/ PutAllocationLookup(c)
    \/ DeletePool \/ DropAllocation

\* The loop's steps.
Pass == LoopStep \/ ReadFails \/ TurnFails \/ TeardownFails

LEMMA NextSplit == PoolNext <=> Pass \/ Api \/ Around
BY DEF PoolNext, Pass, Api, Around

\* Every step of the loop leaves it in a legal place: a turn has a listed pool
\* in hand, and from begin_intent on a key.
LEMMA LoopTyped ==
    ASSUME PoolTypeOK, Pass PROVE LoopOK'
<1>0. /\ LoopOK /\ IsTable(pools, PoolNames, PoolRow) /\ converged \subseteq PoolNames
      /\ IsTable(allocs, PoolNames \X Projects, Allocations)
      /\ DOMAIN loop = {"pc", "listed", "todo", "cur", "key", "plan"}
      /\ IsTable(EmptyTable, PoolNames, PoolRow)
  BY EmptyType DEF PoolTypeOK, StoreOK, LoopOK, Idle
<1>1. ASSUME loop' = Idle PROVE LoopOK'
  BY <1>0, <1>1 DEF LoopOK, Idle, InTurn, Keyed
<1>2. ASSUME loop' = TurnOver, loop.pc \in InTurn PROVE LoopOK'
  BY <1>0, <1>2 DEF LoopOK, TurnOver, InTurn, Keyed, Idle
<1>3. CASE BeginPass
  BY <1>0, <1>3 DEF BeginPass, LoopOK, Idle, InTurn, Keyed, IsTable
<1>4. CASE Observe
  <2>1. PICK p \in loop.todo :
            loop' = [loop EXCEPT !.pc = "quarantine", !.cur = p, !.todo = @ \ {p}]
    BY <1>4 DEF Observe
  <2>2. p \in DOMAIN loop.listed /\ p \in PoolNames
    BY <1>0, <1>4 DEF Observe, LoopOK
  <2>3. /\ DOMAIN loop' = DOMAIN loop /\ loop'.pc = "quarantine"
        /\ loop'.cur = p /\ loop'.todo \subseteq loop.todo
        /\ loop'.listed = loop.listed
    BY <1>0, <2>1
  <2>4. loop.pc = "turn" /\ loop.todo \subseteq DOMAIN loop.listed
    BY <1>0, <1>4 DEF Observe, LoopOK
  <2>5. QED BY <1>0, <2>2, <2>3, <2>4 DEF LoopOK, InTurn, Keyed
<1>5. CASE CheckQuarantine
  <2>1. CASE quarantined
    BY <1>2, <1>5, <2>1 DEF CheckQuarantine, InTurn
  <2>2. CASE ~quarantined
    BY <1>0, <1>5, <2>2 DEF CheckQuarantine, LoopOK, Idle, InTurn, Keyed
  <2>3. QED BY <2>1, <2>2
<1>6. CASE CheckApplied
  <2>1. CASE loop' = TurnOver
    BY <1>2, <1>6, <2>1 DEF CheckApplied, InTurn
  <2>2. CASE loop' # TurnOver
    <3>1. /\ loop.pc = "allocs"
          /\ loop' = [loop EXCEPT !.pc = "begin", !.key = PoolIntentKey(loop.cur)]
      BY <1>6, <2>2 DEF CheckApplied
    <3>2. IsKey(PoolIntentKey(loop.cur))
      <4>1. loop.cur \in DOMAIN loop.listed
        BY <1>0, <3>1 DEF LoopOK, InTurn
      <4>2. loop.cur \in PoolNames /\ loop.listed[loop.cur] \in PoolRow
        BY <1>0, <4>1 DEF LoopOK, IsTable
      <4>3. IsTable(ListAllocations(allocs, loop.cur), Projects, Allocations)
        BY <1>0, ListedType
      <4>4. QED BY <4>2, <4>3
                DEF IsKey, PoolIntentKey, DesiredFingerprint, PoolRow
    <3>3. QED BY <1>0, <3>1, <3>2 DEF LoopOK, Idle, InTurn, Keyed
  <2>3. QED BY <2>1, <2>2
<1>7. CASE BeginIntent
  BY <1>0, <1>7 DEF BeginIntent, LoopOK, Idle, InTurn, Keyed
<1>8. CASE ApplyManifest
  BY <1>0, <1>8 DEF ApplyManifest, LoopOK, Idle, InTurn, Keyed
<1>9. CASE CompleteIntent
  BY <1>2, <1>9 DEF CompleteIntent, InTurn
<1>10. CASE Sweep
  <2>1. CASE loop' = Idle
    BY <1>1, <2>1
  <2>2. CASE loop' # Idle
    BY <1>0, <1>10, <2>2 DEF Sweep, Vanished, LoopOK, Idle, InTurn, Keyed
  <2>3. QED BY <2>1, <2>2
<1>11. CASE DeleteObject
  BY <1>0, <1>11 DEF DeleteObject, LoopOK, Idle, InTurn, Keyed
<1>12. CASE TeardownDone \/ TeardownFails
  <2>1. PICK p \in loop.todo : loop.pc = "teardown" /\ loop' = PoolGone(p)
    BY <1>12 DEF TeardownDone, TeardownFails
  <2>2. QED BY <1>0, <2>1 DEF PoolGone, LoopOK, Idle, InTurn, Keyed
<1>13. CASE ReadFails
  <2>1. CASE loop' = Idle
    BY <1>1, <2>1
  <2>2. CASE loop' # Idle
    BY <1>0, <1>13, <2>2 DEF ReadFails, LoopOK, Idle, InTurn, Keyed
  <2>3. QED BY <2>1, <2>2
<1>14. CASE TurnFails
  BY <1>2, <1>14 DEF TurnFails, InTurn
<1>15. QED BY <1>3, <1>4, <1>5, <1>6, <1>7, <1>8, <1>9, <1>10, <1>11, <1>12, <1>13,
              <1>14 DEF Pass, LoopStep

\* So do the store's tables: what is inserted was validated when its request
\* arrived.
LEMMA StoreTyped ==
    ASSUME PoolTypeOK, PoolNext PROVE StoreOK'
<1>0. /\ IsTable(pools, PoolNames, PoolRow)
      /\ IsTable(allocs, PoolNames \X Projects, Allocations)
      /\ IsTable(intents, DOMAIN intents, {"Pending", "Applied"})
      /\ \A k \in DOMAIN intents : IsKey(k)
      /\ \A p \in DOMAIN pools : ValidQuantities(pools[p].spec)
      /\ IsTable(ledger, PoolNames, Ledgers) /\ LoopOK
      /\ \A c \in Clients : IsRequest(req[c])
  BY TotalsCover DEF PoolTypeOK, StoreOK, CloudOK
<1>1. ASSUME /\ IsTable(pools', PoolNames, PoolRow)
             /\ \A p \in DOMAIN pools' : ValidQuantities(pools'[p].spec)
             /\ UNCHANGED <<allocs, intents>>
      PROVE  StoreOK'
  BY <1>0, <1>1, TotalsCover DEF StoreOK
<1>2. ASSUME UNCHANGED <<pools, allocs, intents>> PROVE StoreOK'
  BY <1>0, <1>1, <1>2
<1>3. ASSUME NEW key, IsKey(key), NEW v \in {"Pending", "Applied"},
             intents' = Put(intents, key, v), UNCHANGED <<pools, allocs>>
      PROVE  StoreOK'
  BY <1>0, <1>3, TotalsCover DEF StoreOK, Put, IsTable
<1>4. ASSUME NEW c \in Clients, CreatePoolUpsert(c) PROVE StoreOK'
  <2>1. req[c].pool \in PoolNames /\ req[c].spec \in Specs
        /\ ValidQuantities(req[c].spec)
    BY <1>0, <1>4 DEF CreatePoolUpsert, IsRequest, NoRequest
  <2>2. PICK p \in PoolNames, s \in Specs :
            /\ pools' = UpsertPool(pools, p, s) /\ ValidQuantities(s)
            /\ UNCHANGED <<allocs, intents>>
    BY <1>4, <2>1 DEF CreatePoolUpsert, ApiFrame
  <2>3. PICK r \in PoolRow : r.spec = s /\ pools' = Put(pools, p, r)
    BY <1>0, <2>2, UpsertPoolType
  <2>4. IsTable(pools', PoolNames, PoolRow)
    BY <1>0, <2>3, PutType
  <2>5. \A q \in DOMAIN pools' : ValidQuantities(pools'[q].spec)
    BY <1>0, <2>2, <2>3 DEF Put
  <2>6. QED BY <1>1, <2>2, <2>4, <2>5
<1>5. CASE DeletePool
  <2>1. PICK p \in DOMAIN pools : pools' = Drop(pools, p)
    BY <1>5 DEF DeletePool
  <2>2. IsTable(pools', PoolNames, PoolRow)
        /\ \A q \in DOMAIN pools' : pools'[q] = pools[q] /\ q \in DOMAIN pools
    BY <1>0, <2>1, DropType DEF Drop
  <2>3. QED BY <1>0, <1>1, <1>5, <2>2 DEF DeletePool, ApiFrame
<1>6. ASSUME NEW c \in Clients, PutAllocationUpsert(c) PROVE StoreOK'
  <2>1. /\ <<req[c].pool, req[c].project>> \in PoolNames \X Projects
        /\ req[c].alloc \in Allocations
    BY <1>0, <1>6 DEF PutAllocationUpsert, IsRequest, NoRequest
  <2>2. IsTable(allocs', PoolNames \X Projects, Allocations)
    BY <1>0, <1>6, <2>1, PutType DEF PutAllocationUpsert, UpsertAllocation
  <2>3. UNCHANGED <<pools, intents>>
    BY <1>6 DEF PutAllocationUpsert, ApiFrame
  <2>4. QED BY <1>0, <2>2, <2>3, TotalsCover DEF StoreOK
<1>7. CASE DropAllocation
  <2>1. IsTable(allocs', PoolNames \X Projects, Allocations)
    BY <1>0, <1>7, DropType DEF DropAllocation, DeleteAllocation
  <2>2. QED BY <1>0, <1>7, <2>1, TotalsCover DEF DropAllocation, ApiFrame, StoreOK
<1>8. CASE Observe
  <2>1. PICK p \in loop.todo :
            pools' = IF <<"ClusterQueue", "", p>> \in DOMAIN kueue
                           /\ p \in DOMAIN ledger
                     THEN RecordPoolObservation(pools, p, ledger[p])
                     ELSE pools
    BY <1>8 DEF Observe
  <2>2. CASE pools' = pools
    BY <1>2, <1>8, <2>2 DEF Observe, LoopFrame
  <2>3. CASE pools' # pools
    <3>1. /\ ledger[p] \in Ledgers
          /\ pools' = RecordPoolObservation(pools, p, ledger[p])
      BY <1>0, <2>1, <2>3 DEF IsTable
    <3>2. /\ IsTable(pools', PoolNames, PoolRow)
          /\ DOMAIN pools' = DOMAIN pools
          /\ \A q \in DOMAIN pools : pools'[q].spec = pools[q].spec
      BY <1>0, <3>1, ObservationType
    <3>3. UNCHANGED <<allocs, intents>>
      BY <1>8 DEF Observe, LoopFrame
    <3>4. QED BY <1>0, <1>1, <3>2, <3>3
  <2>4. QED BY <2>2, <2>3
<1>9. CASE BeginIntent
  BY <1>0, <1>3, <1>9 DEF BeginIntent, LoopFrame, LoopOK, Keyed
<1>10. CASE CompleteIntent
  BY <1>0, <1>3, <1>10 DEF CompleteIntent, LoopFrame, LoopOK, Keyed
<1>11. ASSUME NEW key \in DOMAIN intents, ReapIntent(key) PROVE StoreOK'
  <2>1. intents' = Drop(intents, key) /\ UNCHANGED <<pools, allocs>>
    BY <1>11 DEF ReapIntent, rows
  <2>2. /\ IsTable(intents', DOMAIN intents', {"Pending", "Applied"})
        /\ DOMAIN intents' \subseteq DOMAIN intents
    BY <1>0, <2>1 DEF Drop, IsTable
  <2>3. QED BY <1>0, <2>1, <2>2, TotalsCover DEF StoreOK
<1>12. CASE /\ Pass /\ ~Observe /\ ~BeginIntent /\ ~CompleteIntent
  <2>1. UNCHANGED <<pools, allocs, intents>>
    BY <1>12 DEF Pass, LoopStep, BeginPass, CheckQuarantine, CheckApplied,
                 ApplyManifest, Sweep, DeleteObject, TeardownDone, ReadFails,
                 TurnFails, TeardownFails, LoopFrame
  <2>2. QED BY <1>2, <2>1
<1>13. ASSUME NEW c \in Clients,
              PutAllocationTenancy(c) \/ RequestFails(c) \/ CreatePoolLookup(c)
              \/ PutAllocationLookup(c)
       PROVE  StoreOK'
  BY <1>2, <1>13 DEF PutAllocationTenancy, RequestFails, CreatePoolLookup,
                     PutAllocationLookup, rows, ApiFrame
<1>14. CASE LedgerMoves \/ Quarantine \/ ClearQuarantine \/ Restart
  BY <1>2, <1>14 DEF LedgerMoves, Quarantine, ClearQuarantine, Restart, rows
<1>15. QED BY <1>4, <1>5, <1>6, <1>7, <1>8, <1>9, <1>10, <1>11, <1>12, <1>13,
              <1>14, NextSplit DEF Api, Around, RequestStep

\* A request in flight stays one: what it carries was read or validated.
LEMMA RequestsTyped ==
    ASSUME PoolTypeOK, PoolNext
    PROVE  DOMAIN req' = Clients /\ \A c \in Clients : IsRequest(req'[c])
<1>0. /\ DOMAIN req = Clients /\ \A c \in Clients : IsRequest(req[c])
      /\ IsTable(pools, PoolNames, PoolRow)
  BY DEF PoolTypeOK, StoreOK
<1>1. ASSUME NEW c \in Clients, NEW r, IsRequest(r), req' = [req EXCEPT ![c] = r]
      PROVE  DOMAIN req' = Clients /\ \A d \in Clients : IsRequest(req'[d])
  BY <1>0, <1>1
<1>2. IsRequest(NoRequest)
  BY DEF IsRequest
<1>3. ASSUME NEW c \in Clients, CreatePoolLookup(c)
      PROVE  DOMAIN req' = Clients /\ \A d \in Clients : IsRequest(req'[d])
  <2>1. PICK p \in PoolNames, s \in Specs :
            /\ ValidQuantities(s)
            /\ req' = [req EXCEPT ![c] = [op |-> "create", pool |-> p, spec |-> s]]
    BY <1>3 DEF CreatePoolLookup
  <2>2. IsRequest([op |-> "create", pool |-> p, spec |-> s])
    BY <2>1 DEF IsRequest
  <2>3. QED BY <1>1, <2>1, <2>2
<1>4. ASSUME NEW c \in Clients, PutAllocationLookup(c)
      PROVE  DOMAIN req' = Clients /\ \A d \in Clients : IsRequest(req'[d])
  <2>1. PICK p \in DOMAIN pools, q \in Projects, a \in Allocations :
            req' = [req EXCEPT ![c] =
                     [op |-> "tenancy", pool |-> p, project |-> q, alloc |-> a,
                      spec |-> pools[p].spec]]
    BY <1>4 DEF PutAllocationLookup
  <2>2. p \in PoolNames /\ pools[p].spec \in Specs
    BY <1>0 DEF IsTable, PoolRow
  <2>3. IsRequest([op |-> "tenancy", pool |-> p, project |-> q, alloc |-> a,
                   spec |-> pools[p].spec])
    BY <2>2 DEF IsRequest
  <2>4. QED BY <1>1, <2>1, <2>3
<1>5. ASSUME NEW c \in Clients, PutAllocationTenancy(c)
      PROVE  DOMAIN req' = Clients /\ \A d \in Clients : IsRequest(req'[d])
  <2>1. PICK r : /\ req' = [req EXCEPT ![c] = r]
                 /\ r \in {NoRequest, [req[c] EXCEPT !.op = "allocate"]}
    BY <1>0, <1>5 DEF PutAllocationTenancy
  <2>2. req[c] \in [op : {"tenancy", "allocate"}, pool : PoolNames,
                    project : Projects, alloc : Allocations, spec : Specs]
    BY <1>0, <1>5 DEF PutAllocationTenancy, IsRequest, NoRequest
  <2>3. IsRequest(r)
    BY <2>1, <2>2 DEF IsRequest
  <2>4. QED BY <1>1, <2>1, <2>3
<1>6. ASSUME NEW c \in Clients,
             CreatePoolUpsert(c) \/ PutAllocationUpsert(c) \/ RequestFails(c)
      PROVE  DOMAIN req' = Clients /\ \A d \in Clients : IsRequest(req'[d])
  BY <1>1, <1>2, <1>6 DEF CreatePoolUpsert, PutAllocationUpsert, RequestFails
<1>7. CASE Restart
  BY <1>2, <1>7 DEF Restart
<1>8. CASE DeletePool \/ DropAllocation \/ Pass
  <2>1. UNCHANGED req
    BY <1>8 DEF DeletePool, DropAllocation, Pass, LoopStep, BeginPass, Observe,
                CheckQuarantine, CheckApplied, BeginIntent, ApplyManifest,
                CompleteIntent, Sweep, DeleteObject, TeardownDone, ReadFails,
                TurnFails, TeardownFails, LoopFrame
  <2>2. QED BY <1>0, <2>1
<1>9. CASE Around /\ ~Restart
  <2>1. UNCHANGED req
    BY <1>9 DEF Around, ReapIntent, LedgerMoves, Quarantine, ClearQuarantine
  <2>2. QED BY <1>0, <2>1
<1>10. QED BY <1>3, <1>4, <1>5, <1>6, <1>7, <1>8, <1>9, NextSplit DEF Api, RequestStep

\* The loop applies what its plan holds, which is of the pool in hand.
LEMMA PlanStep ==
    ASSUME PoolTypeOK, PlanIsOfPool, [PoolNext]_vars
    PROVE  PlanIsOfPool'
<1>0. /\ DOMAIN loop = {"pc", "listed", "todo", "cur", "key", "plan"} /\ LoopOK
  BY DEF PoolTypeOK, LoopOK, Idle
<1>1. ASSUME loop'.pc # "patch" PROVE PlanIsOfPool'
  BY <1>1 DEF PlanIsOfPool
<1>2. CASE BeginIntent
  <2>1. /\ loop'.pc = "patch" /\ loop'.cur = loop.cur
        /\ loop'.plan = Manifests(loop.cur, loop.key[3][1], loop.key[3][2])
        /\ IsKey(loop.key)
    BY <1>0, <1>2 DEF BeginIntent, LoopOK, Keyed
  <2>2. PICK s \in Specs :
          \E a : /\ IsTable(a, Projects, Allocations)
                /\ loop'.plan = Manifests(loop.cur, s, a)
    BY <2>1 DEF IsKey
  <2>3. PICK a : /\ IsTable(a, Projects, Allocations)
                 /\ loop'.plan = Manifests(loop.cur, s, a)
    BY <2>2
  <2>4. QED BY <2>1, <2>3, ManifestsOfPool DEF PlanIsOfPool
<1>3. CASE ApplyManifest
  <2>1. PICK S : /\ loop.plan \in Seq(S) /\ loop.plan # << >>
                 /\ \A i \in DOMAIN loop.plan : loop.plan[i].pool = loop.cur
    BY <1>3 DEF ApplyManifest, PlanIsOfPool
  <2>2. /\ loop'.plan = Tail(loop.plan) /\ loop'.cur = loop.cur
        /\ loop'.pc = "patch" => Len(loop.plan) # 1
    BY <1>0, <1>3 DEF ApplyManifest
  <2>3. ASSUME loop'.pc = "patch"
        PROVE  /\ loop'.plan \in Seq({loop'.plan[i] : i \in DOMAIN loop'.plan})
               /\ loop'.plan # << >>
               /\ \A i \in DOMAIN loop'.plan : loop'.plan[i].pool = loop.cur
    <3>1. Len(loop.plan) > 1
      <4>1. PICK n \in Nat : n = Len(loop.plan)
        BY <2>1
      <4>2. n # 0 /\ n # 1
        BY <2>1, <2>2, <2>3, <4>1
      <4>3. n > 1
        BY <4>2
      <4>4. QED BY <4>1, <4>3
    <3>2. QED BY <2>1, <2>2, <3>1, TailOf
  <2>4. QED BY <2>2, <2>3 DEF PlanIsOfPool
<1>4. CASE UNCHANGED loop
  BY <1>4 DEF PlanIsOfPool
<1>5. CASE Pass /\ ~BeginIntent /\ ~ApplyManifest
  <2>1. CASE BeginPass \/ Observe \/ CheckQuarantine \/ CheckApplied
    <3>1. loop'.pc \in {"turn", "quarantine", "allocs", "begin"}
      BY <1>0, <2>1 DEF BeginPass, Observe, CheckQuarantine, CheckApplied,
                        TurnOver, Idle
    <3>2. QED BY <1>1, <3>1
  <2>2. CASE CompleteIntent \/ TurnFails
    BY <1>0, <1>1, <2>2 DEF CompleteIntent, TurnFails, TurnOver
  <2>3. CASE Sweep \/ DeleteObject \/ ReadFails
    <3>1. Sweep => loop'.pc \in {"teardown", "idle"}
      BY <1>0 DEF Sweep, Idle
    <3>2. DeleteObject => loop'.pc = "teardown"
      BY <1>0 DEF DeleteObject
    <3>3. ReadFails => loop'.pc \in {"turn", "idle"}
      <4>1. ReadFails => \/ loop.pc = "turn" /\ \E t : loop' = [loop EXCEPT !.todo = t]
                         \/ loop' = Idle
        BY DEF ReadFails
      <4>2. \A t : [loop EXCEPT !.todo = t].pc = loop.pc
        BY <1>0
      <4>3. Idle.pc = "idle"
        BY DEF Idle
      <4>4. QED BY <4>1, <4>2, <4>3
    <3>4. QED BY <1>1, <2>3, <3>1, <3>2, <3>3
  <2>4. CASE TeardownDone \/ TeardownFails
    BY <1>0, <1>1, <2>4 DEF TeardownDone, TeardownFails, PoolGone
  <2>5. QED BY <1>5, <2>1, <2>2, <2>3, <2>4 DEF Pass, LoopStep
<1>6. CASE Api \/ (Around /\ ~Restart) \/ UNCHANGED vars
  <2>1. UNCHANGED loop
    BY <1>6 DEF Api, RequestStep, RequestFails, CreatePoolLookup,
                PutAllocationLookup, CreatePoolUpsert, PutAllocationTenancy,
                PutAllocationUpsert, DeletePool, DropAllocation, ApiFrame, Around,
                ReapIntent, LedgerMoves, Quarantine, ClearQuarantine, vars
  <2>2. QED BY <1>4, <2>1
<1>7. CASE Restart
  BY <1>1, <1>7 DEF Restart, Idle
<1>8. QED BY <1>2, <1>3, <1>5, <1>6, <1>7, NextSplit

\* No step breaks a type.
LEMMA PoolTypeStep ==
    ASSUME PoolTypeOK, PlanIsOfPool, [PoolNext]_vars
    PROVE  PoolTypeOK'
<1>0. /\ CloudOK /\ LoopOK
      /\ converged \subseteq PoolNames /\ forgotten \subseteq PoolNames
  BY DEF PoolTypeOK
<1>1. CASE UNCHANGED vars
  BY <1>1 DEF PoolTypeOK, StoreOK, CloudOK, LoopOK, vars
<1>2. CASE PoolNext
  <2>1. /\ StoreOK' /\ DOMAIN req' = Clients
        /\ \A c \in Clients : IsRequest(req'[c])
    BY <1>2, StoreTyped, RequestsTyped
  <2>2. LoopOK'
    <3>1. CASE Pass
      BY <3>1, LoopTyped
    <3>2. CASE Restart
      BY <3>2, EmptyType DEF Restart, LoopOK, Idle, InTurn, Keyed
    <3>3. CASE Api \/ (Around /\ ~Restart)
      <4>1. UNCHANGED loop
        BY <3>3 DEF Api, RequestStep, RequestFails, CreatePoolLookup,
                PutAllocationLookup, CreatePoolUpsert, PutAllocationTenancy,
                PutAllocationUpsert, DeletePool, DropAllocation, ApiFrame, Around,
                ReapIntent, LedgerMoves, Quarantine, ClearQuarantine
      <4>2. QED BY <1>0, <4>1 DEF LoopOK
    <3>4. QED BY <1>2, <3>1, <3>2, <3>3, NextSplit
  <2>3. CloudOK'
    <3>1. CASE ApplyManifest
      <4>1. /\ kueue' = Put(kueue, Head(loop.plan).ref,
                            [pool |-> Head(loop.plan).pool,
                             body |-> Head(loop.plan).body])
            /\ UNCHANGED ledger
        BY <3>1 DEF ApplyManifest, LoopFrame
      <4>2. Head(loop.plan).pool \in PoolNames
        <5>1. /\ loop.plan \in Seq({loop.plan[i] : i \in DOMAIN loop.plan})
              /\ loop.plan # << >>
          BY <3>1 DEF ApplyManifest, PlanIsOfPool
        <5>2. 1 \in DOMAIN loop.plan /\ Head(loop.plan) = loop.plan[1]
          BY <5>1
        <5>3. loop.cur \in PoolNames
          BY <1>0, <3>1 DEF ApplyManifest, LoopOK, InTurn, IsTable
        <5>4. QED BY <3>1, <5>2, <5>3 DEF ApplyManifest, PlanIsOfPool
      <4>3. QED BY <1>0, <4>1, <4>2 DEF CloudOK, Put
    <3>2. CASE DeleteObject
      <4>1. PICK r : kueue' = Drop(kueue, r)
        BY <3>2 DEF DeleteObject
      <4>2. IsTable(ledger', PoolNames, Ledgers)
        BY <1>0, <3>2, DropType DEF DeleteObject, CloudOK
      <4>3. QED BY <1>0, <4>1, <4>2 DEF CloudOK, Drop
    <3>3. CASE LedgerMoves
      BY <1>0, <3>3, PutType DEF LedgerMoves, CloudOK
    <3>4. CASE ~ApplyManifest /\ ~DeleteObject /\ ~LedgerMoves
      <4>1. CASE Pass
        <5>1. UNCHANGED cloud
          BY <3>4, <4>1 DEF Pass, LoopStep, BeginPass, Observe, CheckQuarantine,
                CheckApplied, BeginIntent, CompleteIntent, Sweep, TeardownDone,
                ReadFails, TurnFails, TeardownFails, LoopFrame, cloud
        <5>2. QED BY <1>0, <5>1 DEF CloudOK, cloud
      <4>2. CASE Api \/ Around
        <5>1. UNCHANGED cloud
          BY <3>4, <4>2 DEF Api, RequestStep, RequestFails, CreatePoolLookup,
                PutAllocationLookup, CreatePoolUpsert, PutAllocationTenancy,
                PutAllocationUpsert, DeletePool, DropAllocation, ApiFrame, Around,
                ReapIntent, Quarantine, ClearQuarantine, Restart
        <5>2. QED BY <1>0, <5>1 DEF CloudOK, cloud
      <4>3. QED BY <1>2, <4>1, <4>2, NextSplit
    <3>5. QED BY <3>1, <3>2, <3>3, <3>4
  <2>4. converged' \subseteq PoolNames /\ forgotten' \subseteq PoolNames
    <3>1. loop.pc \in InTurn => loop.cur \in PoolNames
      BY <1>0 DEF LoopOK, IsTable
    <3>2. CASE CheckApplied
      BY <1>0, <3>1, <3>2 DEF CheckApplied, InTurn
    <3>3. CASE CompleteIntent
      BY <1>0, <3>1, <3>3 DEF CompleteIntent, InTurn
    <3>4. CASE TurnFails
      BY <1>0, <3>1, <3>4 DEF TurnFails, InTurn
    <3>5. CASE TeardownDone
      BY <1>0, <3>5 DEF TeardownDone, histories
    <3>6. CASE Restart
      BY <3>6 DEF Restart
    <3>7. CASE /\ Pass
               /\ ~CheckApplied /\ ~CompleteIntent /\ ~TurnFails /\ ~TeardownDone
      BY <1>0, <3>7 DEF Pass, LoopStep, BeginPass, Observe, CheckQuarantine,
             BeginIntent, ApplyManifest, Sweep, DeleteObject, ReadFails,
             TeardownFails, histories
    <3>8. CASE Api \/ (Around /\ ~Restart)
      <4>1. UNCHANGED <<converged, forgotten>>
        BY <3>8 DEF Api, RequestStep, RequestFails, CreatePoolLookup,
                PutAllocationLookup, CreatePoolUpsert, PutAllocationTenancy,
                PutAllocationUpsert, DeletePool, DropAllocation, ApiFrame, Around,
                ReapIntent, LedgerMoves, Quarantine, ClearQuarantine, histories
      <4>2. QED BY <1>0, <4>1
    <3>9. QED BY <1>2, <3>2, <3>3, <3>4, <3>5, <3>6, <3>7, <3>8, NextSplit
  <2>5. QED BY <2>1, <2>2, <2>3, <2>4 DEF PoolTypeOK
<1>3. QED BY <1>1, <1>2

\* The initial state is well typed.
LEMMA PoolTypeInit == Init => PoolTypeOK /\ PlanIsOfPool
<1> SUFFICES ASSUME Init PROVE PoolTypeOK /\ PlanIsOfPool
  OBVIOUS
<1>1. /\ \A K, V : IsTable(EmptyTable, K, V)
      /\ DOMAIN EmptyTable = {}
  BY EmptyType DEF EmptyTable
<1>2. StoreOK /\ CloudOK
  BY <1>1 DEF Init, StoreOK, CloudOK
<1>3. LoopOK /\ PlanIsOfPool
  BY <1>1 DEF Init, LoopOK, PlanIsOfPool, Idle, InTurn, Keyed
<1>4. QED BY <1>2, <1>3 DEF Init, PoolTypeOK, IsRequest

\* The type invariant needs to know whose objects a plan holds.
LEMMA PoolInvariant == PoolSpec => [](PoolTypeOK /\ PlanIsOfPool)
<1>1. PoolTypeOK /\ PlanIsOfPool /\ [PoolNext]_vars => (PoolTypeOK /\ PlanIsOfPool)'
  BY PoolTypeStep, PlanStep
<1>2. QED BY <1>1, PoolTypeInit, PTL DEF PoolSpec

\* Every reachable state of the pool loop, its API and Kueue is well typed, and
\* no stored spec fails to parse: what create_pool validated before the lookup
\* is what it inserts after.
THEOREM PoolTypeCorrect == PoolSpec => []PoolTypeOK
BY PoolInvariant, PTL

-----------------------------------------------------------------------------
(* The fence.                                                              *)

\* A pass that began under quarantine stays where it only reads.
LEMMA FenceStep ==
    ASSUME PoolTypeOK, FencedPassReads, [PoolNext]_vars
    PROVE  FencedPassReads'
<1>0. /\ DOMAIN loop = {"pc", "listed", "todo", "cur", "key", "plan"}
      /\ fenced => quarantined /\ loop.pc \in {"idle", "turn", "quarantine"}
  BY DEF PoolTypeOK, LoopOK, Idle, FencedPassReads
<1>1. CASE BeginPass
  BY <1>1 DEF BeginPass, FencedPassReads, Idle, LoopFrame
<1>2. CASE Observe
  BY <1>0, <1>2 DEF Observe, FencedPassReads, LoopFrame, histories
<1>3. CASE CheckQuarantine
  BY <1>0, <1>3 DEF CheckQuarantine, FencedPassReads, LoopFrame, histories, TurnOver
<1>4. CASE Sweep
  BY <1>0, <1>4 DEF Sweep, FencedPassReads, LoopFrame, histories, Idle
<1>5. CASE ReadFails
  BY <1>0, <1>5 DEF ReadFails, FencedPassReads, LoopFrame, histories, Idle
<1>6. CASE TurnFails
  BY <1>0, <1>6 DEF TurnFails, FencedPassReads, LoopFrame, TurnOver
<1>7. CASE \/ CheckApplied \/ BeginIntent \/ ApplyManifest \/ CompleteIntent
           \/ DeleteObject \/ TeardownDone \/ TeardownFails
  <2>1. ~fenced /\ UNCHANGED fenced
    BY <1>0, <1>7 DEF CheckApplied, BeginIntent, ApplyManifest, CompleteIntent,
                      DeleteObject, TeardownDone, TeardownFails, histories
  <2>2. QED BY <2>1 DEF FencedPassReads
<1>8. CASE Api
  <2>1. UNCHANGED <<loop, fenced, quarantined>>
    BY <1>8 DEF Api, RequestStep, RequestFails, CreatePoolLookup,
                PutAllocationLookup, CreatePoolUpsert, PutAllocationTenancy,
                PutAllocationUpsert, DeletePool, DropAllocation, ApiFrame, histories
  <2>2. QED BY <1>0, <2>1 DEF FencedPassReads
<1>9. CASE Around
  BY <1>0, <1>9 DEF Around, ReapIntent, LedgerMoves, Quarantine, ClearQuarantine,
                    Restart, histories, FencedPassReads
<1>10. CASE UNCHANGED vars
  BY <1>0, <1>10 DEF vars, FencedPassReads
<1>11. QED BY <1>1, <1>2, <1>3, <1>4, <1>5, <1>6, <1>7, <1>8, <1>9, <1>10, NextSplit
           DEF Pass, LoopStep

\* A pass that began under quarantine makes, changes and deletes no Kueue object
\* and opens no intent while the quarantine lasts, whichever requests, errors
\* and reaped intents come in between.
THEOREM QuarantinedPassLeavesKueue == PoolSpec => QuarantinedPassInert
<1>1. Init => FencedPassReads
  BY DEF Init, FencedPassReads
<1>2. ASSUME FencedPassReads, PoolNext, fenced
      PROVE  kueue' = kueue /\ DOMAIN intents' \subseteq DOMAIN intents
  <2>1. loop.pc \in {"idle", "turn", "quarantine"}
    BY <1>2 DEF FencedPassReads
  <2>2. CASE Pass
    BY <2>1, <2>2 DEF Pass, LoopStep, BeginPass, Observe, CheckQuarantine,
          CheckApplied, BeginIntent, ApplyManifest, CompleteIntent, Sweep,
          DeleteObject, TeardownDone, ReadFails, TurnFails, TeardownFails
  <2>3. CASE Api
    BY <2>3 DEF Api, RequestStep, RequestFails, CreatePoolLookup,
                PutAllocationLookup, CreatePoolUpsert, PutAllocationTenancy,
                PutAllocationUpsert, DeletePool, DropAllocation, ApiFrame, cloud
  <2>4. CASE Around
    BY <2>4 DEF Around, ReapIntent, LedgerMoves, Quarantine, ClearQuarantine,
                Restart, cloud, Drop
  <2>5. QED BY <1>2, <2>2, <2>3, <2>4, NextSplit
<1>3. FencedPassReads /\ [PoolNext]_vars =>
        [fenced => /\ kueue' = kueue
                   /\ DOMAIN intents' \subseteq DOMAIN intents]_vars
  BY <1>2
<1>4. QED BY <1>1, <1>3, FenceStep, PoolTypeCorrect, PTL
          DEF PoolSpec, QuarantinedPassInert

-----------------------------------------------------------------------------
(* Orphans.                                                                *)

\* Objects keep their explanation where a step labels nothing new, forgets no
\* pool and ends no apply.
LEMMA ExplainedFrame ==
    ASSUME OrphansExplained,
           \A p \in PoolNames : Labelled(p)' # {} => Labelled(p) # {},
           converged \cup forgotten \subseteq converged' \cup forgotten',
           loop.pc \in {"patch", "complete"} => UNCHANGED <<loop>>
    PROVE  OrphansExplained'
BY DEF OrphansExplained

\* What Kueue holds under a pool's label can be traced to this process, step by
\* step.
LEMMA ExplainedStep ==
    ASSUME PoolTypeOK, PlanIsOfPool, OrphansExplained, [PoolNext]_vars
    PROVE  OrphansExplained'
<1>0. DOMAIN loop = {"pc", "listed", "todo", "cur", "key", "plan"}
  BY DEF PoolTypeOK, LoopOK, Idle
<1>1. ASSUME kueue' = kueue PROVE \A p : Labelled(p)' = Labelled(p)
  BY <1>1 DEF Labelled
<1>2. CASE ApplyManifest
  <2>1. /\ loop.pc = "patch" /\ loop'.cur = loop.cur
        /\ loop'.pc \in {"patch", "complete"}
        /\ kueue' = Put(kueue, Head(loop.plan).ref,
                        [pool |-> Head(loop.plan).pool,
                         body |-> Head(loop.plan).body])
        /\ UNCHANGED <<converged, forgotten>>
    BY <1>0, <1>2 DEF ApplyManifest, histories
  <2>2. Head(loop.plan).pool = loop.cur
    <3>1. /\ loop.plan \in Seq({loop.plan[i] : i \in DOMAIN loop.plan})
          /\ loop.plan # << >>
          /\ \A i \in DOMAIN loop.plan : loop.plan[i].pool = loop.cur
      BY <2>1 DEF PlanIsOfPool
    <3>2. 1 \in DOMAIN loop.plan /\ Head(loop.plan) = loop.plan[1]
      BY <3>1
    <3>3. QED BY <3>1, <3>2
  <2>3. \A p \in PoolNames \ {loop.cur} : Labelled(p)' \subseteq Labelled(p)
    BY <2>1, <2>2 DEF Labelled, Put
  <2>4. QED BY <2>1, <2>3 DEF OrphansExplained
<1>3. CASE CompleteIntent
  BY <1>1, <1>3 DEF CompleteIntent, OrphansExplained
<1>4. CASE TurnFails
  <2>1. /\ kueue' = kueue /\ converged' = converged
        /\ forgotten \subseteq forgotten'
        /\ loop.cur \in converged \cup forgotten' \/ Labelled(loop.cur) = {}
    BY <1>4 DEF TurnFails
  <2>2. QED BY <1>1, <2>1 DEF OrphansExplained
<1>5. CASE DeleteObject
  <2>1. \A p : Labelled(p)' \subseteq Labelled(p)
    BY <1>5 DEF DeleteObject, Labelled, Drop
  <2>2. QED BY <1>5, <2>1, ExplainedFrame DEF DeleteObject, histories
<1>6. CASE TeardownDone
  <2>1. PICK p \in loop.todo : Labelled(p) = {} /\ converged' = converged \ {p}
    BY <1>6 DEF TeardownDone
  <2>2. /\ kueue' = kueue /\ UNCHANGED forgotten /\ loop.pc = "teardown"
    BY <1>6 DEF TeardownDone, histories
  <2>3. QED BY <1>1, <2>1, <2>2 DEF OrphansExplained
<1>7. CASE CheckApplied
  <2>1. /\ kueue' = kueue /\ loop.pc = "allocs"
        /\ converged \subseteq converged' /\ forgotten' = forgotten \ converged'
    BY <1>7 DEF CheckApplied
  <2>2. QED BY <1>1, <2>1, ExplainedFrame
<1>8. CASE \/ BeginPass \/ Observe \/ CheckQuarantine \/ BeginIntent \/ Sweep
           \/ ReadFails \/ TeardownFails
  <2>1. /\ UNCHANGED <<kueue, converged, forgotten>>
        /\ loop.pc \notin {"patch", "complete"}
    BY <1>8 DEF BeginPass, Observe, CheckQuarantine, BeginIntent, Sweep, ReadFails,
                TeardownFails, histories
  <2>2. QED BY <1>1, <2>1, ExplainedFrame
<1>9. CASE Restart
  BY <1>9 DEF Restart, OrphansExplained, Labelled, cloud
<1>10. CASE Api \/ (Around /\ ~Restart) \/ UNCHANGED vars
  <2>1. UNCHANGED <<kueue, converged, forgotten, loop>>
    BY <1>10 DEF Api, RequestStep, RequestFails, CreatePoolLookup,
                PutAllocationLookup, CreatePoolUpsert, PutAllocationTenancy,
                PutAllocationUpsert, DeletePool, DropAllocation, ApiFrame, Around,
                ReapIntent, LedgerMoves, Quarantine, ClearQuarantine, histories,
                cloud, vars
  <2>2. QED BY <1>1, <2>1, ExplainedFrame
<1>11. QED BY <1>2, <1>3, <1>4, <1>5, <1>6, <1>7, <1>8, <1>9, <1>10, NextSplit
           DEF Pass, LoopStep

\* Whatever carries a pool's label in Kueue is of a pool in the applied-set or of
\* the one being applied, except what a restart or a failed turn left behind:
\* no interleaving of requests, reaped intents and teardowns loses an object.
THEOREM NoOrphanUnexplained == PoolSpec => []OrphansExplained
<1>1. Init => OrphansExplained
  BY DEF Init, OrphansExplained, Labelled, EmptyTable
<1>2. QED BY <1>1, ExplainedStep, PoolInvariant, PTL DEF PoolSpec
=============================================================================
