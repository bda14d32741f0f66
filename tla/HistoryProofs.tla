--------------------------- MODULE HistoryProofs ----------------------------
(***************************************************************************)
(* Proofs about what is read back later: the audit trail, page by page and *)
(* as a hash chain, and the job history that the reaper of idle clusters   *)
(* goes by.                                                                *)
(***************************************************************************)
EXTENDS RequestProofs, FiniteSetTheorems, WellFoundedInduction

-----------------------------------------------------------------------------
(* The audit trail.                                                        *)

\* A set of numbers has a least member, and a bounded one a greatest.
LEMMA LeastOf ==
    ASSUME NEW T \in SUBSET Nat, T # {}
    PROVE  \E x \in T : \A y \in T : x <= y
<1>1. \E x \in T : \A y \in T : ~(<<y, x>> \in OpToRel(<, Nat))
  BY NatLessThanWellFounded, WFMin, Zenon
<1>2. OpToRel(<, Nat) = {p \in Nat \X Nat : p[1] < p[2]}
  BY Zenon DEF OpToRel
<1>3. PICK x \in T : \A y \in T : ~(<<y, x>> \in {p \in Nat \X Nat : p[1] < p[2]})
  BY <1>1, <1>2, Zenon
<1>4. ASSUME NEW y \in T PROVE x <= y
  <2>1. x \in Nat /\ y \in Nat /\ ~(<<y, x>> \in {p \in Nat \X Nat : p[1] < p[2]})
    BY <1>3
  <2>2. QED BY <2>1
<1>5. QED BY <1>4

LEMMA GreatestOf ==
    ASSUME NEW n \in Nat, NEW T \in SUBSET (0 .. n), T # {}
    PROVE  \E x \in T : \A y \in T : y <= x
<1> DEFINE U == {n - y : y \in T}
<1>1. U \in SUBSET Nat
  OBVIOUS
<1>2. U # {}
  BY Zenon
<1> HIDE DEF U
<1>3. PICK u \in U : \A v \in U : u <= v
  BY <1>1, <1>2, LeastOf
<1>4. PICK x \in T : u = n - x
  BY <1>3 DEF U
<1>5. ASSUME NEW y \in T PROVE y <= x
  <2>1. n - y \in U
    BY DEF U
  <2>2. n - x <= n - y
    BY <1>3, <1>4, <2>1
  <2>3. x \in 0 .. n /\ y \in 0 .. n
    OBVIOUS
  <2>4. QED BY <2>2, <2>3
<1>6. QED BY <1>5

LEMMA MaxOf ==
    ASSUME NEW n \in Nat, NEW T \in SUBSET (0 .. n), T # {}
    PROVE  Max(T) \in T /\ Max(T) \in Nat /\ \A t \in T : Max(T) >= t
<1>1. PICK x \in T : \A y \in T : y <= x
  BY GreatestOf
<1>2. \A y \in T : x >= y
  BY <1>1
<1>3. Max(T) \in T /\ \A t \in T : Max(T) >= t
  BY <1>2, Zenon DEF Max
<1>4. T \subseteq Nat
  OBVIOUS
<1>5. QED BY <1>3, <1>4, Zenon

\* Times up to n, and how long they are gone.
LEMMA TimesUpTo ==
    ASSUME NEW n \in Nat
    PROVE  /\ 0 \in 0 .. n /\ n \in 0 .. n /\ n <= n
           /\ \A t \in 0 .. n : t \in Nat
OBVIOUS

LEMMA SumsUpTo ==
    ASSUME NEW n \in Nat, NEW c \in Nat
    PROVE  /\ c + n + n \in Nat /\ c \in 0 .. c + n + n
           /\ \A a, b \in 0 .. n : a + b \in 0 .. c + n + n
OBVIOUS

LEMMA ElapsedNone ==
    ASSUME NEW t \in Nat, NEW idle \in Nat \ {0}
    PROVE  ~(Elapsed(t, t) >= idle)
BY DEF Elapsed

LEMMA ElapsedSince ==
    ASSUME NEW n \in Nat, NEW at \in 0 .. n, NEW idle \in Nat \ {0},
           NEW last \in Nat, Elapsed(last, at) >= idle,
           NEW s \in 0 .. n, NEW d \in 0 .. n, last >= s + d
    PROVE  n - s >= idle
BY DEF Elapsed

\* list_audit: a page has the newest of the rows found, and its oldest as the
\* next cursor unless there are no more.
LEMMA PageOf ==
    ASSUME NEW n \in Nat, NEW found \in SUBSET (1 .. n), NEW limit \in Nat \ {0},
           NEW kept, kept = Newest(found, limit),
           NEW next,
           next = IF Cardinality(found) > limit THEN Oldest(kept) ELSE NoCursor
    PROVE  /\ kept = {i \in found : next # NoCursor => i >= next}
           /\ next # NoCursor => next \in found
<1> DEFINE newer(i) == {j \in found : j > i}
<1>1. \A i : i \in kept <=> i \in found /\ Cardinality(newer(i)) < limit
  BY DEF Newest
<1>2. IsFiniteSet(found) /\ Cardinality(found) \in Nat
  <2>1. IsFiniteSet(1 .. n)
    BY FS_Interval
  <2>2. QED BY <2>1, FS_Subset, FS_CardinalityType
<1>3. ASSUME NEW i \in found PROVE newer(i) \in SUBSET found /\ i \notin newer(i)
  OBVIOUS
<1>4. ASSUME NEW i \in found, NEW k \in found, i >= k
      PROVE  newer(i) \in SUBSET newer(k)
  <2>1. \A j \in found : j > i => j > k
    BY <1>4
  <2>2. QED BY <2>1, Zenon
<1>5. ASSUME NEW i \in found, \A j \in found : j <= i PROVE newer(i) = {}
  <2>1. \A j \in found : ~(j > i)
    BY <1>5
  <2>2. QED BY <2>1, Zenon
<1> HIDE DEF newer
<1>6. ASSUME NEW i \in found
      PROVE  IsFiniteSet(newer(i)) /\ Cardinality(newer(i)) \in Nat
  BY <1>2, <1>3, FS_Subset, FS_CardinalityType
<1>7. ASSUME NEW i \in found PROVE Cardinality(newer(i)) < Cardinality(found)
  <2>1. newer(i) \in SUBSET found /\ newer(i) # found
    BY <1>3
  <2>2. Cardinality(newer(i)) <= Cardinality(found)
        /\ Cardinality(newer(i)) # Cardinality(found)
    BY <1>2, <2>1, FS_Subset
  <2>3. QED BY <1>2, <1>6, <2>2
<1>8. CASE Cardinality(found) <= limit
  <2>1. \A i \in found : Cardinality(newer(i)) < limit
    BY <1>2, <1>6, <1>7, <1>8
  <2>2. kept = found
    BY <1>1, <2>1
  <2>3. next = NoCursor
    BY <1>2, <1>8
  <2>4. QED BY <2>2, <2>3
<1>9. CASE Cardinality(found) > limit
  <2>1. found # {}
    BY <1>2, <1>9, FS_EmptySet
  <2>2. PICK top \in found : \A j \in found : j <= top
    <3>1. found \in SUBSET (0 .. n)
      OBVIOUS
    <3>2. QED BY <2>1, <3>1, GreatestOf
  <2>3. top \in kept
    <3>1. Cardinality(newer(top)) = 0
      BY <1>5, <2>2, FS_EmptySet
    <3>2. QED BY <1>1, <3>1
  <2>4. \E low \in kept : \A j \in kept : low <= j
    <3>1. kept \subseteq found /\ kept # {}
      BY <1>1, <2>3, Zenon
    <3>2. found \subseteq Nat
      OBVIOUS
    <3>3. QED BY <3>1, <3>2, LeastOf
  <2>5. next \in kept /\ \A j \in kept : next <= j
    BY <1>9, <2>4 DEF Oldest
  <2>6. next \in found /\ Cardinality(newer(next)) < limit
    BY <1>1, <2>5
  <2>7. ASSUME NEW i \in found, i >= next PROVE i \in kept
    <3>1. newer(i) \in SUBSET newer(next)
      BY <1>4, <2>6, <2>7
    <3>2. Cardinality(newer(i)) <= Cardinality(newer(next))
      <4>1. IsFiniteSet(newer(next))
        BY <1>6, <2>6
      <4>2. QED BY <3>1, <4>1, FS_Subset
    <3>3. Cardinality(newer(i)) < limit
      BY <1>6, <2>6, <3>2
    <3>4. QED BY <1>1, <3>3
  <2>8. kept = {i \in found : i >= next}
    BY <1>1, <2>5, <2>7
  <2>9. next # NoCursor
    BY <2>6 DEF NoCursor
  <2>10. QED BY <2>6, <2>8, <2>9
<1>10. QED BY <1>2, <1>8, <1>9

\* audit_chain: whatever window of a trail that replays is asked for, it
\* replays from the hash it is said to chain from.
LEMMA WindowReplays ==
    ASSUME NEW S, NEW rows \in Seq(S), \A i \in DOMAIN rows : Chained(rows, i),
           NEW from \in 1 .. Len(rows) + 1, NEW limit \in Nat
    PROVE  LET w == AuditChain(rows, from, limit)
           IN  FirstBroken(w.head, w.rows) = 0
<1> DEFINE last == IF from + limit - 1 > Len(rows) THEN Len(rows)
                   ELSE from + limit - 1
           head == IF from <= 1 \/ rows = << >> THEN GenesisHash
                   ELSE rows[IF from - 1 > Len(rows) THEN Len(rows)
                             ELSE from - 1].chain_hash
           part == SubSeq(rows, from, last)
<1>0. Len(rows) \in Nat /\ DOMAIN rows = 1 .. Len(rows) /\ from \in Nat \ {0}
  OBVIOUS
<1>1. AuditChain(rows, from, limit) = [head |-> head, rows |-> part]
  BY DEF AuditChain
<1>2. last \in Int /\ last <= Len(rows) /\ last >= from - 1
  BY <1>0
<1> HIDE DEF last
<1>3. DOMAIN part = 1 .. last + 1 - from
      /\ \A i \in 1 .. last + 1 - from : part[i] = rows[from + i - 1]
  BY <1>0, <1>2
<1> HIDE DEF part
<1>4. ASSUME NEW i \in DOMAIN part
      PROVE  part[i].chain_hash =
                AuditChainHash(IF i = 1 THEN head ELSE part[i - 1].chain_hash,
                               part[i].event)
  <2>1. i \in 1 .. last + 1 - from /\ from + i - 1 \in 1 .. Len(rows)
    BY <1>0, <1>2, <1>3, <1>4
  <2>2. Chained(rows, from + i - 1) /\ part[i] = rows[from + i - 1]
    BY <1>0, <1>3, <2>1
  <2>3. CASE i = 1
    <3>1. head = IF from = 1 THEN GenesisHash ELSE rows[from - 1].chain_hash
      BY <1>0, <2>1
    <3>2. from + i - 1 = from
      BY <1>0, <2>3
    <3> HIDE DEF head
    <3>3. QED BY <2>2, <2>3, <3>1, <3>2 DEF Chained
  <2>4. CASE i # 1
    <3>1. i - 1 \in 1 .. last + 1 - from /\ from + i - 1 # 1
          /\ from + (i - 1) - 1 = (from + i - 1) - 1
      BY <1>0, <1>2, <2>1, <2>4
    <3>2. part[i - 1] = rows[(from + i - 1) - 1]
      BY <1>3, <3>1
    <3>3. QED BY <2>2, <2>4, <3>1, <3>2 DEF Chained
  <2>5. QED BY <2>3, <2>4
<1> HIDE DEF head
<1>5. QED BY <1>1, <1>4 DEF FirstBroken
\* Only appending to it moves the trail, and only reading a page the walk.
Appends == \E e : trail' = RecordAudit(trail, e) /\ UNCHANGED walk

LEMMA TrailMoves ==
    ASSUME RouterNext
    PROVE  \/ UNCHANGED << trail, walk >>
           \/ Appends
           \/ \E c \in Clients : ReadPage(c)
<1>1. ASSUME NEW c \in Clients, ResolveStep(c) PROVE UNCHANGED << trail, walk >>
  BY <1>1 DEF ResolveStep, Arrive, LookupToken, ReadUser, ValidateJwt,
     ClaimRefresh, FetchJwks, RetryKey, LoginLookup, ReadFailures, ClearFailures
<1>2. ASSUME NEW c \in Clients, HandleStep(c), ~ReadPage(c), ~Emit(c)
      PROVE  UNCHANGED << trail, walk >>
  BY <1>2 DEF HandleStep, FetchFails, Authorize, AuthorizeBlind, Serve,
     Assign, Unassign, CreateUserLookup, CreateUserInsert, UpdateUserLookup,
     UpdateRole, UpdateDisabled, UpdatePassword, UpdateField, UpdateFails,
     RevokeToken, Logout, IssueToken, StoreToken, CountFailure,
     CredentialFails, VerifyTrail, EmitFails
<1>3. ASSUME NEW c \in Clients, Emit(c) \/ EmitProxied(c) PROVE Appends
  BY <1>3 DEF Emit, EmitProxied, Appends
<1>4. ASSUME NEW c \in Clients, GatewayStep(c), ~EmitProxied(c)
      PROVE  UNCHANGED << trail, walk >>
  BY <1>4 DEF GatewayStep, HostGateway, Forward, ForwardRefused, Connect,
     UpstreamFails, ClientGone, EmitProxiedFails,
     RecordSubmission, RecordSubmissionFails, ResolveScope, ResolveScopeFails,
     FetchDashboard, ListJobs, ReadFrame
<1>5. ASSUME NEW c \in Clients, ReadStep(c) PROVE UNCHANGED << trail, walk >>
  BY <1>5 DEF ReadStep, ClusterNodes, ClusterEvents, ClusterLogs, EngineOf,
     ProbeDask, ProbeFails, Remember, ClusterJobs, ClusterMetrics, Southbound,
     RouterFrame, ReadFrame
<1>6. ASSUME ElseStep PROVE UNCHANGED << trail, walk >>
  BY <1>6 DEF ElseStep, Tick, Rotate, RelayFrame, FrameSent, BridgeBreaks,
     BridgeIdles, BridgeCloses, BridgeFrame, JobProgresses, RefreshList, RefreshFetch,
     RefreshUnreachable, RefreshRecord, RefreshFails, RefreshFrame, ReapRows,
     ReapJobs, ReapOne, ReapFails, ReapFrame, UpsertCluster, DeleteCluster, BeginPass,
     Observe, Warm, RayObserve, DecideOne, ApplyRemembers, Create, Terminate,
     Record, PassFails, LoopFrame
<1>7. QED BY <1>1, <1>2, <1>3, <1>4, <1>5, <1>6, StepSplit

\* Appending keeps what was there and chains the new row.
LEMMA AppendKeeps ==
    ASSUME TrailInv, Appends
    PROVE  TrailInv'
<1>1. PICK e : trail' = RecordAudit(trail, e) /\ UNCHANGED walk
  BY DEF Appends
<1> DEFINE n == Len(trail)
           S == {trail[i] : i \in DOMAIN trail}
           prev == IF trail = << >> THEN GenesisHash ELSE trail[n].chain_hash
           r == [event |-> e, chain_hash |-> AuditChainHash(prev, e)]
<1>2. trail \in Seq(S) /\ n \in Nat /\ DOMAIN trail = 1 .. n
  BY DEF TrailInv
<1>3. trail' = Append(trail, r)
  BY <1>1 DEF RecordAudit
<1> HIDE DEF S, r
<1>4. /\ trail' \in Seq(S \cup {r}) /\ DOMAIN trail' = 1 .. n + 1
      /\ Len(trail') = n + 1 /\ trail'[n + 1] = r
      /\ \A i \in 1 .. n : trail'[i] = trail[i]
  BY <1>2, <1>3
<1>5. trail' \in Seq({trail'[i] : i \in DOMAIN trail'})
  <2>1. trail' = [i \in 1 .. n + 1 |-> trail'[i]]
    BY <1>4
  <2>2. trail' \in [1 .. n + 1 -> {trail'[i] : i \in DOMAIN trail'}]
    BY <1>4, <2>1
  <2>3. QED BY <1>2, <2>2
<1>6. ASSUME NEW i \in DOMAIN trail' PROVE Chained(trail, i)'
  <2>1. CASE i = n + 1
    <3>1. CASE n = 0
      BY <1>2, <1>4, <2>1, <3>1 DEF Chained, r
    <3>2. CASE n # 0
      <4>1. trail # << >> /\ i # 1 /\ i - 1 = n /\ n \in 1 .. n
        BY <1>2, <2>1, <3>2
      <4>2. QED BY <1>4, <2>1, <4>1 DEF Chained, r
    <3>3. QED BY <3>1, <3>2
  <2>2. CASE i # n + 1
    <3>1. i \in 1 .. n /\ (i # 1 => i - 1 \in 1 .. n)
      BY <1>2, <1>4, <2>2
    <3>2. Chained(trail, i)
      BY <1>2, <3>1 DEF TrailInv
    <3>3. QED BY <1>4, <3>1, <3>2 DEF Chained
  <2>3. QED BY <2>1, <2>2
<1>7. walk.upto \in 0 .. n /\ walk.upto \in 0 .. n + 1
  BY <1>2 DEF TrailInv
<1>8. \A i \in 1 .. walk.upto : trail'[i] = trail[i]
  BY <1>2, <1>4, <1>7
<1>9. WalkExact'
  <2>1. {i \in 1 .. walk.upto : Matches(walk.filter, trail'[i].event)} =
        {i \in 1 .. walk.upto : Matches(walk.filter, trail[i].event)}
    BY <1>8
  <2>2. QED BY <1>1, <2>1 DEF TrailInv, WalkExact
<1>10. QED BY <1>1, <1>4, <1>5, <1>6, <1>7, <1>9 DEF TrailInv

\* A page adds to what the reader has the rows that follow, and no other.
LEMMA PageKeeps ==
    ASSUME TrailInv, NEW c \in Clients, ReadPage(c)
    PROVE  TrailInv'
<1> DEFINE n == Len(trail)
           cursor == IF walk.open THEN walk.cursor ELSE NoCursor
<1>1. n \in Nat /\ DOMAIN trail = 1 .. n
  BY DEF TrailInv
<1>2. PICK f : /\ walk.open => f = walk.filter
               /\ LET page == ListAudit(trail, f, cursor, PageLimit)
                  IN  walk' = [filter |-> f, cursor |-> page.next,
                         got |-> IF walk.open THEN walk.got \cup page.rows
                                 ELSE page.rows,
                         served |-> Cardinality(page.rows)
                                    + (IF walk.open THEN walk.served ELSE 0),
                         upto |-> IF walk.open THEN walk.upto ELSE Len(trail),
                         open |-> page.next # NoCursor]
  BY DEF ReadPage
<1>3. PICK page : page = ListAudit(trail, f, cursor, PageLimit)
  OBVIOUS
<1>4. PICK found : found = Found(trail, f, cursor)
  OBVIOUS
<1> HIDE DEF cursor
<1>5. found \in SUBSET (1 .. n)
  BY <1>1, <1>4 DEF Found
<1>6. /\ page.rows = {i \in found : page.next # NoCursor => i >= page.next}
      /\ page.next # NoCursor => page.next \in found
  <2>1. /\ page.rows = Newest(found, PageLimit)
        /\ page.next = IF Cardinality(found) > PageLimit THEN Oldest(page.rows)
                       ELSE NoCursor
    BY <1>3, <1>4 DEF ListAudit
  <2>2. QED BY <1>1, <1>5, <2>1, PageOf, PageAssumption
<1>7. IsFiniteSet(page.rows) /\ Cardinality(page.rows) \in Nat
  <2>1. page.rows \in SUBSET (1 .. n)
    BY <1>5, <1>6
  <2>2. IsFiniteSet(1 .. n)
    BY <1>1, FS_Interval
  <2>3. QED BY <2>1, <2>2, FS_Subset, FS_CardinalityType
<1>8. UNCHANGED trail
  BY DEF ReadPage
<1>9. CASE ~walk.open
  <2>1. /\ walk'.filter = f /\ walk'.cursor = page.next /\ walk'.got = page.rows
        /\ walk'.served = Cardinality(page.rows) + 0 /\ walk'.upto = n
        /\ walk'.open = (page.next # NoCursor)
    BY <1>2, <1>3, <1>9
  <2>2. found = {i \in 1 .. n : Matches(f, trail[i].event)}
    BY <1>1, <1>4, <1>9 DEF Found, cursor
  <2>3. WalkExact'
    <3>1. walk'.got = {i \in found : walk'.open => i >= walk'.cursor}
      BY <1>6, <2>1
    <3>2. walk'.served = Cardinality(walk'.got)
      BY <1>7, <2>1
    <3>3. QED BY <1>8, <2>1, <2>2, <3>1, <3>2 DEF WalkExact
  <2>4. walk'.open => walk'.cursor \in 1 .. n
    BY <1>5, <1>6, <2>1
  <2>5. QED BY <1>1, <1>8, <2>1, <2>3, <2>4 DEF TrailInv, Chained
<1>10. CASE walk.open
  <2> DEFINE all == {i \in 1 .. walk.upto : Matches(walk.filter, trail[i].event)}
  <2>1. /\ walk'.filter = walk.filter /\ walk'.cursor = page.next
        /\ walk'.got = walk.got \cup page.rows
        /\ walk'.served = Cardinality(page.rows) + walk.served
        /\ walk'.upto = walk.upto
        /\ walk'.open = (page.next # NoCursor)
    BY <1>2, <1>3, <1>10
  <2>2. /\ walk.upto \in 0 .. n /\ walk.cursor \in 1 .. walk.upto
        /\ walk.got = {i \in all : i >= walk.cursor}
        /\ walk.served = Cardinality(walk.got)
    BY <1>10 DEF TrailInv, WalkExact
  <2>3. found = {i \in all : i < walk.cursor}
    <3>1. f = walk.filter /\ cursor = walk.cursor
      BY <1>2, <1>10 DEF cursor
    <3>2. cursor # NoCursor /\ cursor \in 1 .. walk.upto
      BY <2>2, <3>1 DEF NoCursor
    <3>3. found = {i \in 1 .. n : i < cursor /\ Matches(f, trail[i].event)}
      BY <1>1, <1>4, <3>2 DEF Found
    <3>4. \A i \in 1 .. n : i < cursor => i \in 1 .. walk.upto
      BY <1>1, <2>2, <3>2
    <3>5. \A i \in 1 .. walk.upto : i \in 1 .. n
      BY <1>1, <2>2
    <3>6. QED BY <3>1, <3>3, <3>4, <3>5
  <2>4. all \in SUBSET (1 .. n) /\ all' = all
    BY <1>1, <1>8, <2>1, <2>2
  <2> HIDE DEF all
  <2>5. walk'.got = {i \in all : walk'.open => i >= walk'.cursor}
    <3>1. \A i \in all : i >= walk.cursor \/ i < walk.cursor
      BY <2>2, <2>4
    <3>2. CASE page.next = NoCursor
      <4>1. page.rows = found /\ ~walk'.open
        BY <1>6, <2>1, <3>2
      <4>2. walk.got \cup found = all
        BY <2>2, <2>3, <3>1, Zenon
      <4>3. QED BY <2>1, <4>1, <4>2
    <3>3. CASE page.next # NoCursor
      <4>1. page.rows = {i \in found : i >= page.next} /\ page.next \in found
        BY <1>6, <3>3
      <4>2. \A i \in all : i >= walk.cursor => i >= page.next
        <5>1. page.next \in all /\ page.next < walk.cursor
          BY <2>3, <4>1, Zenon
        <5>2. \A i \in all : i \in Nat
          BY <1>1, <2>4
        <5>3. walk.cursor \in Nat
          BY <2>2
        <5>4. QED BY <5>1, <5>2, <5>3
      <4>3. \A i : i \in page.rows <=> i \in all /\ i < walk.cursor /\ i >= page.next
        BY <2>3, <4>1, Zenon
      <4>4. \A i : i \in walk.got <=> i \in all /\ i >= walk.cursor
        BY <2>2, Zenon
      <4>5. \A i : i \in walk.got \cup page.rows <=> i \in all /\ i >= page.next
        BY <3>1, <4>2, <4>3, <4>4, Zenon
      <4>6. walk.got \cup page.rows = {i \in all : i >= page.next}
        BY <4>5, Zenon
      <4>7. walk'.open /\ walk'.cursor = page.next
        BY <2>1, <3>3
      <4>8. QED BY <2>1, <4>6, <4>7
    <3>4. QED BY <3>2, <3>3
  <2>6. walk'.served = Cardinality(walk'.got)
    <3>1. walk.got \in SUBSET (1 .. n) /\ walk.got \cap page.rows = {}
      BY <1>6, <2>2, <2>3, <2>4
    <3>2. IsFiniteSet(1 .. n)
      BY <1>1, FS_Interval
    <3>3. IsFiniteSet(walk.got) /\ Cardinality(walk.got) \in Nat
      BY <3>1, <3>2, FS_Subset, FS_CardinalityType
    <3>4. Cardinality(walk.got \cup page.rows) =
            Cardinality(walk.got) + Cardinality(page.rows)
      <4>1. Cardinality(walk.got \cup page.rows) =
              Cardinality(walk.got) + Cardinality(page.rows)
                - Cardinality(walk.got \cap page.rows)
        BY <1>7, <3>3, FS_Union
      <4>2. Cardinality(walk.got \cap page.rows) = 0
        BY <3>1, FS_EmptySet
      <4>3. QED BY <1>7, <3>3, <4>1, <4>2
    <3>5. QED BY <1>7, <2>1, <2>2, <3>3, <3>4
  <2>7. WalkExact'
    BY <1>8, <2>1, <2>4, <2>5, <2>6 DEF WalkExact, all
  <2>8. walk'.open => walk'.cursor \in 1 .. walk.upto
    BY <1>6, <2>1, <2>3 DEF all
  <2>9. QED BY <1>1, <1>8, <2>1, <2>2, <2>7, <2>8 DEF TrailInv, Chained
<1>11. QED BY <1>9, <1>10

LEMMA TrailInvariant == RouterSpec => []TrailInv
<1>1. RouterInit => TrailInv
  <2>1. SUFFICES ASSUME RouterInit PROVE TrailInv
    OBVIOUS
  <2>2. trail = << >> /\ walk = NoWalk
    BY <2>1 DEF RouterInit, PlaneInit, AccessInit
  <2>3. WalkExact
    <3>1. walk.upto = 0 /\ walk.got = {} /\ walk.served = 0
      BY <2>2 DEF NoWalk
    <3>2. 1 .. walk.upto = {}
      BY <3>1
    <3>3. QED BY <3>1, <3>2, FS_EmptySet DEF WalkExact
  <2>4. QED BY <2>2, <2>3 DEF TrailInv, NoWalk
<1>2. TrailInv /\ [RouterNext]_rvars => TrailInv'
  <2>1. SUFFICES ASSUME TrailInv, [RouterNext]_rvars PROVE TrailInv'
    OBVIOUS
  <2>2. CASE UNCHANGED << trail, walk >>
    <3>1. WalkExact'
      BY <2>1, <2>2 DEF TrailInv, WalkExact
    <3>2. QED BY <2>1, <2>2, <3>1 DEF TrailInv, Chained
  <2>3. CASE UNCHANGED rvars
    BY <2>2, <2>3 DEF rvars, jvars, cvars
  <2>4. QED BY <2>1, <2>2, <2>3, TrailMoves, AppendKeeps, PageKeeps
<1>3. QED BY <1>1, <1>2, PTL DEF RouterSpec

\* audit_chain: whatever window of the trail is asked for, it replays.
THEOREM EveryWindowReplays ==
    RouterSpec =>
        [](\A from \in 1 .. Len(trail) + 1, limit \in Nat : Replays(from, limit))
<1>1. TrailInv =>
        \A from \in 1 .. Len(trail) + 1, limit \in Nat : Replays(from, limit)
  BY WindowReplays DEF TrailInv, Replays
<1>2. QED BY <1>1, TrailInvariant, PTL

\* Reading the trail: however many requests append meanwhile, for any page
\* size and any filters, verify_audit_trail finds nothing to complain of and a
\* reader meets every matching row once.
THEOREM TrailReadFaithfully == RouterSpec => []AuditReadsFaithful
<1>1. TrailInv => AuditReadsFaithful
  <2>1. SUFFICES ASSUME TrailInv, NEW from \in 1 .. Len(trail) + 1,
                        NEW limit \in 1 .. 2
                 PROVE  Replays(from, limit)
    BY DEF TrailInv, AuditReadsFaithful
  <2>2. limit \in Nat
    OBVIOUS
  <2>3. QED BY <2>1, <2>2, WindowReplays DEF TrailInv, Replays
<1>2. QED BY <1>1, TrailInvariant, PTL

-----------------------------------------------------------------------------
(* The job history and the reaper.                                         *)

\* What was true of a history stays true as jobs end and time goes on.
LEMMA HistoryGrows ==
    ASSUME NEW ended, NEW ended2, ended \subseteq ended2,
           NEW at \in Nat, NEW at2 \in Nat, at <= at2
    PROVE  /\ \A t : Past(t, at) => Past(t, at2)
           /\ \A h : HeadTyped(h, at) => HeadTyped(h, at2)
           /\ \A h : HistoryTyped(h, ended, at) => HistoryTyped(h, ended2, at2)
           /\ \A r : RefreshTyped(r, ended, at) => RefreshTyped(r, ended2, at2)
           /\ \A r : ReaperTyped(r, ended, at) => ReaperTyped(r, ended2, at2)
<1>1. \A t : Past(t, at) => Past(t, at2)
  BY DEF Past
<1>2. \A h : HeadTyped(h, at) => HeadTyped(h, at2)
  BY <1>1 DEF HeadTyped
<1>3. ASSUME NEW h, HistoryTyped(h, ended, at) PROVE HistoryTyped(h, ended2, at2)
  <2>1. ASSUME NEW j \in DOMAIN h PROVE JobTyped(h[j], at2)
    <3>1. JobTyped(h[j], at)
      BY <1>3 DEF HistoryTyped
    <3>2. h[j].submitted_at \in 0 .. at2
      BY <3>1 DEF JobTyped
    <3>3. QED BY <1>1, <3>1, <3>2 DEF JobTyped
  <2>2. QED BY <1>3, <2>1 DEF HistoryTyped
<1>4. ASSUME NEW r, RefreshTyped(r, ended, at) PROVE RefreshTyped(r, ended2, at2)
  BY <1>3, <1>4 DEF RefreshTyped
<1>5. ASSUME NEW r, ReaperTyped(r, ended, at) PROVE ReaperTyped(r, ended2, at2)
  <2>1. CASE r # Waiting
    <3>1. r.at \in 0 .. at2
      BY <1>5, <2>1 DEF ReaperTyped
    <3>2. QED BY <1>3, <1>5, <2>1, <3>1 DEF ReaperTyped
  <2>2. QED BY <2>1 DEF ReaperTyped
<1>6. QED BY <1>1, <1>2, <1>3, <1>4, <1>5

\* It is enough to look at what a step changes.
LEMMA HistoryFrame ==
    ASSUME HistoryInv, now' \in Nat, now <= now', Ended \subseteq Ended',
           UNCHANGED heads \/ \A j \in DOMAIN heads' : HeadTyped(heads'[j], now'),
           UNCHANGED jobs \/ HistoryTyped(jobs', Ended', now'),
           UNCHANGED fleet \/ FleetKept(fleet'),
           UNCHANGED refresh \/ RefreshTyped(refresh', Ended', now'),
           UNCHANGED reaper \/ ReaperTyped(reaper', Ended', now')
    PROVE  HistoryInv'
<1>1. now \in Nat
  BY DEF HistoryInv
<1>2. \A j \in DOMAIN heads' : HeadTyped(heads'[j], now')
  BY <1>1, HistoryGrows DEF HistoryInv
<1>3. HistoryTyped(jobs', Ended', now')
  BY <1>1, HistoryGrows DEF HistoryInv
<1>4. RefreshTyped(refresh', Ended', now')
  BY <1>1, HistoryGrows DEF HistoryInv
<1>5. ReaperTyped(reaper', Ended', now')
  BY <1>1, HistoryGrows DEF HistoryInv
<1>6. FleetKept(fleet')
  BY DEF HistoryInv
<1>7. QED BY <1>2, <1>3, <1>4, <1>5, <1>6 DEF HistoryInv

\* The same, where neither time nor the heads move.
LEMMA HistoryHere ==
    ASSUME HistoryInv, UNCHANGED << now, heads >>,
           UNCHANGED jobs \/ HistoryTyped(jobs', Ended, now),
           UNCHANGED fleet \/ FleetKept(fleet'),
           UNCHANGED refresh \/ RefreshTyped(refresh', Ended, now),
           UNCHANGED reaper \/ ReaperTyped(reaper', Ended, now)
    PROVE  HistoryInv'
<1>1. Ended' = Ended
  BY DEF Ended
<1>2. now' = now /\ now' \in Nat /\ now <= now'
  BY DEF HistoryInv
<1>3. QED BY <1>1, <1>2, HistoryFrame

\* A record is replaced or added.
LEMMA HistoryPut ==
    ASSUME NEW history, NEW ended, NEW at, HistoryTyped(history, ended, at),
           NEW j, NEW job, JobTyped(job, at), IsTerminal(job.status) => j \in ended
    PROVE  HistoryTyped(Put(history, j, job), ended, at)
<1>1. ASSUME NEW i \in DOMAIN Put(history, j, job)
      PROVE  \/ i = j /\ Put(history, j, job)[i] = job
             \/ i \in DOMAIN history /\ Put(history, j, job)[i] = history[i]
  BY DEF Put
<1>2. QED BY <1>1 DEF HistoryTyped

\* The steps of requests and of the environment.
LEMMA HistoryMoves ==
    ASSUME HistoryInv,
           \/ \E c \in Clients : Forward(c) \/ RecordSubmission(c)
           \/ \E j \in DOMAIN heads : JobProgresses(j)
    PROVE  HistoryInv'
<1>0. now \in Nat /\ \A j \in DOMAIN heads : HeadTyped(heads[j], now)
  BY DEF HistoryInv
<1>1. ASSUME NEW c \in Clients, Forward(c) PROVE HistoryInv'
  <2>1. UNCHANGED << now, jobs, fleet, refresh, reaper >>
    BY <1>1 DEF Forward, Background
  <2>2. CASE UNCHANGED heads
    BY <2>1, <2>2, HistoryHere
  <2>3. CASE ~UNCHANGED heads
    <3>1. PICK j \in JobIds \ DOMAIN heads : \E k :
            heads' = Put(heads, j, [cluster |-> k, status |-> "PENDING",
                                    start |-> NoTime, end |-> NoTime])
      BY <1>1, <2>3 DEF Forward
    <3>2. /\ DOMAIN heads' = DOMAIN heads \cup {j}
          /\ \A i \in DOMAIN heads : heads'[i] = heads[i]
          /\ \E k : heads'[j] = [cluster |-> k, status |-> "PENDING",
                                 start |-> NoTime, end |-> NoTime]
      BY <3>1 DEF Put
    <3>3. HeadTyped(heads'[j], now)
      BY <3>2 DEF HeadTyped, Past
    <3>4. \A i \in DOMAIN heads' : HeadTyped(heads'[i], now')
      BY <1>0, <2>1, <3>2, <3>3
    <3>5. Ended \subseteq Ended'
      BY <3>2 DEF Ended
    <3>6. now' \in Nat /\ now <= now'
      BY <1>0, <2>1
    <3>7. QED BY <2>1, <3>4, <3>5, <3>6, HistoryFrame
  <2>4. QED BY <2>2, <2>3
<1>2. ASSUME NEW c \in Clients, RecordSubmission(c) PROVE HistoryInv'
  <2>1. UNCHANGED << now, heads, fleet, refresh, reaper >>
    BY <1>2 DEF RecordSubmission, Background
  <2>2. PICK k, u :
          jobs' = Put(jobs, req[c].reply,
                    [cluster |-> k, submitter |-> u, status |-> "PENDING",
                     duration |-> NoTime, submitted_at |-> now])
    BY <1>2 DEF RecordSubmission
  <2> DEFINE job == [cluster |-> k, submitter |-> u, status |-> "PENDING",
                     duration |-> NoTime, submitted_at |-> now]
  <2>3. now \in 0 .. now
    BY <1>0, TimesUpTo
  <2>4. JobTyped(job, now) /\ ~IsTerminal(job.status)
    BY <2>3 DEF JobTyped, Past, IsTerminal
  <2> HIDE DEF job
  <2>5. HistoryTyped(jobs', Ended, now)
    BY <2>2, <2>4, HistoryPut DEF HistoryInv, job
  <2>6. QED BY <2>1, <2>5, HistoryHere
<1>3. CASE \E j \in DOMAIN heads : JobProgresses(j)
  <2>1. PICK j \in DOMAIN heads : JobProgresses(j)
    BY <1>3
  <2>2. UNCHANGED << now, jobs, fleet, refresh, reaper >>
    BY <2>1 DEF JobProgresses
  <2>3. /\ ~IsTerminal(heads[j].status)
        /\ \/ heads' = [heads EXCEPT ![j] =
                         [heads[j] EXCEPT !.status = "RUNNING", !.start = now]]
           \/ heads' = [heads EXCEPT ![j] =
                         [heads[j] EXCEPT !.status = "SUCCEEDED", !.end = now]]
    BY <2>1 DEF JobProgresses
  <2>4. /\ DOMAIN heads' = DOMAIN heads
        /\ \A i \in DOMAIN heads \ {j} : heads'[i] = heads[i]
        /\ \/ heads'[j] = [heads[j] EXCEPT !.status = "RUNNING", !.start = now]
           \/ heads'[j] = [heads[j] EXCEPT !.status = "SUCCEEDED", !.end = now]
    BY <2>3
  <2>5. HeadTyped(heads[j], now) /\ Past(now, now)
    BY <1>0, TimesUpTo DEF Past
  <2>6. HeadTyped(heads'[j], now)
    BY <2>4, <2>5 DEF HeadTyped
  <2>7. \A i \in DOMAIN heads' : HeadTyped(heads'[i], now')
    BY <1>0, <2>2, <2>4, <2>6
  <2>8. Ended \subseteq Ended'
    BY <2>3, <2>4 DEF Ended
  <2>9. now' \in Nat /\ now <= now'
    BY <1>0, <2>2, TimesUpTo
  <2>10. QED BY <2>2, <2>7, <2>8, <2>9, HistoryFrame
<1>4. QED BY <1>1, <1>2, <1>3

\* Part of a history is one too.
LEMMA HistoryPart ==
    ASSUME NEW history, NEW ended, NEW at, HistoryTyped(history, ended, at),
           NEW part, DOMAIN part \subseteq DOMAIN history,
           \A j \in DOMAIN part : part[j] = history[j]
    PROVE  HistoryTyped(part, ended, at)
BY DEF HistoryTyped

\* What the head of a cluster says is merged into records of it.
LEMMA HistoryMerged ==
    ASSUME HistoryInv, refresh # Waiting, NEW k
    PROVE  HistoryTyped(Advanced(k), Ended, now)
<1> DEFINE merged(j) == MergeStatus(refresh.rows[j], heads[j])
<1>1. now \in Nat /\ HistoryTyped(refresh.rows, Ended, now)
  BY DEF HistoryInv, RefreshTyped
<1>2. ASSUME NEW j \in DOMAIN Advanced(k)
      PROVE  /\ j \in DOMAIN refresh.rows /\ j \in DOMAIN heads
             /\ Advanced(k)[j] = merged(j)
  BY <1>2 DEF Advanced, Restrict
<1>3. ASSUME NEW j \in DOMAIN refresh.rows, j \in DOMAIN heads
      PROVE  JobTyped(merged(j), now) /\ merged(j).status = heads[j].status
  <2>1. HeadTyped(heads[j], now) /\ JobTyped(refresh.rows[j], now)
    BY <1>1, <1>3 DEF HistoryInv, HistoryTyped
  <2> DEFINE d == IF /\ heads[j].start # NoTime /\ heads[j].end # NoTime
                     /\ heads[j].end >= heads[j].start
                  THEN heads[j].end - heads[j].start
                  ELSE refresh.rows[j].duration
  <2>2. Past(d, now)
    <3>1. /\ Past(heads[j].start, now) /\ Past(heads[j].end, now)
          /\ Past(refresh.rows[j].duration, now) /\ now \in Nat
      BY <1>1, <2>1 DEF HeadTyped, JobTyped
    <3>2. ASSUME NEW a, NEW b, Past(a, now), Past(b, now), a # NoTime,
                 b # NoTime, b >= a
          PROVE  Past(b - a, now)
      BY <3>1, <3>2 DEF Past
    <3>3. QED BY <3>1, <3>2
  <2>3. merged(j) = [refresh.rows[j] EXCEPT !.status = heads[j].status,
                                           !.duration = d]
    BY DEF MergeStatus
  <2> HIDE DEF d, merged
  <2>4. QED BY <2>1, <2>2, <2>3 DEF JobTyped
<1> HIDE DEF merged
<1>4. ASSUME NEW j \in DOMAIN Advanced(k)
      PROVE  /\ JobTyped(Advanced(k)[j], now)
             /\ IsTerminal(Advanced(k)[j].status) => j \in Ended
  <2>1. /\ j \in DOMAIN refresh.rows /\ j \in DOMAIN heads
        /\ Advanced(k)[j] = merged(j)
    BY <1>2
  <2>2. JobTyped(merged(j), now) /\ merged(j).status = heads[j].status
    BY <1>3, <2>1
  <2>3. QED BY <2>1, <2>2 DEF Ended
<1>5. QED BY <1>4 DEF HistoryTyped

\* The refresher.
LEMMA HistoryRefreshes ==
    ASSUME HistoryInv,
           \/ RefreshList \/ RefreshFetch \/ RefreshUnreachable \/ RefreshRecord
           \/ RefreshFails
    PROVE  HistoryInv'
<1>1. UNCHANGED << now, heads, fleet, reaper >>
  BY DEF RefreshList, RefreshFetch, RefreshUnreachable, RefreshRecord,
     RefreshFails, RefreshFrame
<1>2. RefreshTyped(Waiting, Ended, now)
  BY DEF RefreshTyped
<1>3. HistoryTyped(EmptyTable, Ended, now)
  BY DEF HistoryTyped, EmptyTable
<1>4. HistoryTyped(jobs, Ended, now) /\ RefreshTyped(refresh, Ended, now)
  BY DEF HistoryInv
<1>5. CASE RefreshList
  <2>1. PICK open, todo :
          /\ open \subseteq DOMAIN jobs
          /\ \/ refresh' = Waiting
             \/ refresh' = [pc |-> "clusters", rows |-> Restrict(jobs, open),
                            todo |-> todo, next |-> EmptyTable]
    BY <1>5 DEF RefreshList
  <2>2. HistoryTyped(Restrict(jobs, open), Ended, now)
    <3>1. /\ DOMAIN Restrict(jobs, open) = open
          /\ \A j \in open : Restrict(jobs, open)[j] = jobs[j]
      BY DEF Restrict
    <3>2. QED BY <1>4, <2>1, <3>1, HistoryPart
  <2>3. RefreshTyped(refresh', Ended, now)
    <3> DEFINE r == [pc |-> "clusters", rows |-> Restrict(jobs, open),
                     todo |-> todo, next |-> EmptyTable]
    <3>1. /\ DOMAIN r = {"pc", "rows", "todo", "next"}
          /\ r.rows = Restrict(jobs, open) /\ r.next = EmptyTable
      OBVIOUS
    <3>2. refresh' = Waiting \/ refresh' = r
      BY <2>1
    <3> HIDE DEF r
    <3>3. RefreshTyped(r, Ended, now)
      BY <1>3, <2>2, <3>1 DEF RefreshTyped
    <3>4. QED BY <1>2, <3>2, <3>3
  <2>4. UNCHANGED jobs
    BY <1>5 DEF RefreshList
  <2>5. QED BY <1>1, <2>3, <2>4, HistoryHere
<1>6. ASSUME refresh # Waiting, NEW k, NEW next, ClusterDone(k, next),
             HistoryTyped(next, Ended, now)
      PROVE  RefreshTyped(refresh', Ended, now)
  <2>1. CASE refresh' = Waiting
    BY <1>2, <2>1
  <2>2. CASE \E todo, pc : refresh' = [refresh EXCEPT !.todo = todo,
                                            !.next = next, !.pc = pc]
    <3>1. /\ DOMAIN refresh' = {"pc", "rows", "todo", "next"}
          /\ refresh'.rows = refresh.rows /\ refresh'.next = next
      BY <1>4, <1>6, <2>2 DEF RefreshTyped
    <3>2. QED BY <1>4, <1>6, <3>1 DEF RefreshTyped
  <2>3. QED BY <1>6, <2>1, <2>2 DEF ClusterDone
<1>7. CASE RefreshFetch \/ RefreshUnreachable
  <2>1. refresh # Waiting /\ UNCHANGED jobs
    BY <1>7 DEF RefreshFetch, RefreshUnreachable, Waiting
  <2>2. \E k : ClusterDone(k, EmptyTable) \/ ClusterDone(k, Advanced(k))
    BY <1>7 DEF RefreshFetch, RefreshUnreachable
  <2>3. RefreshTyped(refresh', Ended, now)
    BY <1>3, <1>6, <2>1, <2>2, HistoryMerged
  <2>4. QED BY <1>1, <2>1, <2>3, HistoryHere
<1>8. CASE RefreshRecord
  <2>1. refresh # Waiting
    BY <1>8 DEF RefreshRecord, Waiting
  <2>2. PICK j \in DOMAIN refresh.next :
          /\ jobs' = Put(jobs, j, refresh.next[j])
          /\ \/ refresh' = [refresh EXCEPT !.next = Drop(refresh.next, j)]
             \/ refresh' = Waiting
             \/ refresh' = [refresh EXCEPT !.pc = "clusters",
                                           !.next = EmptyTable]
    BY <1>8 DEF RefreshRecord
  <2>3. HistoryTyped(refresh.next, Ended, now) /\ HistoryTyped(refresh.rows, Ended, now)
        /\ DOMAIN refresh = {"pc", "rows", "todo", "next"}
    BY <1>4, <2>1 DEF RefreshTyped
  <2>4. HistoryTyped(jobs', Ended, now)
    <3>1. /\ JobTyped(refresh.next[j], now)
          /\ IsTerminal(refresh.next[j].status) => j \in Ended
      BY <2>3 DEF HistoryTyped
    <3>2. QED BY <1>4, <2>2, <3>1, HistoryPut
  <2>5. HistoryTyped(Drop(refresh.next, j), Ended, now)
    <3>1. /\ DOMAIN Drop(refresh.next, j) \subseteq DOMAIN refresh.next
          /\ \A i \in DOMAIN Drop(refresh.next, j) :
                Drop(refresh.next, j)[i] = refresh.next[i]
      BY DEF Drop
    <3>2. QED BY <2>3, <3>1, HistoryPart
  <2>6. RefreshTyped(refresh', Ended, now)
    <3>1. CASE refresh' = [refresh EXCEPT !.next = Drop(refresh.next, j)]
      <4>1. /\ DOMAIN refresh' = {"pc", "rows", "todo", "next"}
            /\ refresh'.rows = refresh.rows
            /\ refresh'.next = Drop(refresh.next, j)
        BY <2>3, <3>1
      <4>2. QED BY <2>3, <2>5, <4>1 DEF RefreshTyped
    <3>2. CASE refresh' = [refresh EXCEPT !.pc = "clusters", !.next = EmptyTable]
      <4>1. /\ DOMAIN refresh' = {"pc", "rows", "todo", "next"}
            /\ refresh'.rows = refresh.rows /\ refresh'.next = EmptyTable
        BY <2>3, <3>2
      <4>2. QED BY <1>3, <2>3, <4>1 DEF RefreshTyped
    <3>3. QED BY <1>2, <2>2, <3>1, <3>2
  <2>7. QED BY <1>1, <2>4, <2>6, HistoryHere
<1>9. CASE RefreshFails
  <2>1. UNCHANGED jobs /\ refresh' = Waiting
    BY <1>9 DEF RefreshFails
  <2>2. QED BY <1>1, <1>2, <2>1, HistoryHere
<1>10. QED BY <1>5, <1>7, <1>8, <1>9

\* What is asked of a row, or what it reports, is not what a reaper counts by;
\* a new spec brings an idle timeout.
LEMMA FleetWritten ==
    ASSUME NEW rows, FleetKept(rows), NEW k, NEW v, NEW next,
           \/ next = [rows EXCEPT ![k].desired = v]
           \/ next = [rows EXCEPT ![k].observed = v]
           \/ \E s \in Specs :
                next = [rows EXCEPT ![k] = [rows[k] EXCEPT
                            !.project = s.project, !.engine = s.engine,
                            !.ttl = s.ttl, !.idle = s.idle]]
    PROVE  FleetKept(next)
<1>1. DOMAIN next = DOMAIN rows /\ DOMAIN rows = DOMAIN FirstFleet
  BY DEF FleetKept
<1>2. ASSUME NEW i \in DOMAIN rows
      PROVE  /\ DOMAIN next[i] = DOMAIN rows[i]
             /\ next[i].created_at = rows[i].created_at
             /\ next[i].idle \in Nat \cup {-1}
  <2>1. /\ {"created_at", "idle"} \subseteq DOMAIN rows[i]
        /\ rows[i].idle \in Nat \cup {-1}
        /\ \A s \in Specs : s.idle \in Nat \cup {-1}
    BY <1>1, FleetAssumption DEF FleetKept
  <2>2. \/ next[i] = rows[i]
        \/ next[i] = [rows[i] EXCEPT !.desired = v]
        \/ next[i] = [rows[i] EXCEPT !.observed = v]
        \/ \E s \in Specs :
                next[i] = [rows[i] EXCEPT
                            !.project = s.project, !.engine = s.engine,
                            !.ttl = s.ttl, !.idle = s.idle]
    OBVIOUS
  <2>3. QED BY <2>1, <2>2
<1>3. QED BY <1>1, <1>2 DEF FleetKept

\* The reaper, and whoever else writes rows.
LEMMA HistoryReaps ==
    ASSUME HistoryInv,
           \/ ReapRows \/ ReapJobs \/ ReapOne \/ ReapFails \/ Record
           \/ \E k \in DOMAIN fleet : UpsertCluster(k) \/ DeleteCluster(k)
    PROVE  HistoryInv'
<1>1. UNCHANGED << now, heads, jobs, refresh >>
  BY DEF ReapRows, ReapJobs, ReapOne, ReapFails, ReapFrame, UpsertCluster,
     DeleteCluster, Record, LoopFrame
<1>2. ReaperTyped(Waiting, Ended, now)
  BY DEF ReaperTyped
<1>3. /\ now \in Nat /\ FleetKept(fleet) /\ HistoryTyped(jobs, Ended, now)
      /\ ReaperTyped(reaper, Ended, now)
  BY DEF HistoryInv
<1>4. CASE ReapRows
  <2>1. /\ UNCHANGED fleet
        /\ reaper' = [pc |-> "jobs", at |-> now, rows |-> fleet,
                      history |-> EmptyTable, todo |-> {}]
    BY <1>4 DEF ReapRows
  <2>2. HistoryTyped(EmptyTable, Ended, now)
    BY DEF HistoryTyped, EmptyTable
  <2>3. now \in 0 .. now
    BY <1>3, TimesUpTo
  <2>4. ReaperTyped(reaper', Ended, now)
    BY <1>3, <2>1, <2>2, <2>3 DEF ReaperTyped
  <2>5. QED BY <1>1, <2>1, <2>4, HistoryHere
<1>5. CASE ReapJobs
  <2>1. /\ reaper # Waiting /\ UNCHANGED fleet
        /\ reaper' = [reaper EXCEPT !.pc = "decide", !.history = jobs,
                                    !.todo = DOMAIN reaper.rows]
    BY <1>5 DEF ReapJobs, Waiting
  <2>2. /\ DOMAIN reaper' = {"pc", "at", "rows", "history", "todo"}
        /\ reaper'.at = reaper.at /\ reaper'.rows = reaper.rows
        /\ reaper'.history = jobs /\ reaper'.todo = DOMAIN reaper.rows
    BY <1>3, <2>1 DEF ReaperTyped
  <2>3. reaper'.todo \subseteq DOMAIN FirstFleet
    BY <1>3, <2>1, <2>2 DEF ReaperTyped, FleetKept
  <2>4. ReaperTyped(reaper', Ended, now)
    BY <1>3, <2>1, <2>2, <2>3 DEF ReaperTyped
  <2>5. QED BY <1>1, <2>1, <2>4, HistoryHere
<1>6. CASE ReapOne
  <2>1. PICK k \in reaper.todo :
          /\ fleet' = [fleet EXCEPT ![k].desired = "Terminated"] \/ fleet' = fleet
          /\ \/ reaper' = Waiting
             \/ reaper' = [reaper EXCEPT !.todo = reaper.todo \ {k}]
    BY <1>6 DEF ReapOne
  <2>2. FleetKept(fleet')
    BY <1>3, <2>1, FleetWritten
  <2>3. reaper # Waiting
    BY <1>6 DEF ReapOne, Waiting
  <2>4. CASE reaper' = [reaper EXCEPT !.todo = reaper.todo \ {k}]
    <3>1. /\ DOMAIN reaper' = {"pc", "at", "rows", "history", "todo"}
          /\ reaper'.at = reaper.at /\ reaper'.rows = reaper.rows
          /\ reaper'.history = reaper.history
          /\ reaper'.todo = reaper.todo \ {k}
      BY <1>3, <2>3, <2>4 DEF ReaperTyped
    <3>2. ReaperTyped(reaper', Ended, now)
      BY <1>3, <2>3, <3>1 DEF ReaperTyped
    <3>3. QED BY <1>1, <2>2, <3>2, HistoryHere
  <2>5. QED BY <1>1, <1>2, <2>1, <2>2, <2>4, HistoryHere
<1>7. CASE ReapFails
  <2>1. UNCHANGED fleet /\ reaper' = Waiting
    BY <1>7 DEF ReapFails
  <2>2. QED BY <1>1, <1>2, <2>1, HistoryHere
<1>8. CASE Record \/ \E k \in DOMAIN fleet : UpsertCluster(k) \/ DeleteCluster(k)
  <2>1. UNCHANGED reaper
    BY <1>8 DEF Record, UpsertCluster, DeleteCluster, LoopFrame
  <2>2. \E k, v : \/ fleet' = [fleet EXCEPT ![k].desired = v]
                  \/ fleet' = [fleet EXCEPT ![k].observed = v]
                  \/ \E s \in Specs :
                       fleet' = [fleet EXCEPT ![k] = [fleet[k] EXCEPT
                                    !.project = s.project, !.engine = s.engine,
                                    !.ttl = s.ttl, !.idle = s.idle]]
    BY <1>8 DEF Record, UpsertCluster, DeleteCluster
  <2>3. FleetKept(fleet')
    BY <1>3, <2>2, FleetWritten
  <2>4. QED BY <1>1, <2>1, <2>3, HistoryHere
<1>9. QED BY <1>4, <1>5, <1>6, <1>7, <1>8

\* No other step touches a job, a row or the two passes.
Aside == /\ UNCHANGED << heads, jobs, fleet, refresh, reaper >>
         /\ now' \in {now, now + 1}

LEMMA HistorySplit ==
    ASSUME RouterNext
    PROVE  \/ Aside
           \/ \E c \in Clients : Forward(c) \/ RecordSubmission(c)
           \/ \E j \in DOMAIN heads : JobProgresses(j)
           \/ RefreshList \/ RefreshFetch \/ RefreshUnreachable
           \/ RefreshRecord \/ RefreshFails
           \/ ReapRows \/ ReapJobs \/ ReapOne \/ ReapFails \/ Record
           \/ \E k \in DOMAIN fleet : UpsertCluster(k) \/ DeleteCluster(k)
<1>1. now' \in {now, now + 1}
  BY SlotMoves DEF SlotStands, ClaimRefresh
<1>2. CASE AccessNext /\ UNCHANGED plane
  BY <1>1, <1>2 DEF plane, Aside
<1>3. ASSUME NEW c \in Clients, GatewayStep(c), ~Forward(c), ~RecordSubmission(c)
      PROVE  Aside
  <2>1. UNCHANGED << heads, jobs, fleet, refresh, reaper >>
    BY <1>3 DEF GatewayStep, HostGateway, ForwardRefused, Connect,
       UpstreamFails, ClientGone, EmitProxied, EmitProxiedFails,
       RecordSubmissionFails, ResolveScope, ResolveScopeFails,
       FetchDashboard, ListJobs, ReadFrame, Background
  <2>2. QED BY <1>1, <2>1 DEF Aside
<1>4. ASSUME NEW b \in Streams,
             \/ RelayFrame(b) \/ FrameSent(b)
             \/ BridgeBreaks(b) \/ BridgeIdles(b) \/ BridgeCloses(b)
      PROVE  Aside
  BY <1>1, <1>4 DEF RelayFrame, FrameSent, BridgeBreaks, BridgeIdles,
     BridgeCloses, BridgeFrame, Background, Aside
<1>5. ASSUME NEW c \in Clients, ReadStep(c) PROVE Aside
  <2>1. UNCHANGED << heads, jobs, fleet, refresh, reaper >>
    BY <1>5 DEF ReadStep, ClusterNodes, ClusterEvents, ClusterLogs, EngineOf,
       ProbeDask, ProbeFails, Remember, ClusterJobs, ClusterMetrics,
       Southbound, RouterFrame, ReadFrame, plane
  <2>2. QED BY <1>1, <2>1 DEF Aside
<1>6. ASSUME \/ \E k \in DOMAIN fleet : BeginPass(k)
             \/ Observe \/ Warm \/ RayObserve \/ DecideOne \/ ApplyRemembers
             \/ Create \/ Terminate \/ PassFails
      PROVE  Aside
  BY <1>1, <1>6 DEF BeginPass, Observe, Warm, RayObserve, DecideOne,
     ApplyRemembers, Create, Terminate, PassFails, LoopFrame, Aside
<1>7. CASE PlaneStep
  BY <1>3, <1>4, <1>7 DEF PlaneStep
<1>8. CASE RouterStep
  BY <1>5, <1>6, <1>8 DEF RouterStep, ReadStep
<1>9. QED BY <1>2, <1>7, <1>8 DEF RouterNext, PlaneNext

LEMMA HistoryInvariant == RouterSpec => []HistoryInv
<1>1. RouterInit => HistoryInv
  <2>1. SUFFICES ASSUME RouterInit PROVE HistoryInv
    OBVIOUS
  <2>2. /\ now = 0 /\ fleet = FirstFleet /\ heads = EmptyTable
        /\ jobs = EmptyTable /\ refresh = Waiting /\ reaper = Waiting
    BY <2>1 DEF RouterInit, PlaneInit, AccessInit
  <2>3. FleetKept(fleet)
    BY <2>2, FleetAssumption DEF FleetKept
  <2>4. QED BY <2>2, <2>3 DEF HistoryInv, EmptyTable, HistoryTyped, RefreshTyped,
               ReaperTyped
<1>2. HistoryInv /\ [RouterNext]_rvars => HistoryInv'
  <2>1. SUFFICES ASSUME HistoryInv, [RouterNext]_rvars PROVE HistoryInv'
    OBVIOUS
  <2>2. CASE Aside
    <3>1. now' \in Nat /\ now <= now'
      BY <2>1, <2>2 DEF HistoryInv, Aside
    <3>2. Ended' = Ended
      BY <2>2 DEF Aside, Ended
    <3>3. UNCHANGED << heads, jobs, fleet, refresh, reaper >>
      BY <2>2 DEF Aside
    <3>4. QED BY <2>1, <3>1, <3>2, <3>3, HistoryFrame
  <2>3. CASE UNCHANGED rvars
    BY <2>2, <2>3 DEF rvars, jvars, cvars, plane, Aside
  <2>4. QED BY <2>1, <2>2, <2>3, HistorySplit, HistoryMoves, HistoryRefreshes,
               HistoryReaps
<1>3. QED BY <1>1, <1>2, PTL DEF RouterSpec

\* A row that is reaped for idleness had no job that could still count.
LEMMA ReapedIdle ==
    ASSUME HistoryInv, ReapOne, NEW k \in DOMAIN fleet,
           fleet'[k].desired = "Terminated", fleet[k].desired # "Terminated",
           ~IsExpired(reaper.rows[k], reaper.at), reaper.rows[k].idle # 0,
           NEW j \in DOMAIN HistoryOf(k)
    PROVE  /\ j \in DOMAIN heads => IsTerminal(heads[j].status)
           /\ now - reaper.history[j].submitted_at >= reaper.rows[k].idle
<1> DEFINE row == reaper.rows[k]
           at == reaper.at
           h == HistoryOf(k)
           last == LastActivityAt(row.created_at, h, at)
<1>1. /\ now \in Nat /\ FleetKept(fleet) /\ FleetKept(reaper.rows)
      /\ at \in 0 .. now /\ HistoryTyped(reaper.history, Ended, now)
  <2>1. reaper # Waiting
    BY DEF ReapOne, Waiting
  <2>2. QED BY <2>1 DEF HistoryInv, ReaperTyped
<1>2. IsIdleExpired(row, last, at)
  <2>1. PICK i \in reaper.todo :
          fleet' = IF \/ IsExpired(reaper.rows[i], reaper.at)
                      \/ IsIdleExpired(reaper.rows[i],
                           LastActivityAt(reaper.rows[i].created_at,
                                          HistoryOf(i), reaper.at), reaper.at)
                   THEN [fleet EXCEPT ![i].desired = "Terminated"] ELSE fleet
    BY ZenonT(40) DEF ReapOne
  <2>2. i = k
    BY <2>1
  <2>3. QED BY <2>1, <2>2
<1>3. /\ row.created_at = FirstFleet[k].created_at /\ row.created_at \in Nat
      /\ row.idle \in Nat \ {0}
  <2>1. row.idle # NoTime
    BY <1>2 DEF IsIdleExpired
  <2>2. QED BY <1>1, <2>1, FleetAssumption DEF FleetKept, NoTime
<1>4. /\ DOMAIN h \subseteq DOMAIN reaper.history
      /\ \A i \in DOMAIN h : h[i] = reaper.history[i]
  BY DEF HistoryOf, Restrict
<1>5. HistoryTyped(h, Ended, now)
  BY <1>1, <1>4, HistoryPart
<1> HIDE DEF row, at, h
<1>6. Elapsed(last, at) >= row.idle
  BY <1>2 DEF IsIdleExpired
<1>7. \A i \in DOMAIN h : IsTerminal(h[i].status)
  <2>1. SUFFICES ASSUME \E i \in DOMAIN h : ~IsTerminal(h[i].status) PROVE FALSE
    OBVIOUS
  <2>2. last = at
    BY <2>1 DEF LastActivityAt
  <2>3. at \in Nat
    BY <1>1, TimesUpTo
  <2>4. QED BY <1>3, <1>6, <2>2, <2>3, ElapsedNone
<1> DEFINE took(i) == IF h[i].duration = NoTime THEN 0 ELSE h[i].duration
           T == {row.created_at} \cup {h[i].submitted_at + took(i) : i \in DOMAIN h}
<1>8. \A i \in DOMAIN h : h[i].submitted_at \in 0 .. now /\ took(i) \in 0 .. now
  <2>1. SUFFICES ASSUME NEW i \in DOMAIN h
                 PROVE  h[i].submitted_at \in 0 .. now /\ took(i) \in 0 .. now
    OBVIOUS
  <2>2. JobTyped(h[i], now)
    BY <1>5 DEF HistoryTyped
  <2>3. h[i].submitted_at \in 0 .. now /\ Past(h[i].duration, now)
    BY <2>2 DEF JobTyped
  <2>4. 0 \in 0 .. now
    BY <1>1, TimesUpTo
  <2>5. QED BY <2>3, <2>4 DEF Past
<1>9. last = Max(T)
  BY <1>7 DEF LastActivityAt
<1> HIDE DEF took, last
<1>10. T \in SUBSET (0 .. row.created_at + now + now) /\ T # {}
  <2>1. \A a, b \in 0 .. now : a + b \in 0 .. row.created_at + now + now
    BY <1>1, <1>3, SumsUpTo
  <2>2. row.created_at \in 0 .. row.created_at + now + now
    BY <1>1, <1>3, SumsUpTo
  <2>3. \A i \in DOMAIN h :
          h[i].submitted_at + took(i) \in 0 .. row.created_at + now + now
    BY <1>8, <2>1
  <2>4. QED BY <2>2, <2>3
<1>11. h[j].submitted_at + took(j) \in T
  BY DEF h
<1> HIDE DEF T
<1>12. last \in Nat /\ \A t \in T : last >= t
  <2>1. row.created_at + now + now \in Nat
    BY <1>1, <1>3, SumsUpTo
  <2>2. QED BY <1>9, <1>10, <2>1, MaxOf
<1>13. h[j].submitted_at \in 0 .. now /\ took(j) \in 0 .. now /\ j \in DOMAIN h
  BY <1>8 DEF h
<1>14. last >= h[j].submitted_at + took(j)
  BY <1>11, <1>12
<1>15. now - h[j].submitted_at >= row.idle
  BY <1>1, <1>3, <1>6, <1>12, <1>13, <1>14, ElapsedSince
<1>16. j \in Ended
  BY <1>5, <1>7, <1>13 DEF HistoryTyped
<1>17. j \in DOMAIN heads => IsTerminal(heads[j].status)
  BY <1>16 DEF Ended
<1>18. reaper.history[j].submitted_at = h[j].submitted_at
  BY <1>4, <1>13
<1>19. QED BY <1>15, <1>17, <1>18 DEF row

\* No job was submitted later than now.
LEMMA SubmittedBefore ==
    ASSUME HistoryInv, ReapOne, NEW k, NEW j \in DOMAIN HistoryOf(k)
    PROVE  now - reaper.history[j].submitted_at >= 0
<1>1. now \in Nat /\ HistoryTyped(reaper.history, Ended, now)
  <2>1. reaper # Waiting
    BY DEF ReapOne, Waiting
  <2>2. QED BY <2>1 DEF HistoryInv, ReaperTyped
<1>2. j \in DOMAIN reaper.history
  BY DEF HistoryOf, Restrict
<1>3. reaper.history[j].submitted_at \in 0 .. now
  BY <1>1, <1>2 DEF HistoryTyped, JobTyped
<1>4. QED BY <1>1, <1>3

\* reap_expired: for any fleet, any timeouts, whatever specs are posted under it,
\* and any number of jobs, a cluster is reaped for idleness only if every job
\* that the pass knew of was submitted at least the idle timeout ago and, unless
\* the timeout is 0, has ended on its head.
THEOREM ReapSparesBusy == RouterSpec => IdleReapSparesBusy
<1> DEFINE Spares ==
        reaper.pc = "decide" /\ reaper' # reaper => \A k \in DOMAIN fleet :
            fleet'[k].desired = "Terminated" /\ fleet[k].desired # "Terminated"
            /\ ~IsExpired(reaper.rows[k], reaper.at) =>
                \A j \in DOMAIN HistoryOf(k) :
                    /\ j \in DOMAIN heads => \/ IsTerminal(heads[j].status)
                                             \/ reaper.rows[k].idle = 0
                    /\ now - reaper.history[j].submitted_at
                        >= reaper.rows[k].idle
<1>1. HistoryInv /\ [RouterNext]_rvars => [Spares]_jvars
  <2>1. SUFFICES ASSUME HistoryInv, RouterNext, reaper.pc = "decide",
                        reaper' # reaper, NEW k \in DOMAIN fleet,
                        fleet'[k].desired = "Terminated",
                        fleet[k].desired # "Terminated",
                        ~IsExpired(reaper.rows[k], reaper.at),
                        NEW j \in DOMAIN HistoryOf(k)
                 PROVE  /\ j \in DOMAIN heads => \/ IsTerminal(heads[j].status)
                                                 \/ reaper.rows[k].idle = 0
                        /\ now - reaper.history[j].submitted_at
                            >= reaper.rows[k].idle
    BY DEF rvars
  <2>2. ReapOne
    BY <2>1, HistorySplit DEF Aside, Forward, RecordSubmission, JobProgresses,
       Background, RefreshList, RefreshFetch, RefreshUnreachable, RefreshRecord,
       RefreshFails, RefreshFrame, ReapRows, ReapJobs, ReapFails, Record,
       UpsertCluster, DeleteCluster, LoopFrame, Waiting
  <2>3. CASE reaper.rows[k].idle # 0
    BY <2>1, <2>2, <2>3, ReapedIdle
  <2>4. CASE reaper.rows[k].idle = 0
    BY <2>1, <2>2, <2>4, SubmittedBefore
  <2>5. QED BY <2>3, <2>4
<1>2. QED BY <1>1, HistoryInvariant, PTL DEF RouterSpec, IdleReapSparesBusy
=============================================================================
