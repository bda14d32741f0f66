---------------------------- MODULE RouterProofs ----------------------------
(***************************************************************************)
(* What the permits of the gateway and of the cluster reads add up to, and *)
(* what the engine router's cache says, whatever reads and passes of the   *)
(* loop race to fill it.                                                   *)
(***************************************************************************)
EXTENDS RequestProofs, FiniteSetTheorems

-----------------------------------------------------------------------------
(* The permits of the gateway and of the cluster reads.                    *)

Holding == {"forward", "connect", "proxied", "record"}

\* How many permits of each semaphore a request holds.
Held(r) == IF r.pc \in Holding THEN 1 ELSE 0
Reading(r) == IF r.pc = "dashboard" THEN 1 ELSE 0

\* One element more or less.
LEMMA Counts ==
    ASSUME NEW S, IsFiniteSet(S), NEW x
    PROVE  /\ Cardinality(S) \in Nat
           /\ Cardinality(S \cup {x}) =
                IF x \in S THEN Cardinality(S) ELSE Cardinality(S) + 1
           /\ Cardinality(S \ {x}) =
                IF x \in S THEN Cardinality(S) - 1 ELSE Cardinality(S)
           /\ x \in S => Cardinality(S) > 0
<1>1. Cardinality(S) \in Nat
  BY FS_CardinalityType
<1>2. Cardinality(S \cup {x}) =
        IF x \in S THEN Cardinality(S) ELSE Cardinality(S) + 1
  BY FS_AddElement
<1>3. Cardinality(S \ {x}) =
        IF x \in S THEN Cardinality(S) - 1 ELSE Cardinality(S)
  BY FS_RemoveElement
<1>4. x \in S => Cardinality(S) > 0
  BY <1>1, FS_EmptySet
<1>5. QED BY <1>1, <1>2, <1>3, <1>4

\* The sets that permits are counted by are finite.
LEMMA CountedFinite ==
    /\ IsFiniteSet(Dispatched) /\ IsFiniteSet(Open) /\ IsFiniteSet(Fetching)
    /\ Cardinality(Dispatched) \in Nat /\ Cardinality(Open) \in Nat
    /\ Cardinality(Fetching) \in Nat
<1>1. Dispatched \subseteq Clients /\ Fetching \subseteq Clients /\ Open \subseteq Streams
  BY DEF Dispatched, Fetching, Open
<1>2. QED BY <1>1, PermitAssumption, FS_Subset, FS_CardinalityType

\* What the move of one request does to the counts.
LEMMA CountsOfOne ==
    ASSUME NEW c \in Clients, Only(c)
    PROVE  /\ Cardinality(Dispatched') =
                Cardinality(Dispatched) + Held(req'[c]) - Held(req[c])
           /\ Cardinality(Fetching') =
                Cardinality(Fetching) + Reading(req'[c]) - Reading(req[c])
           /\ req[c].pc \in Holding => Cardinality(Dispatched) > 0
           /\ req[c].pc = "dashboard" => Cardinality(Fetching) > 0
<1>1. /\ c \in Dispatched <=> req[c].pc \in Holding
      /\ c \in Fetching <=> req[c].pc = "dashboard"
  BY DEF Dispatched, Fetching, Holding, At
<1>2. Dispatched' = IF req'[c].pc \in Holding THEN Dispatched \cup {c}
                    ELSE Dispatched \ {c}
  BY DEF Dispatched, Holding, Only, At
<1>3. Fetching' = IF req'[c].pc = "dashboard" THEN Fetching \cup {c}
                  ELSE Fetching \ {c}
  BY DEF Fetching, Only, At
<1>4. /\ Cardinality(Dispatched') =
            Cardinality(Dispatched) + Held(req'[c]) - Held(req[c])
      /\ req[c].pc \in Holding => Cardinality(Dispatched) > 0
  <2>1. IsFiniteSet(Dispatched)
    BY CountedFinite
  <2>0. /\ Cardinality(Dispatched) \in Nat
        /\ c \in Dispatched => Cardinality(Dispatched) > 0
    BY <2>1, Counts
  <2>2. CASE req'[c].pc \in Holding
    <3>1. Cardinality(Dispatched') =
            IF c \in Dispatched THEN Cardinality(Dispatched)
            ELSE Cardinality(Dispatched) + 1
      BY <1>2, <2>1, <2>2, Counts
    <3>2. QED BY <1>1, <2>0, <2>2, <3>1, SMTT(30) DEF Held
  <2>3. CASE req'[c].pc \notin Holding
    <3>1. Cardinality(Dispatched') =
            IF c \in Dispatched THEN Cardinality(Dispatched) - 1
            ELSE Cardinality(Dispatched)
      BY <1>2, <2>1, <2>3, Counts
    <3>2. QED BY <1>1, <2>0, <2>3, <3>1, SMTT(30) DEF Held
  <2>4. QED BY <2>2, <2>3
<1>5. /\ Cardinality(Fetching') =
            Cardinality(Fetching) + Reading(req'[c]) - Reading(req[c])
      /\ req[c].pc = "dashboard" => Cardinality(Fetching) > 0
  <2>1. IsFiniteSet(Fetching)
    BY CountedFinite
  <2>0. /\ Cardinality(Fetching) \in Nat
        /\ c \in Fetching => Cardinality(Fetching) > 0
    BY <2>1, Counts
  <2>2. CASE req'[c].pc = "dashboard"
    <3>1. Cardinality(Fetching') =
            IF c \in Fetching THEN Cardinality(Fetching)
            ELSE Cardinality(Fetching) + 1
      BY <1>3, <2>1, <2>2, Counts
    <3>2. QED BY <1>1, <2>0, <2>2, <3>1, SMTT(30) DEF Reading
  <2>3. CASE req'[c].pc # "dashboard"
    <3>1. Cardinality(Fetching') =
            IF c \in Fetching THEN Cardinality(Fetching) - 1
            ELSE Cardinality(Fetching)
      BY <1>3, <2>1, <2>3, Counts
    <3>2. QED BY <1>1, <2>0, <2>3, <3>1, SMTT(30) DEF Reading
  <2>4. QED BY <2>2, <2>3
<1>6. QED BY <1>4, <1>5

\* A request that is authenticated and handled here holds no permit.
LEMMA AccessHoldsNone ==
    ASSUME RequestShape, NEW c \in Clients, ResolveStep(c) \/ HandleStep(c)
    PROVE  /\ Only(c)
           /\ req[c].pc \notin Holding \cup {"dashboard"}
           /\ req'[c].pc \notin Holding \cup {"dashboard", "remember"}
<1> USE DEF At, Holding
<1>0. DOMAIN req = Clients
  BY DEF RequestShape
<1>1. CASE HandleStep(c)
  <2>1. req[c].pc \notin Holding \cup {"none", "dashboard"}
    BY <1>1 DEF HandleStep, Acts, FetchFails, Authorize, AuthorizeBlind,
       Serve, Assign, Unassign, CreateUserLookup, CreateUserInsert,
       UpdateUserLookup, UpdateRole, UpdateDisabled, UpdatePassword,
       UpdateField, UpdateFails, RevokeToken, Logout, IssueToken, StoreToken,
       CountFailure, CredentialFails, ReadPage, VerifyTrail, Emit, EmitFails
  <2>2. Only(c)
    BY <1>1, HandleCarries
  <2>3. req'[c].pc \notin Holding \cup {"dashboard", "remember"}
    BY <1>1, HandleCarries
  <2>4. QED BY <2>1, <2>2, <2>3
<1>2. CASE Arrive(c)
  <2>1. PICK route \in Routes, b \in Bearers :
          req' = [req EXCEPT ![c] =
                    [pc |-> IF ~route.cluster /\ IsPublic(route.area)
                            THEN "public"
                            ELSE IF b = NoBearer THEN "emit" ELSE b.kind,
                     route |-> route, bearer |-> b, id |-> Nobody,
                     user |-> Nobody, until |-> 0, decision |-> "deny",
                     reply |-> "none"]]
    BY <1>2 DEF Arrive
  <2>2. b = NoBearer \/ b.kind \in {"pat", "jwt"}
    BY DEF Bearers
  <2>3. req'[c].pc \in {"public", "emit", "pat", "jwt"}
    BY <1>0, <2>1, <2>2
  <2>4. QED BY <1>0, <1>2, <2>1, <2>3 DEF Arrive, Only
<1>3. CASE ResolveStep(c) /\ ~Arrive(c)
  <2>1. req[c].pc \in Resolving
    BY <1>3 DEF ResolveStep, Resolving, LookupToken, ReadUser, ValidateJwt,
       ClaimRefresh, FetchJwks, RetryKey, LoginLookup, ReadFailures,
       ClearFailures
  <2>2. DOMAIN req[c] = Fields
    <3>1. req[c].pc # "none"
      BY <2>1 DEF Resolving
    <3>2. QED BY <3>1, ShapeOf
  <2>3. \/ \E d : Ends(c, d)
        \/ \E p \in {"user", "refresh", "retry", "fetch"} : Goto(c, p)
        \/ \E id : Known(c, id)
        \/ \E p \in {"success", "failure"} : \E u, t :
              req' = [req EXCEPT ![c].pc = p, ![c].user = u, ![c].until = t]
        \/ \E u, t : req' = [req EXCEPT ![c].pc = "count", ![c].until = t,
                                         ![c].user = u]
        \/ \E id : req' = [req EXCEPT ![c].pc = "mint", ![c].id = id]
    BY <1>3 DEF ResolveStep, LookupToken, ReadUser, ValidateJwt, Accepted,
       ClaimRefresh, FetchJwks, RetryKey, LoginLookup, ReadFailures,
       ClearFailures
  <2>4. Only(c) /\ req'[c].pc \notin Holding \cup {"dashboard", "remember"}
    <3>1. CASE \/ \E d : Ends(c, d)
               \/ \E p \in {"user", "refresh", "retry", "fetch"} : Goto(c, p)
               \/ \E id : Known(c, id)
      <4>1. \E p \in {"emit", "user", "refresh", "retry", "fetch", "scope",
                      "authorize"} :
              \/ \E d : req' = [req EXCEPT ![c].pc = p, ![c].decision = d]
              \/ \E id : req' = [req EXCEPT ![c].id = id, ![c].pc = p]
              \/ req' = [req EXCEPT ![c].pc = p]
        BY <3>1 DEF Ends, Goto, Known
      <4>2. QED BY <1>0, <2>2, <4>1 DEF Only, Fields
    <3>2. CASE ~\/ \E d : Ends(c, d)
                \/ \E p \in {"user", "refresh", "retry", "fetch"} : Goto(c, p)
                \/ \E id : Known(c, id)
      <4>1. CASE \E p \in {"success", "failure"} : \E u, t :
                req' = [req EXCEPT ![c].pc = p, ![c].user = u, ![c].until = t]
        BY <1>0, <2>2, <4>1 DEF Only, Fields
      <4>2. CASE \E u, t : req' = [req EXCEPT ![c].pc = "count",
                                              ![c].until = t, ![c].user = u]
        BY <1>0, <2>2, <4>2 DEF Only, Fields
      <4>3. CASE \E id : req' = [req EXCEPT ![c].pc = "mint", ![c].id = id]
        BY <1>0, <2>2, <4>3 DEF Only, Fields
      <4>4. QED BY <2>3, <3>2, <4>1, <4>2, <4>3
    <3>3. QED BY <3>1, <3>2
  <2>5. QED BY <2>1, <2>4 DEF Resolving
<1>4. QED BY <1>1, <1>2, <1>3

\* The counters are natural numbers.
LEMMA PermitsNat ==
    ASSUME PermitsInv PROVE inflight \in Nat /\ obs_inflight \in Nat
BY CountedFinite, PermitAssumption, SMTT(30) DEF PermitsInv, PermitsAccounted

\* What a step of one request does with the two semaphores: it keeps what it
\* holds, or takes or gives back one permit of one of them.
Keeps(c) ==
    /\ UNCHANGED << inflight, obs_inflight >>
    /\ Held(req'[c]) = Held(req[c]) /\ Reading(req'[c]) = Reading(req[c])
Takes(c) ==
    /\ inflight # 0 /\ inflight' = inflight - 1 /\ UNCHANGED obs_inflight
    /\ Held(req[c]) = 0 /\ Held(req'[c]) = 1 /\ Reading(req'[c]) = Reading(req[c])
Gives(c) ==
    /\ inflight' = inflight + 1 /\ UNCHANGED obs_inflight
    /\ Held(req[c]) = 1 /\ Held(req'[c]) = 0 /\ Reading(req'[c]) = Reading(req[c])
TakesRead(c) ==
    /\ obs_inflight # 0 /\ obs_inflight' = obs_inflight - 1 /\ UNCHANGED inflight
    /\ Reading(req[c]) = 0 /\ Reading(req'[c]) = 1 /\ Held(req'[c]) = Held(req[c])
GivesRead(c) ==
    /\ obs_inflight' = obs_inflight + 1 /\ UNCHANGED inflight
    /\ Reading(req[c]) = 1 /\ Reading(req'[c]) = 0 /\ Held(req'[c]) = Held(req[c])

\* Sums of one permit.
LEMMA PermitSums ==
    \A n \in Nat, h \in Nat :
        /\ n = n + h - h /\ n + 1 = n + 1 - 0
        /\ n # 0 => n - 1 = n + 0 - 1 /\ n - 1 \in Nat
OBVIOUS

\* A step of one request that takes or gives back what it holds.
LEMMA PermitsOfOne ==
    ASSUME PermitsInv, NEW c \in Clients, Only(c), UNCHANGED bridges,
           \/ Keeps(c) \/ Takes(c) \/ Gives(c) \/ TakesRead(c) \/ GivesRead(c)
    PROVE  PermitsInv'
<1>1. BridgeShape' /\ Open' = Open
  BY DEF PermitsInv, BridgeShape, Open
<1>2. Cardinality(Dispatched') =
            Cardinality(Dispatched) + Held(req'[c]) - Held(req[c])
  BY CountsOfOne
<1>3. Cardinality(Fetching') =
            Cardinality(Fetching) + Reading(req'[c]) - Reading(req[c])
  BY CountsOfOne
<1>4. /\ Held(req[c]) \in Nat /\ Held(req'[c]) \in Nat
      /\ Reading(req[c]) \in Nat /\ Reading(req'[c]) \in Nat
  BY DEF Held, Reading
<1>5. inflight \in Nat /\ obs_inflight \in Nat
  BY PermitsNat
<1>6. /\ inflight' = inflight + Held(req[c]) - Held(req'[c])
      /\ inflight' \in Nat
  <2>1. CASE Keeps(c) \/ TakesRead(c) \/ GivesRead(c)
    <3>1. inflight' = inflight /\ Held(req'[c]) = Held(req[c])
      BY <2>1 DEF Keeps, TakesRead, GivesRead
    <3>2. QED BY <1>4, <1>5, <3>1, PermitSums
  <2>2. CASE Takes(c)
    BY <1>5, <2>2, PermitSums DEF Takes
  <2>3. CASE Gives(c)
    BY <1>5, <2>3, PermitSums DEF Gives
  <2>4. QED BY <2>1, <2>2, <2>3
<1>7. /\ obs_inflight' = obs_inflight + Reading(req[c]) - Reading(req'[c])
      /\ obs_inflight' \in Nat
  <2>1. CASE Keeps(c) \/ Takes(c) \/ Gives(c)
    <3>1. obs_inflight' = obs_inflight /\ Reading(req'[c]) = Reading(req[c])
      BY <2>1 DEF Keeps, Takes, Gives
    <3>2. QED BY <1>4, <1>5, <3>1, PermitSums
  <2>2. CASE TakesRead(c)
    BY <1>5, <2>2, PermitSums DEF TakesRead
  <2>3. CASE GivesRead(c)
    BY <1>5, <2>3, PermitSums DEF GivesRead
  <2>4. QED BY <2>1, <2>2, <2>3
<1>8. inflight' = MaxInflight - Cardinality(Dispatched') - Cardinality(Open')
  <2>1. inflight = MaxInflight - Cardinality(Dispatched) - Cardinality(Open)
    BY DEF PermitsInv, PermitsAccounted
  <2>2. /\ MaxInflight \in Nat /\ Cardinality(Dispatched) \in Nat
        /\ Cardinality(Open) \in Nat
    BY CountedFinite, PermitAssumption
  <2>3. MaxInflight - Cardinality(Dispatched) - Cardinality(Open)
            + Held(req[c]) - Held(req'[c])
        = MaxInflight - (Cardinality(Dispatched) + Held(req'[c]) - Held(req[c]))
            - Cardinality(Open)
    BY <1>4, <2>2
  <2>4. QED BY <1>1, <1>2, <1>6, <2>1, <2>3, Zenon
<1>9. obs_inflight' = ObsInflight - Cardinality(Fetching')
  <2>1. obs_inflight = ObsInflight - Cardinality(Fetching)
    BY DEF PermitsInv, PermitsAccounted
  <2>2. ObsInflight \in Nat /\ Cardinality(Fetching) \in Nat
    BY CountedFinite, PermitAssumption
  <2>3. ObsInflight - Cardinality(Fetching) + Reading(req[c]) - Reading(req'[c])
        = ObsInflight - (Cardinality(Fetching) + Reading(req'[c]) - Reading(req[c]))
    BY <1>4, <2>2
  <2>4. QED BY <1>3, <1>7, <2>1, <2>3, Zenon
<1>10. inflight' >= 0 /\ obs_inflight' >= 0
  BY <1>6, <1>7
<1>11. QED BY <1>1, <1>8, <1>9, <1>10 DEF PermitsInv, PermitsAccounted

\* A request that is handled here holds no permit; the gateway's steps each
\* take, keep or give back one, and the bridge takes over that of its request.
LEMMA GatewayPermits ==
    ASSUME RequestShape, PermitsInv, NEW c \in Clients, GatewayStep(c)
    PROVE  PermitsInv'
<1> USE DEF At
<1>1. Only(c) /\ req[c].pc # "none"
  BY GatewayCarries DEF Carried
<1>2. /\ inflight \in Nat /\ obs_inflight \in Nat
  BY PermitsNat
<1>3. CASE HostGateway(c)
  <2>1. /\ req[c].pc = "act" /\ UNCHANGED << bridges, obs_inflight >>
        /\ \/ Drops(c) /\ UNCHANGED inflight
           \/ /\ inflight # 0 /\ inflight' = inflight - 1
              /\ \E p \in {"connect", "forward"} : Goto(c, p)
    BY <1>3 DEF HostGateway, Background
  <2>2. \/ req'[c].pc = "none" /\ UNCHANGED inflight
        \/ /\ req'[c].pc \in {"connect", "forward"}
           /\ inflight # 0 /\ inflight' = inflight - 1
    BY <1>1, <2>1, Leaves
  <2>3. (Keeps(c) \/ Takes(c)) /\ UNCHANGED bridges
    BY <2>1, <2>2 DEF Keeps, Takes, Held, Reading, Holding
  <2>4. QED BY <1>1, <2>3, PermitsOfOne
<1>4. CASE Forward(c) \/ ForwardRefused(c) \/ Connect(c)
  <2>1. /\ req[c].pc \in {"forward", "connect"}
        /\ UNCHANGED << bridges, obs_inflight, inflight >>
        /\ \/ Goto(c, "proxied")
           \/ \E j : req' = [req EXCEPT ![c].pc = "proxied", ![c].reply = j]
    BY <1>4 DEF Forward, ForwardRefused, Connect, Background
  <2>2. DOMAIN req = Clients /\ DOMAIN req[c] = Fields
    BY <1>1 DEF RequestShape, Shaped, NoRequest
  <2>3. req'[c].pc = "proxied"
    BY <1>1, <2>1, <2>2, Leaves DEF Fields
  <2>4. Keeps(c) /\ UNCHANGED bridges
    BY <2>1, <2>3 DEF Keeps, Held, Reading, Holding
  <2>5. QED BY <1>1, <2>4, PermitsOfOne
<1>5. CASE \/ UpstreamFails(c) \/ ClientGone(c) \/ RecordSubmission(c)
           \/ RecordSubmissionFails(c)
  <2>1. /\ req[c].pc \in Holding
        /\ UNCHANGED << bridges, obs_inflight >>
        /\ inflight' = inflight + 1 /\ Drops(c)
    BY <1>5 DEF UpstreamFails, ClientGone, RecordSubmission,
       RecordSubmissionFails, Background, Answer, Holding
  <2>2. req'[c].pc = "none"
    BY <1>1, <2>1, Leaves
  <2>3. Gives(c) /\ UNCHANGED bridges
    BY <2>1, <2>2 DEF Gives, Held, Reading, Holding
  <2>4. QED BY <1>1, <2>3, PermitsOfOne
<1>6. CASE EmitProxied(c) \/ EmitProxiedFails(c)
  <2>1. req[c].pc = "proxied" /\ AfterAudit(c) /\ UNCHANGED obs_inflight
    BY <1>6 DEF EmitProxied, EmitProxiedFails, Background
  <2>2. \/ OpenBridge(c)
        \/ Goto(c, "record") /\ UNCHANGED << inflight, bridges >>
        \/ Drops(c) /\ inflight' = inflight + 1 /\ UNCHANGED bridges
    BY <2>1 DEF AfterAudit, Answer
  <2>3. CASE Goto(c, "record") /\ UNCHANGED << inflight, bridges >>
    <3>1. req'[c].pc = "record"
      BY <1>1, <2>3, Leaves
    <3>2. Keeps(c) /\ UNCHANGED bridges
      BY <2>1, <2>3, <3>1 DEF Keeps, Held, Reading, Holding
    <3>3. QED BY <1>1, <3>2, PermitsOfOne
  <2>4. CASE Drops(c) /\ inflight' = inflight + 1 /\ UNCHANGED bridges
    <3>1. req'[c].pc = "none"
      BY <1>1, <2>4, Leaves
    <3>2. Gives(c) /\ UNCHANGED bridges
      BY <2>1, <2>4, <3>1 DEF Gives, Held, Reading, Holding
    <3>3. QED BY <1>1, <3>2, PermitsOfOne
  <2>5. CASE OpenBridge(c)
    <3>1. req'[c].pc = "none"
      BY <1>1, <2>5, Leaves DEF OpenBridge
    <3>2. /\ Cardinality(Dispatched) > 0
          /\ Cardinality(Dispatched') = Cardinality(Dispatched) - 1
          /\ Cardinality(Fetching') = Cardinality(Fetching)
      <4>1. /\ req[c].pc \in Holding /\ Held(req[c]) = 1 /\ Held(req'[c]) = 0
            /\ Reading(req[c]) = 0 /\ Reading(req'[c]) = 0
        BY <2>1, <3>1 DEF Held, Reading, Holding
      <4>2. Cardinality(Dispatched) \in Nat /\ Cardinality(Fetching) \in Nat
        BY CountedFinite
      <4>3. /\ Cardinality(Dispatched') = Cardinality(Dispatched) + 0 - 1
            /\ Cardinality(Fetching') = Cardinality(Fetching) + 0 - 0
        BY <1>1, <4>1, CountsOfOne
      <4>4. c \in Dispatched
        BY <4>1 DEF Dispatched, Holding
      <4>5. Cardinality(Dispatched) > 0
        BY <4>4, CountedFinite, Counts
      <4>6. QED BY <4>2, <4>3, <4>5
    <3>3. Cardinality(Open) < Cardinality(Streams)
      <4>1. inflight = MaxInflight - Cardinality(Dispatched) - Cardinality(Open)
        BY DEF PermitsInv, PermitsAccounted
      <4>2. Cardinality(Streams) \in Nat
        BY PermitAssumption, FS_CardinalityType
      <4>3. /\ Cardinality(Dispatched) \in Nat /\ Cardinality(Open) \in Nat
            /\ MaxInflight \in Nat /\ Cardinality(Streams) >= MaxInflight
        BY CountedFinite, PermitAssumption
      <4>4. QED BY <1>2, <3>2, <4>1, <4>2, <4>3
    <3>4. Open # Streams
      BY <3>3, CountedFinite
    <3>5. \E s \in Streams : bridges[s] = Closed
      BY <3>4 DEF Open
    <3>6. PICK b \in Streams :
            /\ bridges[b] = Closed /\ UNCHANGED inflight
            /\ bridges' = [bridges EXCEPT ![b] =
                            [pc |-> "relay", deadline |-> now + BridgeIdle]]
      BY <2>5, <3>5 DEF OpenBridge
    <3>7. DOMAIN bridges = Streams
      BY DEF PermitsInv, BridgeShape
    <3>8. BridgeShape'
      BY <3>6, <3>7 DEF PermitsInv, BridgeShape
    <3>9. b \notin Open /\ Open' = Open \cup {b}
      BY <3>6, <3>7 DEF Open, Closed
    <3>10. Cardinality(Open') = Cardinality(Open) + 1
      BY <3>9, CountedFinite, Counts
    <3>11. PermitsAccounted'
      <4>1. /\ inflight = MaxInflight - Cardinality(Dispatched) - Cardinality(Open)
            /\ obs_inflight = ObsInflight - Cardinality(Fetching)
            /\ inflight' = inflight /\ obs_inflight' = obs_inflight
        BY <2>1, <3>6 DEF PermitsInv, PermitsAccounted
      <4>2. /\ Cardinality(Dispatched) \in Nat /\ Cardinality(Open) \in Nat
            /\ MaxInflight \in Nat /\ ObsInflight \in Nat
        BY CountedFinite, PermitAssumption
      <4>3. inflight' =
              MaxInflight - Cardinality(Dispatched') - Cardinality(Open')
        BY <3>2, <3>10, <4>1, <4>2
      <4>4. obs_inflight' = ObsInflight - Cardinality(Fetching')
        BY <3>2, <4>1
      <4>5. inflight' >= 0 /\ obs_inflight' >= 0
        BY <1>2, <4>1
      <4>6. QED BY <4>3, <4>4, <4>5 DEF PermitsAccounted
    <3>12. QED BY <3>8, <3>11 DEF PermitsInv
  <2>6. QED BY <2>2, <2>3, <2>4, <2>5
<1>7. CASE ResolveScope(c) \/ ResolveScopeFails(c) \/ ListJobs(c)
  <2>1. /\ req[c].pc \in {"scope", "act"}
        /\ UNCHANGED << bridges, obs_inflight, inflight >>
        /\ \/ Drops(c) \/ Goto(c, "authorize")
           \/ \E p : req' = [req EXCEPT ![c].pc = "authorize",
                                        ![c].route.project = p]
    BY <1>7 DEF ResolveScope, ResolveScopeFails, ScopeForRead, ListJobs, Acts,
       ReadFrame
  <2>2. DOMAIN req = Clients /\ DOMAIN req[c] = Fields
    BY <1>1 DEF RequestShape, Shaped, NoRequest
  <2>3. req'[c].pc \in {"none", "authorize"}
    BY <1>1, <2>1, <2>2, Leaves DEF Fields, NoRequest
  <2>4. Keeps(c) /\ UNCHANGED bridges
    BY <2>1, <2>3 DEF Keeps, Held, Reading, Holding
  <2>5. QED BY <1>1, <2>4, PermitsOfOne
<1>8. CASE FetchDashboard(c)
  <2>1. /\ req[c].pc = "dashboard" /\ UNCHANGED << bridges, inflight >>
        /\ obs_inflight' = obs_inflight + 1 /\ Drops(c)
    BY <1>8 DEF FetchDashboard, ReadFrame
  <2>2. req'[c].pc = "none"
    BY <1>1, <2>1, Leaves
  <2>3. GivesRead(c) /\ UNCHANGED bridges
    BY <2>1, <2>2 DEF GivesRead, Held, Reading, Holding
  <2>4. QED BY <1>1, <2>3, PermitsOfOne
<1>9. QED BY <1>3, <1>4, <1>5, <1>6, <1>7, <1>8 DEF GatewayStep

\* A read of a cluster takes one permit of its own semaphore, for the call to
\* the dashboard.
LEMMA ReadPermits ==
    ASSUME RequestShape, PermitsInv, NEW c \in Clients, ReadStep(c)
    PROVE  PermitsInv'
<1> USE DEF At
<1>1. Only(c) /\ req[c].pc # "none"
  <2>1. Only(c) /\ Carried(c)
    BY ReadCarries
  <2>2. QED BY <2>1 DEF Carried
<1>2. /\ inflight \in Nat /\ obs_inflight \in Nat
  BY PermitsNat
<1>3. CASE \/ ClusterNodes(c) \/ ClusterEvents(c) \/ ClusterLogs(c)
           \/ ProbeDask(c) \/ ProbeFails(c) \/ Remember(c)
  <2>1. /\ req[c].pc \in {"act", "probe", "remember"}
        /\ UNCHANGED << bridges, obs_inflight, inflight >>
        /\ \/ Drops(c) \/ Goto(c, "probe")
           \/ \E e : req' = [req EXCEPT ![c].pc = "remember", ![c].reply = e]
    BY <1>3 DEF ClusterNodes, ClusterEvents, ClusterLogs, EngineOf, Acts,
       ProbeDask, ProbeFails, Remember, RouterFrame, plane
  <2>2. DOMAIN req = Clients /\ DOMAIN req[c] = Fields
    BY <1>1 DEF RequestShape, Shaped, NoRequest
  <2>3. req'[c].pc \in {"none", "probe", "remember"}
    BY <1>1, <2>1, <2>2, Leaves DEF Fields, NoRequest
  <2>4. Keeps(c) /\ UNCHANGED bridges
    BY <2>1, <2>3 DEF Keeps, Held, Reading, Holding
  <2>5. QED BY <1>1, <2>4, PermitsOfOne
<1>4. CASE ClusterJobs(c) \/ ClusterMetrics(c)
  <2>1. /\ req[c].pc = "act" /\ UNCHANGED << bridges, inflight >>
        /\ \/ Drops(c) /\ UNCHANGED obs_inflight
           \/ /\ obs_inflight # 0 /\ obs_inflight' = obs_inflight - 1
              /\ Goto(c, "dashboard")
    BY <1>4 DEF ClusterJobs, ClusterMetrics, Acts, Southbound, ReadFrame
  <2>2. \/ req'[c].pc = "none" /\ UNCHANGED obs_inflight
        \/ /\ req'[c].pc = "dashboard"
           /\ obs_inflight # 0 /\ obs_inflight' = obs_inflight - 1
    <3>1. CASE Drops(c) /\ UNCHANGED obs_inflight
      BY <1>1, <3>1, Leaves
    <3>2. CASE ~(Drops(c) /\ UNCHANGED obs_inflight)
      BY <1>1, <2>1, <3>2, Leaves
    <3>3. QED BY <3>1, <3>2
  <2>3. (Keeps(c) \/ TakesRead(c)) /\ UNCHANGED bridges
    BY <2>1, <2>2 DEF Keeps, TakesRead, Held, Reading, Holding
  <2>4. QED BY <1>1, <2>3, PermitsOfOne
<1>5. QED BY <1>3, <1>4 DEF ReadStep

\* A bridge gives its permit back when it closes.
LEMMA BridgePermits ==
    ASSUME PermitsInv, NEW b \in Streams,
           \/ RelayFrame(b) \/ FrameSent(b)
           \/ BridgeBreaks(b) \/ BridgeIdles(b) \/ BridgeCloses(b)
    PROVE  PermitsInv'
<1>1. UNCHANGED << req, obs_inflight >>
  BY DEF RelayFrame, FrameSent, BridgeBreaks, BridgeIdles, BridgeCloses,
     BridgeFrame, Background
<1>2. Dispatched' = Dispatched /\ Fetching' = Fetching
  BY <1>1 DEF Dispatched, Fetching, At
<1>3. /\ DOMAIN bridges = Streams /\ bridges[b] # Closed
      /\ DOMAIN bridges[b] = {"pc", "deadline"}
  BY DEF PermitsInv, BridgeShape, RelayFrame, FrameSent, BridgeBreaks,
     BridgeIdles, BridgeCloses, Closed
<1>4. CASE ~BridgeCloses(b)
  <2>1. /\ UNCHANGED inflight /\ DOMAIN bridges' = Streams
        /\ \A x \in Streams \ {b} : bridges'[x] = bridges[x]
        /\ DOMAIN bridges'[b] = {"pc", "deadline"}
        /\ bridges'[b].pc \in {"relay", "send", "closing"}
    BY <1>3, <1>4 DEF RelayFrame, FrameSent, BridgeBreaks, BridgeIdles
  <2>2. BridgeShape' /\ Open' = Open
    BY <1>3, <2>1 DEF PermitsInv, BridgeShape, Open, Closed
  <2>3. PermitsAccounted'
    BY <1>1, <1>2, <2>1, <2>2 DEF PermitsInv, PermitsAccounted
  <2>4. QED BY <2>2, <2>3 DEF PermitsInv
<1>5. CASE BridgeCloses(b)
  <2>1. /\ bridges' = [bridges EXCEPT ![b] = Closed]
        /\ inflight' = inflight + 1
    BY <1>5 DEF BridgeCloses
  <2>2. BridgeShape' /\ Open' = Open \ {b} /\ b \in Open
    BY <1>3, <2>1 DEF PermitsInv, BridgeShape, Open
  <2>3. Cardinality(Open') = Cardinality(Open) - 1
    BY <2>2, CountedFinite, Counts
  <2>4. /\ inflight = MaxInflight - Cardinality(Dispatched) - Cardinality(Open)
        /\ obs_inflight' = ObsInflight - Cardinality(Fetching')
        /\ obs_inflight' >= 0
    BY <1>1, <1>2 DEF PermitsInv, PermitsAccounted
  <2>5. /\ MaxInflight \in Nat /\ Cardinality(Dispatched) \in Nat
        /\ Cardinality(Open) \in Nat /\ inflight \in Nat
    BY PermitsNat, CountedFinite, PermitAssumption
  <2>6. inflight' = MaxInflight - Cardinality(Dispatched') - Cardinality(Open')
    BY <1>2, <2>1, <2>3, <2>4, <2>5
  <2>7. inflight' >= 0
    BY <2>1, <2>5
  <2>8. QED BY <2>2, <2>4, <2>6, <2>7 DEF PermitsInv, PermitsAccounted
<1>6. QED BY <1>4, <1>5

\* The accounts balance after every step.
LEMMA PermitsStep ==
    ASSUME RequestShape, PermitsInv, [RouterNext]_rvars
    PROVE  PermitsInv'
<1>1. ASSUME UNCHANGED << req, bridges, inflight, obs_inflight >>
      PROVE  PermitsInv'
  BY <1>1 DEF PermitsInv, BridgeShape, PermitsAccounted, Dispatched, Open,
     Fetching, At
<1>2. CASE UNCHANGED rvars
  BY <1>1, <1>2 DEF rvars, jvars, cvars, plane
<1>3. CASE AccessNext /\ UNCHANGED plane
  <2>1. UNCHANGED << bridges, inflight, obs_inflight >>
    BY <1>3 DEF plane
  <2>2. CASE Tick \/ Rotate
    BY <1>1, <2>1, <2>2 DEF Tick, Rotate
  <2>3. ASSUME NEW c \in Clients, RequestStep(c)
        PROVE  PermitsInv'
    <3>1. ResolveStep(c) \/ HandleStep(c)
      BY <2>3 DEF RequestStep, ResolveStep, HandleStep
    <3>2. /\ Only(c)
          /\ Held(req'[c]) = Held(req[c]) /\ Reading(req'[c]) = Reading(req[c])
      BY <3>1, AccessHoldsNone DEF Held, Reading
    <3>3. Keeps(c)
      BY <2>1, <3>2 DEF Keeps
    <3>4. QED BY <2>1, <3>2, <3>3, PermitsOfOne
  <2>4. QED BY <1>3, <2>2, <2>3 DEF AccessNext
<1>4. CASE PlaneStep
  <2>1. CASE \E c \in Clients : GatewayStep(c)
    BY <2>1, GatewayPermits
  <2>2. CASE \E b \in Streams : \/ RelayFrame(b) \/ FrameSent(b)
                                \/ BridgeBreaks(b) \/ BridgeIdles(b)
                                \/ BridgeCloses(b)
    BY <2>2, BridgePermits
  <2>3. CASE ~\/ \E c \in Clients : GatewayStep(c)
              \/ \E b \in Streams : \/ RelayFrame(b) \/ FrameSent(b)
                                    \/ BridgeBreaks(b) \/ BridgeIdles(b)
                                    \/ BridgeCloses(b)
    <3>1. UNCHANGED << req, bridges, inflight, obs_inflight >>
      BY <1>4, <2>3 DEF PlaneStep, JobProgresses, RefreshList, RefreshFetch,
         RefreshUnreachable, RefreshRecord, RefreshFails, RefreshFrame,
         ReapRows, ReapJobs, ReapOne, ReapFails, ReapFrame
    <3>2. QED BY <1>1, <3>1
  <2>4. QED BY <2>1, <2>2, <2>3
<1>5. CASE RouterStep
  <2>1. CASE \E c \in Clients : ReadStep(c)
    BY <2>1, ReadPermits
  <2>2. CASE ~\E c \in Clients : ReadStep(c)
    <3>1. UNCHANGED << req, bridges, inflight, obs_inflight >>
      BY <1>5, <2>2 DEF RouterStep, ReadStep, UpsertCluster, DeleteCluster,
         BeginPass, Observe, Warm, RayObserve, DecideOne, ApplyRemembers, Create, Terminate,
         Record, PassFails, LoopFrame
    <3>2. QED BY <1>1, <3>1
  <2>3. QED BY <2>1, <2>2
<1>6. QED BY <1>2, <1>3, <1>4, <1>5 DEF RouterNext, PlaneNext

\* Permits taken and given back balance, for any size of the two semaphores and
\* any number of clients and bridges.
THEOREM PermitsBalance == RouterSpec => []PermitsAccounted
<1>1. RouterInit => PermitsInv
  <2>1. SUFFICES ASSUME RouterInit PROVE PermitsInv
    OBVIOUS
  <2>2. /\ req = [c \in Clients |-> NoRequest]
        /\ bridges = [b \in Streams |-> Closed]
        /\ inflight = MaxInflight /\ obs_inflight = ObsInflight
    BY <2>1 DEF RouterInit, PlaneInit, AccessInit
  <2>3. Dispatched = {} /\ Fetching = {} /\ Open = {}
    BY <2>2 DEF Dispatched, Fetching, Open, At, NoRequest
  <2>4. Cardinality(Dispatched) = 0 /\ Cardinality(Fetching) = 0
        /\ Cardinality(Open) = 0
    BY <2>3, FS_EmptySet
  <2>5. PermitsAccounted
    BY <2>2, <2>4, PermitAssumption DEF PermitsAccounted
  <2>6. BridgeShape
    BY <2>2 DEF BridgeShape
  <2>7. QED BY <2>5, <2>6 DEF PermitsInv
<1>2. AuthorityInv /\ PermitsInv /\ [RouterNext]_rvars => PermitsInv'
  BY PermitsStep DEF AuthorityInv
<1>3. PermitsInv => PermitsAccounted
  BY DEF PermitsInv
<1>4. QED BY <1>1, <1>2, <1>3, AuthorityInvariant, PTL DEF RouterSpec

-----------------------------------------------------------------------------
(* The cache of engines.                                                   *)

\* A step that moves no CR and no cache entry, in which no request comes to have
\* an answer to cache.
LEMMA RouterFramed ==
    ASSUME RouterInv, UNCHANGED router, DOMAIN fleet' = DOMAIN fleet,
           \A k \in DOMAIN fleet :
                "engine" \in DOMAIN fleet'[k] /\ fleet'[k].engine \in Engines,
           \A c \in Clients : req'[c] = req[c] \/ req'[c].pc # "remember"
    PROVE  RouterInv'
<1>1. UNCHANGED << engines, backing, loop, guess, misled, left >>
  BY DEF router
<1>2. LoopShape'
  BY <1>1 DEF RouterInv, LoopShape
<1>3. \A k, e : Owns(k, e)' <=> Owns(k, e)
  BY <1>1 DEF Owns
<1>4. OneOwner'
  BY <1>1, <1>3 DEF RouterInv, OneOwner
<1>5. ASSUME NEW k, NEW e, Names(k, e) PROVE Names(k, e)'
  BY <1>3, <1>5 DEF Names
<1>6. AnswersRight'
  <2>1. ASSUME NEW k \in DOMAIN engines' \ misled' PROVE Names(k, engines[k])'
    BY <1>1, <1>5, <2>1 DEF RouterInv, AnswersRight
  <2>2. ASSUME NEW c \in Clients \ guess', At(c, "remember")'
        PROVE  Names(Requested(c), req[c].reply)'
    <3>1. req'[c] = req[c] /\ At(c, "remember") /\ c \in Clients \ guess
      BY <1>1, <2>2 DEF At
    <3>2. Names(Requested(c), req[c].reply)
      BY <3>1 DEF RouterInv, AnswersRight
    <3>3. QED BY <1>3, <3>1, <3>2 DEF Names, Requested
  <2>3. loop'.pc = "warm" => Names(loop.id, loop.engine)'
    BY <1>1, <1>3 DEF RouterInv, AnswersRight, Names
  <2>4. loop'.pc = "ray" => <<loop'.id, "dask">> \notin backing' \ left'
    BY <1>1 DEF RouterInv, AnswersRight
  <2>5. QED BY <2>1, <2>2, <2>3, <2>4 DEF AnswersRight
<1>7. CacheNamesOwner'
  BY <1>1 DEF RouterInv, CacheNamesOwner
<1>8. QED BY <1>2, <1>4, <1>6, <1>7 DEF RouterInv

\* Requests, gateway, job history and reaper: the reaper writes the desired
\* state of a row.
LEMMA PlaneKeepsRouter ==
    ASSUME RequestShape, RouterInv, PlaneNext, UNCHANGED router
    PROVE  RouterInv'
<1>1. CASE UNCHANGED fleet
  <2>1. ASSUME NEW c \in Clients,
               ResolveStep(c) \/ HandleStep(c) \/ GatewayStep(c)
        PROVE  Only(c) /\ req'[c].pc # "remember"
    BY <2>1, AccessHoldsNone, GatewayCarries
  <2>2. \A c \in Clients : req'[c] = req[c] \/ req'[c].pc # "remember"
    <3>1. CASE AccessNext
      <4>1. CASE Tick \/ Rotate
        BY <4>1 DEF Tick, Rotate
      <4>2. CASE \E c \in Clients : RequestStep(c)
        <5>1. PICK c \in Clients : ResolveStep(c) \/ HandleStep(c)
          BY <4>2 DEF RequestStep, ResolveStep, HandleStep
        <5>2. QED BY <2>1, <5>1 DEF Only
      <4>3. QED BY <3>1, <4>1, <4>2 DEF AccessNext
    <3>2. CASE PlaneStep
      <4>1. CASE \E c \in Clients : GatewayStep(c)
        BY <2>1, <4>1 DEF Only
      <4>2. CASE ~\E c \in Clients : GatewayStep(c)
        <5>1. ElseStep
          BY <3>2, <4>2 DEF PlaneStep, ElseStep
        <5>2. QED BY <5>1, ElseStands
      <4>3. QED BY <4>1, <4>2
    <3>3. QED BY <3>1, <3>2 DEF PlaneNext
  <2>3. QED BY <1>1, <2>2, RouterFramed DEF RouterInv, LoopShape
<1>2. CASE ~UNCHANGED fleet
  <2>1. ReapOne
    BY <1>2 DEF PlaneNext, plane, PlaneStep, GatewayStep, HostGateway, Forward,
       ForwardRefused, Connect, UpstreamFails, ClientGone, EmitProxied,
       EmitProxiedFails, RecordSubmission, RecordSubmissionFails,
       ResolveScope, ResolveScopeFails, FetchDashboard, ListJobs, ReadFrame,
       Background, RelayFrame, FrameSent, BridgeBreaks, BridgeIdles,
       BridgeCloses, BridgeFrame, JobProgresses, RefreshList, RefreshFetch,
       RefreshUnreachable, RefreshRecord, RefreshFails, RefreshFrame,
       ReapRows, ReapJobs, ReapFails
  <2>2. PICK k : fleet' = [fleet EXCEPT ![k].desired = "Terminated"]
    BY <1>2, <2>1 DEF ReapOne
  <2>3. /\ DOMAIN fleet' = DOMAIN fleet
        /\ \A x \in DOMAIN fleet : "engine" \in DOMAIN fleet'[x]
                                   /\ fleet'[x].engine \in Engines
    BY <2>2 DEF RouterInv, LoopShape
  <2>4. UNCHANGED req
    BY <2>1 DEF ReapOne, ReapFrame
  <2>5. QED BY <2>3, <2>4, RouterFramed
<1>3. QED BY <1>1, <1>2

\* Reads: an answer is the probe's, and is right unless it counts as a guess.
LEMMA ReadKeepsRouter ==
    ASSUME RequestShape, RouterInv, NEW c \in Clients, ReadStep(c)
    PROVE  RouterInv'
<1> USE DEF At
<1>1. /\ Only(c) /\ req[c].pc # "none"
      /\ DOMAIN req = Clients /\ DOMAIN req[c] = Fields
  <2>1. Only(c) /\ Carried(c)
    BY ReadCarries
  <2>2. Only(c) /\ req[c].pc # "none"
    BY <2>1 DEF Carried
  <2>3. QED BY <2>2, ShapeOf DEF RequestShape
<1>2. UNCHANGED << fleet, backing, loop, left >>
  BY DEF ReadStep, ClusterNodes, ClusterEvents, ClusterLogs, EngineOf,
     ProbeDask, ProbeFails, Remember, ClusterJobs, ClusterMetrics, Southbound,
     RouterFrame, ReadFrame, router, plane
<1>3. \A k, e : Owns(k, e)' <=> Owns(k, e)
  BY <1>2 DEF Owns
<1>4. LoopShape'
  BY <1>2 DEF RouterInv, LoopShape
<1>5. /\ loop'.pc = "warm" => Names(loop.id, loop.engine)'
      /\ loop'.pc = "ray" => <<loop'.id, "dask">> \notin backing' \ left'
  BY <1>2, <1>3 DEF RouterInv, AnswersRight, Names
<1>10. ASSUME DOMAIN engines \subseteq DOMAIN engines' PROVE OneOwner'
  BY <1>2, <1>3, <1>10 DEF RouterInv, OneOwner
<1>6. CASE \/ ClusterNodes(c) \/ ClusterEvents(c) \/ ClusterLogs(c)
           \/ ClusterJobs(c) \/ ClusterMetrics(c)
  <2>1. UNCHANGED router /\ (Drops(c) \/ Goto(c, "probe") \/ Goto(c, "dashboard"))
    BY <1>6 DEF ClusterNodes, ClusterEvents, ClusterLogs, EngineOf,
       ClusterJobs, ClusterMetrics, Southbound
  <2>2. req'[c].pc # "remember"
    <3>1. /\ Drops(c) => req'[c].pc = "none"
          /\ \A p : Goto(c, p) => req'[c].pc = p
      BY <1>1, Leaves
    <3>2. req'[c].pc \in {"none", "probe", "dashboard"}
      BY <2>1, <3>1
    <3>3. QED BY <3>2
  <2>3. QED
    BY <1>1, <1>2, <2>1, <2>2, RouterFramed DEF Only, RouterInv, LoopShape
<1>7. CASE ProbeDask(c) \/ ProbeFails(c)
  <2>1. UNCHANGED << engines, misled >> /\ guess \subseteq guess'
    BY <1>7 DEF ProbeDask, ProbeFails
  <2> DEFINE k0 == Requested(c)
  <2>2. PICK answer \in Engines :
          /\ req' = [req EXCEPT ![c].pc = "remember", ![c].reply = answer]
          /\ \/ c \in guess'
             \/ /\ answer = "dask" /\ <<k0, "dask">> \in backing \ left
             \/ /\ answer = "ray" /\ <<k0, "dask">> \notin backing
                /\ ~(/\ loop.pc = "create" /\ loop.id = k0
                     /\ loop.row.engine # "ray")
    <3>1. CASE ProbeDask(c)
      BY <3>1 DEF ProbeDask, Engines
    <3>2. CASE ProbeFails(c)
      BY <3>2 DEF ProbeFails, Engines
    <3>3. QED BY <1>7, <3>1, <3>2
  <2>3. /\ req'[c].reply = answer /\ Requested(c)' = Requested(c)
        /\ \A d \in Clients \ {c} : req'[d] = req[d]
    BY <1>1, <2>2 DEF Fields, Requested, Only
  <2>4. c \in guess' \/ Names(k0, answer)
    <3>1. SUFFICES ASSUME c \notin guess', NEW e \in Engines, Owns(k0, e)
                   PROVE  answer = e
      BY DEF Names
    <3>2. CASE answer = "dask"
      <4>1. Owns(k0, "dask")
        BY <2>2, <3>1, <3>2 DEF Owns
      <4>2. QED BY <3>1, <3>2, <4>1 DEF RouterInv, OneOwner, Engines
    <3>3. CASE answer = "ray"
      <4>1. ~Owns(k0, "dask")
        BY <2>2, <3>1, <3>3 DEF Owns
      <4>2. QED BY <3>1, <3>3, <4>1 DEF Engines
    <3>4. QED BY <3>2, <3>3 DEF Engines
  <2>5. ASSUME NEW d \in Clients \ guess', At(d, "remember")'
        PROVE  Names(Requested(d), req[d].reply)'
    <3>1. CASE d = c
      <4>1. Names(Requested(c), answer)
        BY <2>4, <2>5, <3>1
      <4>2. req'[c].reply = answer /\ req'[c].route.id = req[c].route.id
        BY <2>3 DEF Requested
      <4>3. QED BY <1>3, <3>1, <4>1, <4>2 DEF Names, Requested
    <3>2. CASE d # c
      <4>1. d \in Clients \ guess /\ req'[d] = req[d]
        BY <2>1, <2>3, <3>2
      <4>2. Names(Requested(d), req[d].reply)
        BY <2>5, <4>1 DEF RouterInv, AnswersRight
      <4>3. QED BY <1>3, <4>1, <4>2 DEF Names, Requested
    <3>3. QED BY <3>1, <3>2
  <2>6. ASSUME NEW k \in DOMAIN engines' \ misled' PROVE Names(k, engines[k])'
    BY <1>3, <2>1, <2>6 DEF RouterInv, AnswersRight, Names
  <2>7. AnswersRight'
    BY <1>5, <2>5, <2>6 DEF AnswersRight
  <2>8. CacheNamesOwner'
    BY <1>2, <2>1 DEF RouterInv, CacheNamesOwner
  <2>9. QED BY <1>4, <1>10, <2>1, <2>7, <2>8 DEF RouterInv
<1>8. CASE Remember(c)
  <2> DEFINE k0 == Requested(c)
  <2>1. /\ req[c].pc = "remember"
        /\ engines' = Put(engines, k0, req[c].reply)
        /\ misled \subseteq misled' /\ (c \in guess => k0 \in misled')
        /\ guess' = guess \ {c} /\ Drops(c)
    BY <1>8 DEF Remember
  <2>2. req'[c] = NoRequest /\ \A d \in Clients \ {c} : req'[d] = req[d]
    BY <1>1, <2>1, Leaves DEF Only
  <2>3. ASSUME NEW d \in Clients \ guess', At(d, "remember")'
        PROVE  Names(Requested(d), req[d].reply)'
    <3>1. d # c
      <4>1. NoRequest.pc # "remember"
        BY DEF NoRequest
      <4>2. QED BY <2>2, <2>3, <4>1
    <3>2. d \in Clients \ guess /\ req'[d] = req[d]
      BY <2>1, <2>2, <2>3, <3>1
    <3>3. Names(Requested(d), req[d].reply)
      BY <2>3, <3>2 DEF RouterInv, AnswersRight
    <3>4. QED BY <1>3, <3>2, <3>3 DEF Names, Requested
  <2>4. ASSUME NEW k \in DOMAIN engines' \ misled' PROVE Names(k, engines'[k])
    <3>1. CASE k = k0
      <4>1. c \in Clients \ guess /\ engines'[k] = req[c].reply
        BY <2>1, <2>4, <3>1 DEF Put
      <4>2. QED BY <2>1, <3>1, <4>1 DEF RouterInv, AnswersRight
    <3>2. CASE k # k0
      <4>1. k \in DOMAIN engines \ misled /\ engines'[k] = engines[k]
        BY <2>1, <2>4, <3>2 DEF Put
      <4>2. QED BY <4>1 DEF RouterInv, AnswersRight
    <3>3. QED BY <3>1, <3>2
  <2>5. \A k \in DOMAIN engines' \ misled' : Names(k, engines[k])'
    BY <1>3, <2>4 DEF Names
  <2>6. AnswersRight'
    BY <1>5, <2>3, <2>5 DEF AnswersRight
  <2>7. CacheNamesOwner'
    BY <1>2, <2>1, <2>4 DEF RouterInv, CacheNamesOwner, Names, Owns
  <2>8. DOMAIN engines \subseteq DOMAIN engines'
    BY <2>1 DEF Put
  <2>9. QED BY <1>4, <1>10, <2>6, <2>7, <2>8 DEF RouterInv
<1>9. QED BY <1>6, <1>7, <1>8 DEF ReadStep

\* A step of the loop that writes no cache entry: what was right stays right, as
\* long as every CR it leaves was there or about to be made.
LEMMA PassMoves ==
    ASSUME RouterInv, UNCHANGED << engines, guess, misled, left, req >>,
           LoopShape', \A k, e : Owns(k, e)' => Owns(k, e),
           loop'.pc = "warm" => Names(loop.id, loop.engine)',
           loop'.pc = "ray" => <<loop'.id, "dask">> \notin backing' \ left',
           loop'.pc = "record" /\ ~loop'.found /\ loop'.id \notin misled'
           => \A e \in Engines : <<loop'.id, e>> \notin backing' \ left'
    PROVE  RouterInv'
<1>1. ASSUME NEW k \in DOMAIN engines' \ misled' PROVE Names(k, engines[k])'
  <2>1. Names(k, engines[k])
    BY <1>1 DEF RouterInv, AnswersRight
  <2>2. QED BY <2>1 DEF Names
<1>2. ASSUME NEW c \in Clients \ guess', At(c, "remember")'
      PROVE  Names(Requested(c), req[c].reply)'
  <2>1. Names(Requested(c), req[c].reply)
    BY <1>2 DEF RouterInv, AnswersRight, At
  <2>2. QED BY <2>1 DEF Names, Requested
<1>3. AnswersRight'
  BY <1>1, <1>2 DEF AnswersRight
<1>4. CacheNamesOwner'
  BY <1>1 DEF CacheNamesOwner, Names, Owns
<1>5. OneOwner'
  BY DEF RouterInv, OneOwner
<1>6. QED BY <1>3, <1>4, <1>5 DEF RouterInv

PassStep ==
    \/ \E k \in DOMAIN fleet : BeginPass(k)
    \/ Observe \/ Warm \/ RayObserve \/ DecideOne \/ ApplyRemembers \/ Create
    \/ Terminate \/ Record \/ PassFails

\* An apply knows its engine: no other CR is the cluster's after it, and those
\* of other clusters are as before.
LEMMA SupersededOwns ==
    ASSUME NEW k, NEW own \in Engines, UNCHANGED backing,
           left' = Superseded(k, own),
           loop'.pc = "create", loop'.id = k, loop'.row.engine = own,
           loop.pc # "create"
    PROVE  /\ \A e \in Engines : Owns(k, e)' => e = own
           /\ \A i : i # k =>
                \A e \in Engines : /\ Owns(i, e)' => Owns(i, e)
                                   /\ <<i, e>> \in left' => <<i, e>> \in left
<1>1. left' = (left \ {<<k, own>>}) \cup
              {<<k, e>> : e \in {f \in Engines \ {own} : <<k, f>> \in backing}}
  BY DEF Superseded
<1>2. ASSUME NEW e \in Engines, Owns(k, e)', e # own PROVE FALSE
  <2>1. <<k, e>> \in backing /\ <<k, e>> \notin left'
    BY <1>2 DEF Owns
  <2>2. QED BY <1>1, <1>2, <2>1
<1>3. ASSUME NEW i, i # k, NEW e \in Engines
      PROVE  <<i, e>> \in left' <=> <<i, e>> \in left
  BY <1>1, <1>3
<1>4. ASSUME NEW i, i # k, NEW e \in Engines, Owns(i, e)' PROVE Owns(i, e)
  BY <1>3, <1>4 DEF Owns
<1>5. QED BY <1>2, <1>3, <1>4

\* The pass of the loop.
LEMMA PassKeepsRouter ==
    ASSUME RouterInv, PassStep
    PROVE  RouterInv'
<1> DEFINE F == {"pc", "then", "id", "row", "engine", "found"}
<1>1. UNCHANGED req
  BY DEF PassStep, BeginPass, Observe, Warm, RayObserve, DecideOne,
     ApplyRemembers, Create, Terminate, Record, PassFails, LoopFrame
<1>2. ASSUME loop.pc # "idle"
      PROVE  /\ loop # Waiting /\ DOMAIN loop = F
             /\ loop.then \in {"decide", "record"}
             /\ loop.row.engine \in Engines
  BY <1>2 DEF RouterInv, LoopShape, Waiting
<1>3. ASSUME backing' \subseteq backing, UNCHANGED left, loop'.pc # "create"
      PROVE  \A k, e : Owns(k, e)' => Owns(k, e)
  BY <1>3 DEF Owns
<1>4. ASSUME UNCHANGED fleet,
             \/ loop' = Waiting
             \/ /\ DOMAIN loop' = F /\ loop'.then \in {"decide", "record"}
                /\ loop'.row.engine \in Engines
      PROVE  LoopShape'
  BY <1>4 DEF RouterInv, LoopShape
<1>5. CASE \E k \in DOMAIN fleet : BeginPass(k)
  <2>1. PICK k \in DOMAIN fleet : BeginPass(k)
    BY <1>5
  <2>2. /\ loop' = [pc |-> "observe", then |-> "decide", id |-> k,
                    row |-> fleet[k], engine |-> "none", found |-> FALSE]
        /\ UNCHANGED << fleet, engines, backing, guess, misled, left >>
    BY <2>1 DEF BeginPass
  <2>3. fleet[k].engine \in Engines
    BY DEF RouterInv, LoopShape
  <2>4. LoopShape'
    BY <1>4, <2>2, <2>3
  <2>5. QED BY <1>1, <1>3, <2>2, <2>4, PassMoves
<1>6. CASE Observe
  <2>1. /\ loop.pc = "observe"
        /\ UNCHANGED << fleet, engines, backing, guess, misled, left >>
    BY <1>6 DEF Observe
  <2>2. /\ DOMAIN loop = F /\ loop.then \in {"decide", "record"}
        /\ loop.row.engine \in Engines
    BY <1>2, <2>1
  <2>3. CASE loop.id \in DOMAIN engines
    <3>1. loop' = [loop EXCEPT !.pc = loop.then,
                        !.found = <<loop.id, engines[loop.id]>> \in backing]
      BY <1>6, <2>3 DEF Observe
    <3>2. /\ DOMAIN loop' = F /\ loop'.pc \in {"decide", "record"}
          /\ loop'.then = loop.then /\ loop'.id = loop.id /\ loop'.row = loop.row
          /\ loop'.found = (<<loop.id, engines[loop.id]>> \in backing)
      BY <2>2, <3>1
    <3>3. LoopShape'
      BY <1>4, <2>1, <2>2, <3>2
    <3>4. ASSUME ~loop'.found, loop'.id \notin misled', NEW e \in Engines
          PROVE  <<loop'.id, e>> \notin backing' \ left'
      <4>1. <<loop.id, e>> \in backing \ left => engines[loop.id] = e
        BY <2>1, <2>3, <3>2, <3>4 DEF RouterInv, CacheNamesOwner
      <4>2. QED BY <2>1, <3>2, <3>4, <4>1
    <3>5. QED BY <1>1, <1>3, <2>1, <3>2, <3>3, <3>4, PassMoves
  <2>4. CASE loop.id \notin DOMAIN engines
    <3>1. loop' = [loop EXCEPT !.pc = "warm",
                        !.engine = IF <<loop.id, "dask">> \in backing
                                   THEN "dask" ELSE "ray"]
      BY <1>6, <2>4 DEF Observe
    <3>2. /\ DOMAIN loop' = F /\ loop'.pc = "warm"
          /\ loop'.then = loop.then /\ loop'.id = loop.id /\ loop'.row = loop.row
          /\ loop'.engine = IF <<loop.id, "dask">> \in backing
                            THEN "dask" ELSE "ray"
      BY <2>2, <3>1
    <3>3. LoopShape'
      BY <1>4, <2>1, <2>2, <3>2
    <3>4. \A e \in Engines : Owns(loop.id, e) <=> <<loop.id, e>> \in backing
      BY <2>1, <2>4 DEF RouterInv, OneOwner, Owns
    <3>5. ~(Owns(loop.id, "ray") /\ Owns(loop.id, "dask"))
      BY DEF RouterInv, OneOwner
    <3>6. ASSUME NEW e \in Engines, Owns(loop.id, e) PROVE loop'.engine = e
      BY <3>2, <3>4, <3>5, <3>6 DEF Engines
    <3>7. \A k, e : Owns(k, e)' => Owns(k, e)
      BY <1>3, <2>1, <3>2
    <3>8. Names(loop.id, loop.engine)'
      BY <3>2, <3>6, <3>7 DEF Names
    <3>9. QED BY <1>1, <2>1, <3>2, <3>3, <3>7, <3>8, PassMoves
  <2>5. QED BY <2>3, <2>4
<1>7. CASE Warm
  <2>1. /\ loop.pc = "warm" /\ engines' = Put(engines, loop.id, loop.engine)
        /\ UNCHANGED << fleet, backing, guess, misled, left >>
        /\ loop' = IF loop.engine = "dask"
                   THEN [loop EXCEPT !.pc = loop.then, !.found = TRUE]
                   ELSE [loop EXCEPT !.pc = "ray"]
    BY <1>7 DEF Warm
  <2>2. /\ DOMAIN loop = F /\ loop.then \in {"decide", "record"}
        /\ loop.row.engine \in Engines
    BY <1>2, <2>1
  <2>3. /\ DOMAIN loop' = F /\ loop'.then = loop.then /\ loop'.id = loop.id
        /\ loop'.row = loop.row
        /\ \/ loop'.pc \in {"decide", "record"} /\ loop'.found = TRUE
           \/ loop'.pc = "ray" /\ loop.engine # "dask"
    BY <2>1, <2>2
  <2>4. LoopShape'
    BY <1>4, <2>1, <2>2, <2>3
  <2>5. Names(loop.id, loop.engine)
    BY <2>1 DEF RouterInv, AnswersRight
  <2>6. \A k, e : Owns(k, e)' => Owns(k, e)
    BY <1>3, <2>1, <2>3
  <2>7. ASSUME NEW k \in DOMAIN engines' \ misled' PROVE Names(k, engines'[k])
    <3>1. CASE k = loop.id
      BY <2>1, <2>5, <3>1 DEF Put
    <3>2. CASE k # loop.id
      BY <2>1, <2>7, <3>2 DEF Put, RouterInv, AnswersRight
    <3>3. QED BY <3>1, <3>2
  <2>8. \A k \in DOMAIN engines' \ misled' : Names(k, engines[k])'
    BY <2>6, <2>7 DEF Names
  <2>9. ASSUME NEW c \in Clients \ guess', At(c, "remember")'
        PROVE  Names(Requested(c), req[c].reply)'
    <3>1. Names(Requested(c), req[c].reply)
      BY <1>1, <2>1, <2>9 DEF RouterInv, AnswersRight, At
    <3>2. QED BY <1>1, <2>6, <3>1 DEF Names, Requested
  <2>10. loop'.pc = "ray" => <<loop'.id, "dask">> \notin backing' \ left'
    BY <2>1, <2>3, <2>5 DEF Names, Owns, Engines
  <2>11. AnswersRight'
    BY <2>3, <2>8, <2>9, <2>10 DEF AnswersRight
  <2>12. CacheNamesOwner'
    BY <2>3, <2>8 DEF CacheNamesOwner, Names, Owns
  <2>13. DOMAIN engines \subseteq DOMAIN engines'
    BY <2>1 DEF Put
  <2>14. OneOwner'
    BY <2>1, <2>6, <2>13 DEF RouterInv, OneOwner
  <2>15. QED BY <2>4, <2>11, <2>12, <2>14 DEF RouterInv
<1>8. CASE RayObserve
  <2>1. /\ loop.pc = "ray"
        /\ UNCHANGED << fleet, engines, backing, guess, misled, left >>
        /\ loop' = [loop EXCEPT !.pc = loop.then,
                                !.found = <<loop.id, "ray">> \in backing]
    BY <1>8 DEF RayObserve
  <2>2. /\ DOMAIN loop = F /\ loop.then \in {"decide", "record"}
        /\ loop.row.engine \in Engines
    BY <1>2, <2>1
  <2>3. /\ DOMAIN loop' = F /\ loop'.then = loop.then /\ loop'.id = loop.id
        /\ loop'.row = loop.row /\ loop'.pc \in {"decide", "record"}
        /\ loop'.found = (<<loop.id, "ray">> \in backing)
    BY <2>1, <2>2
  <2>4. LoopShape'
    BY <1>4, <2>1, <2>2, <2>3
  <2>5. <<loop.id, "dask">> \notin backing \ left
    BY <2>1 DEF RouterInv, AnswersRight
  <2>6. ~loop'.found => \A e \in Engines : <<loop'.id, e>> \notin backing' \ left'
    BY <2>1, <2>3, <2>5 DEF Engines
  <2>7. QED BY <1>1, <1>3, <2>1, <2>3, <2>4, <2>6, PassMoves
<1>9. CASE DecideOne \/ Terminate
  <2>1. /\ loop.pc \in {"decide", "terminate"}
        /\ UNCHANGED << fleet, engines, guess, misled, left >>
        /\ backing' \subseteq backing
        /\ \/ loop' = [loop EXCEPT !.pc = "terminate"]
           \/ loop' = [loop EXCEPT !.pc = "apply"]
           \/ loop' = [loop EXCEPT !.pc = "observe", !.then = "record"]
    BY <1>9 DEF DecideOne, Terminate, Deleted, Reobserves
  <2>2. /\ DOMAIN loop = F /\ loop.then \in {"decide", "record"}
        /\ loop.row.engine \in Engines
    BY <1>2, <2>1
  <2>3. /\ DOMAIN loop' = F /\ loop'.then \in {"decide", "record"}
        /\ loop'.row = loop.row /\ loop'.pc \in {"terminate", "apply", "observe"}
    BY <2>1, <2>2
  <2>4. LoopShape'
    BY <1>4, <2>1, <2>2, <2>3
  <2>5. QED BY <1>1, <1>3, <2>1, <2>3, <2>4, PassMoves
<1>10. CASE ApplyRemembers
  <2> DEFINE own == loop.row.engine
             k0 == loop.id
  <2>1. /\ loop.pc = "apply" /\ loop' = [loop EXCEPT !.pc = "create"]
        /\ engines' = Put(engines, k0, own)
        /\ misled' = misled \ {k0}
        /\ left' = Superseded(k0, own)
        /\ guess' = guess \cup {c \in Clients : /\ At(c, "remember")
                                               /\ Requested(c) = k0
                                               /\ req[c].reply # own}
        /\ UNCHANGED << fleet, backing >>
    BY <1>10 DEF ApplyRemembers, OutOfDate
  <2>2. /\ DOMAIN loop = F /\ loop.then \in {"decide", "record"}
        /\ own \in Engines
    BY <1>2, <2>1
  <2>3. /\ DOMAIN loop' = F /\ loop'.then = loop.then /\ loop'.id = k0
        /\ loop'.row = loop.row /\ loop'.pc = "create"
    BY <2>1, <2>2
  <2>4. LoopShape'
    BY <1>4, <2>1, <2>2, <2>3
  <2>5. /\ \A e \in Engines : Owns(k0, e)' => e = own
        /\ \A i : i # k0 =>
             \A e \in Engines : /\ Owns(i, e)' => Owns(i, e)
                                /\ <<i, e>> \in left' => <<i, e>> \in left
    BY <2>1, <2>2, <2>3, SupersededOwns
  <2>6. /\ DOMAIN engines' = DOMAIN engines \cup {k0} /\ engines'[k0] = own
        /\ \A k \in DOMAIN engines \ {k0} : engines'[k] = engines[k]
    BY <2>1 DEF Put
  <2>7. OneOwner'
    <3>1. ASSUME NEW k, Owns(k, "ray")', Owns(k, "dask")' PROVE FALSE
      <4>1. k # k0
        BY <2>3, <2>5, <3>1 DEF Engines
      <4>2. Owns(k, "ray") /\ Owns(k, "dask")
        BY <2>5, <3>1, <4>1 DEF Engines
      <4>3. QED BY <4>2 DEF RouterInv, OneOwner
    <3>2. ASSUME NEW k, k \notin DOMAIN engines', NEW e \in Engines
          PROVE  <<k, e>> \notin left'
      BY <2>5, <2>6, <3>2 DEF RouterInv, OneOwner
    <3>3. QED BY <3>1, <3>2 DEF OneOwner
  <2>8. ASSUME NEW k \in DOMAIN engines' \ misled' PROVE Names(k, engines[k])'
    <3>1. CASE k = k0
      BY <2>3, <2>5, <2>6, <3>1 DEF Names
    <3>2. CASE k # k0
      <4>1. engines'[k] = engines[k] /\ k \in DOMAIN engines \ misled
        BY <2>1, <2>6, <2>8, <3>2
      <4>2. Names(k, engines[k])
        BY <4>1 DEF RouterInv, AnswersRight
      <4>3. QED BY <2>5, <3>2, <4>1, <4>2 DEF Names
    <3>3. QED BY <3>1, <3>2
  <2>9. ASSUME NEW c \in Clients \ guess', At(c, "remember")'
        PROVE  Names(Requested(c), req[c].reply)'
    <3>1. /\ c \in Clients \ guess /\ At(c, "remember")
          /\ Requested(c) = k0 => req[c].reply = own
      BY <1>1, <2>1, <2>9 DEF At
    <3>2. Names(Requested(c), req[c].reply)
      BY <3>1 DEF RouterInv, AnswersRight
    <3>3. \A e \in Engines : Owns(Requested(c), e)' => req[c].reply = e
      <4>1. UNCHANGED Requested(c)
        BY <1>1 DEF Requested
      <4>2. CASE Requested(c) = k0
        BY <2>3, <2>5, <3>1, <4>1, <4>2
      <4>3. CASE Requested(c) # k0
        BY <2>5, <3>2, <4>1, <4>3 DEF Names
      <4>4. QED BY <4>2, <4>3
    <3>4. QED BY <1>1, <3>3 DEF Names, Requested
  <2>10. AnswersRight'
    BY <2>3, <2>8, <2>9 DEF AnswersRight
  <2>11. CacheNamesOwner'
    BY <2>3, <2>8 DEF CacheNamesOwner, Names, Owns
  <2>12. QED BY <2>4, <2>7, <2>10, <2>11 DEF RouterInv
<1>11. ASSUME loop.pc = "create", backing' = Created, UNCHANGED left,
              loop'.pc # "create"
       PROVE  \A k, e : Owns(k, e)' => Owns(k, e)
  BY <1>11 DEF Owns, Created
<1>12. CASE Create
  <2>1. /\ loop.pc = "create" /\ backing' = Created
        /\ UNCHANGED << fleet, engines, guess, misled, left >>
        /\ loop' = [loop EXCEPT !.pc = "observe", !.then = "record"]
    BY <1>12 DEF Create, Reobserves
  <2>2. /\ DOMAIN loop = F /\ loop.then \in {"decide", "record"}
        /\ loop.row.engine \in Engines
    BY <1>2, <2>1
  <2>3. /\ DOMAIN loop' = F /\ loop'.then = "record"
        /\ loop'.row = loop.row /\ loop'.pc = "observe"
    BY <2>1, <2>2
  <2>4. LoopShape'
    BY <1>4, <2>1, <2>2, <2>3
  <2>5. QED BY <1>1, <1>11, <2>1, <2>3, <2>4, PassMoves
<1>13. CASE Record
  <2>1. /\ UNCHANGED << engines, backing, guess, misled, left >>
        /\ loop' = Waiting
        /\ \E o : fleet' = [fleet EXCEPT ![loop.id].observed = o]
    BY <1>13 DEF Record
  <2>2. /\ DOMAIN fleet' = DOMAIN fleet
        /\ \A x \in DOMAIN fleet : "engine" \in DOMAIN fleet'[x]
                                   /\ fleet'[x].engine \in Engines
    BY <2>1 DEF RouterInv, LoopShape
  <2>3. LoopShape'
    BY <2>1, <2>2 DEF LoopShape
  <2>4. loop'.pc = "idle"
    BY <2>1 DEF Waiting
  <2>5. QED BY <1>1, <1>3, <2>1, <2>3, <2>4, PassMoves
<1>14. CASE PassFails
  <2>1. /\ UNCHANGED << fleet, engines, guess, misled, left >> /\ loop' = Waiting
        /\ \/ backing' \subseteq backing
           \/ loop.pc = "create" /\ backing' = Created
    BY <1>14 DEF PassFails, Deleted
  <2>2. loop'.pc = "idle"
    BY <2>1 DEF Waiting
  <2>3. \A k, e : Owns(k, e)' => Owns(k, e)
    BY <1>3, <1>11, <2>1, <2>2
  <2>4. LoopShape'
    BY <1>4, <2>1
  <2>5. QED BY <1>1, <2>1, <2>2, <2>3, <2>4, PassMoves
<1>15. QED
  BY <1>5, <1>6, <1>7, <1>8, <1>9, <1>10, <1>12, <1>13, <1>14 DEF PassStep

\* The cache invariant is kept.
LEMMA RouterInvStep ==
    ASSUME RequestShape, RouterInv, [RouterNext]_rvars
    PROVE  RouterInv'
<1>1. CASE UNCHANGED rvars
  <2>1. UNCHANGED << fleet, req >> /\ UNCHANGED router
    BY <1>1 DEF rvars, jvars, cvars, plane
  <2>2. QED BY <2>1, RouterFramed DEF RouterInv, LoopShape
<1>2. CASE PlaneNext /\ UNCHANGED router
  BY <1>2, PlaneKeepsRouter
<1>3. CASE RouterStep
  <2>1. CASE \E c \in Clients : ReadStep(c)
    BY <2>1, ReadKeepsRouter
  <2>2. CASE \E k \in DOMAIN fleet : UpsertCluster(k) \/ DeleteCluster(k)
    <3>1. PICK k \in DOMAIN fleet : UpsertCluster(k) \/ DeleteCluster(k)
      BY <2>2
    <3>2. /\ UNCHANGED router /\ UNCHANGED req
          /\ \/ fleet' = [fleet EXCEPT ![k].desired = "Terminated"]
             \/ \E s \in Specs :
                  fleet' = [fleet EXCEPT ![k] = [fleet[k] EXCEPT
                                !.project = s.project, !.engine = s.engine,
                                !.ttl = s.ttl, !.idle = s.idle]]
      BY <3>1 DEF UpsertCluster, DeleteCluster, LoopFrame
    <3>3. /\ \A x \in DOMAIN fleet : "engine" \in DOMAIN fleet[x]
                                     /\ fleet[x].engine \in Engines
          /\ \A s \in Specs : s.engine \in Engines
      BY RouterAssumption DEF RouterInv, LoopShape
    <3>4. /\ DOMAIN fleet' = DOMAIN fleet
          /\ \A x \in DOMAIN fleet : "engine" \in DOMAIN fleet'[x]
                                     /\ fleet'[x].engine \in Engines
      BY <3>2, <3>3
    <3>5. QED BY <3>2, <3>4, RouterFramed
  <2>3. CASE PassStep
    BY <2>3, PassKeepsRouter
  <2>4. QED BY <1>3, <2>1, <2>2, <2>3 DEF RouterStep, ReadStep, PassStep
<1>4. QED BY <1>1, <1>2, <1>3 DEF RouterNext

\* The engine cached for a cluster is that of its CR, and a pass that reports a
\* terminated cluster gone left none behind, for any fleet whose rows may change
\* their engines, any number of reads beside the loop and any startup that
\* cached nothing wrong; but for the CRs that a change of engine left behind, and
\* for a cluster whose cached engine came from a read's probe that failed, was
\* overtaken by an apply, or met such a CR.
THEOREM CacheIsRight == RouterSpec => []CacheNamesOwner
<1>1. RouterInit => RouterInv
  <2>1. SUFFICES ASSUME RouterInit PROVE RouterInv
    OBVIOUS
  <2>2. PICK w \in Workloads : backing = w.backing /\ engines = w.engines
    BY <2>1 DEF RouterInit
  <2>3. /\ loop = Waiting /\ fleet = FirstFleet /\ left = {}
        /\ req = [c \in Clients |-> NoRequest]
    BY <2>1 DEF RouterInit, PlaneInit, AccessInit
  <2>4. loop.pc = "idle"
    BY <2>3 DEF Waiting
  <2>5. LoopShape
    BY <2>2, <2>3, RouterAssumption DEF LoopShape
  <2>6. \A k, e : Owns(k, e) <=> <<k, e>> \in w.backing
    BY <2>2, <2>3, <2>4 DEF Owns
  <2>7. OneOwner
    <3>1. ASSUME NEW k, <<k, "ray">> \in w.backing, <<k, "dask">> \in w.backing
          PROVE  FALSE
      <4>1. \A p, q \in w.backing : p[1] = q[1] => p = q
        BY RouterAssumption
      <4>2. <<k, "ray">> = <<k, "dask">>
        BY <3>1, <4>1
      <4>3. QED BY <4>2
    <3>2. QED BY <2>3, <2>6, <3>1 DEF OneOwner
  <2>8. AnswersRight
    <3>1. \A k \in DOMAIN engines : Names(k, engines[k])
      BY <2>2, <2>6, RouterAssumption DEF Names
    <3>2. \A c \in Clients : ~At(c, "remember")
      BY <2>3 DEF At, NoRequest
    <3>3. QED BY <2>4, <3>1, <3>2 DEF AnswersRight
  <2>9. CacheNamesOwner
    BY <2>2, <2>4, RouterAssumption DEF CacheNamesOwner
  <2>10. QED BY <2>5, <2>7, <2>8, <2>9 DEF RouterInv
<1>2. AuthorityInv /\ RouterInv /\ [RouterNext]_rvars => RouterInv'
  BY RouterInvStep DEF AuthorityInv
<1>3. RouterInv => CacheNamesOwner
  BY DEF RouterInv
<1>4. QED BY <1>1, <1>2, <1>3, AuthorityInvariant, PTL DEF RouterSpec
=============================================================================
