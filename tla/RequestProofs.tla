--------------------------- MODULE RequestProofs ----------------------------
(***************************************************************************)
(* Proofs about requests: the authority they act under, the refresh slot   *)
(* of the identity provider's keys, and the accounts and tokens they write. *)
(* They are about the composed specification RouterSpec, in which requests *)
(* of every kind run beside the gateway, the job history and the loop.     *)
(***************************************************************************)
EXTENDS EngineRouter, TLAPS

-----------------------------------------------------------------------------
(* What a step does to the requests.                                       *)

\* While its bearer is being resolved, or its login, a request is at one of
\* these.
Resolving == {"pat", "user", "jwt", "refresh", "fetch", "retry", "public",
              "failure", "count", "success"}

\* Only the request of c moves.
Only(c) ==
    DOMAIN req' = Clients /\ \A d \in Clients \ {c} : req'[d] = req[d]

\* It keeps what it presented.
Kept(c) ==
    /\ DOMAIN req'[c] = Fields
    /\ req'[c].bearer = req[c].bearer

\* It ends, or goes on as whoever it was found to be.
Carried(c) ==
    /\ req[c].pc # "none"
    /\ \/ req'[c] = NoRequest
       \/ /\ Kept(c)
          /\ req'[c].id = req[c].id /\ req'[c].pc \notin Resolving \cup {"none"}

\* A request that is at some step is one.
LEMMA Underway == ASSUME NEW r, r.pc # "none" PROVE r # NoRequest
BY DEF NoRequest

LEMMA ShapeOf ==
    ASSUME RequestShape, NEW c \in Clients, req[c].pc # "none"
    PROVE  DOMAIN req[c] = Fields
<1>1. req[c] # NoRequest
  BY Underway
<1>2. QED BY <1>1 DEF RequestShape, Shaped

\* The three ways handlers leave a request, and what they keep of it.
LEMMA Leaves ==
    ASSUME RequestShape, NEW c \in Clients, req[c].pc # "none"
    PROVE  /\ Drops(c) => /\ Only(c) /\ req'[c] = NoRequest
                          /\ req'[c].pc = "none"
           /\ \A d : Ends(c, d) =>
                Only(c) /\ Kept(c) /\ req'[c].id = req[c].id /\ req'[c].pc = "emit"
           /\ \A p : Goto(c, p) =>
                Only(c) /\ Kept(c) /\ req'[c].id = req[c].id /\ req'[c].pc = p
<1>1. DOMAIN req = Clients /\ DOMAIN req[c] = Fields
  BY DEF RequestShape, Shaped, NoRequest
<1>2. Drops(c) => /\ Only(c) /\ req'[c] = NoRequest
                  /\ req'[c].pc = "none"
  <2>1. NoRequest.pc = "none"
    BY DEF NoRequest
  <2>2. QED BY <1>1, <2>1 DEF Drops, Only
<1>3. ASSUME NEW d, Ends(c, d)
      PROVE  Only(c) /\ Kept(c) /\ req'[c].id = req[c].id /\ req'[c].pc = "emit"
  BY <1>1, <1>3 DEF Ends, Only, Kept, Fields
<1>4. ASSUME NEW p, Goto(c, p)
      PROVE  Only(c) /\ Kept(c) /\ req'[c].id = req[c].id /\ req'[c].pc = p
  BY <1>1, <1>4 DEF Goto, Only, Kept, Fields
<1>5. QED BY <1>2, <1>3, <1>4

\* The steps that resolve a bearer or a login.
ResolveStep(c) ==
    \/ Arrive(c) \/ LookupToken(c) \/ ReadUser(c) \/ ValidateJwt(c)
    \/ ClaimRefresh(c) \/ FetchJwks(c) \/ RetryKey(c)
    \/ LoginLookup(c) \/ ReadFailures(c) \/ ClearFailures(c)

\* The other steps of AccessControl.
HandleStep(c) ==
    \/ FetchFails(c) \/ Authorize(c) \/ AuthorizeBlind(c)
    \/ Serve(c) \/ Assign(c) \/ Unassign(c)
    \/ CreateUserLookup(c) \/ CreateUserInsert(c)
    \/ UpdateUserLookup(c) \/ UpdateRole(c) \/ UpdateDisabled(c)
    \/ UpdatePassword(c) \/ UpdateFails(c)
    \/ RevokeToken(c) \/ Logout(c) \/ IssueToken(c) \/ StoreToken(c)
    \/ CountFailure(c) \/ CredentialFails(c)
    \/ ReadPage(c) \/ VerifyTrail(c) \/ Emit(c) \/ EmitFails(c)

\* The reads that the engine router serves.
ReadStep(c) ==
    \/ ClusterNodes(c) \/ ClusterEvents(c) \/ ClusterLogs(c)
    \/ ProbeDask(c) \/ ProbeFails(c) \/ Remember(c)
    \/ ClusterJobs(c) \/ ClusterMetrics(c)

\* Where a handler leaves a request.
LEMMA HandleLeaves ==
    ASSUME NEW c \in Clients, HandleStep(c)
    PROVE  \/ Drops(c) \/ \E d : Ends(c, d)
           \/ \E p \in {"act", "insert", "role", "disabled", "password"} :
                Goto(c, p)
           \/ \E t : req' = [req EXCEPT ![c].pc = "mint", ![c].until = t]
<1>1. CASE \/ FetchFails(c) \/ Authorize(c) \/ AuthorizeBlind(c) \/ Serve(c)
           \/ Assign(c) \/ Unassign(c) \/ CreateUserLookup(c)
           \/ CreateUserInsert(c) \/ UpdateUserLookup(c)
  BY <1>1 DEF FetchFails, Authorize, AuthorizeBlind, Serve, Assign, Unassign,
     CreateUserLookup, CreateUserInsert, UpdateUserLookup
<1>2. CASE \/ UpdateRole(c) \/ UpdateDisabled(c) \/ UpdatePassword(c)
           \/ UpdateFails(c)
  BY <1>2 DEF UpdateRole, UpdateDisabled, UpdatePassword, UpdateField,
     UpdateFails
<1>3. CASE \/ RevokeToken(c) \/ Logout(c) \/ StoreToken(c) \/ CountFailure(c)
           \/ CredentialFails(c) \/ ReadPage(c) \/ VerifyTrail(c) \/ Emit(c) \/ EmitFails(c)
  BY <1>3 DEF RevokeToken, Logout, StoreToken, CountFailure, CredentialFails,
     ReadPage, VerifyTrail, Emit, EmitFails
<1>4. CASE IssueToken(c)
  BY <1>4 DEF IssueToken
<1>5. QED BY <1>1, <1>2, <1>3, <1>4 DEF HandleStep

\* Nothing a handler does changes who a request acts for.
LEMMA HandleCarries ==
    ASSUME RequestShape, NEW c \in Clients, HandleStep(c)
    PROVE  /\ Only(c) /\ Carried(c)
           /\ req'[c].pc \in {"none", "emit", "act", "insert", "role",
                              "disabled", "password", "mint"}
<1>1. req[c].pc # "none"
  BY DEF HandleStep, At, Acts, FetchFails, Authorize, AuthorizeBlind, Serve,
     Assign, Unassign, CreateUserLookup, CreateUserInsert, UpdateUserLookup,
     UpdateRole, UpdateDisabled, UpdatePassword, UpdateField, UpdateFails,
     RevokeToken, Logout, IssueToken, StoreToken, CountFailure,
     CredentialFails, ReadPage, VerifyTrail, Emit, EmitFails
<1>2. DOMAIN req = Clients /\ DOMAIN req[c] = Fields
  BY <1>1 DEF RequestShape, Shaped, NoRequest
<1>3. ASSUME NEW t, req' = [req EXCEPT ![c].pc = "mint", ![c].until = t]
      PROVE  Only(c) /\ Carried(c) /\ req'[c].pc = "mint"
  BY <1>1, <1>2, <1>3 DEF Only, Carried, Kept, Fields, Resolving
<1>4. QED BY <1>1, <1>3, HandleLeaves, Leaves DEF Carried, Resolving, NoRequest

\* Nor does the gateway ...
LEMMA GatewayCarries ==
    ASSUME RequestShape, NEW c \in Clients, GatewayStep(c)
    PROVE  Only(c) /\ Carried(c) /\ req'[c].pc # "remember"
<1>1. req[c].pc # "none"
  BY DEF GatewayStep, At, Acts, HostGateway, Forward, ForwardRefused, Connect,
     UpstreamFails, ClientGone, EmitProxied, EmitProxiedFails,
     RecordSubmission, RecordSubmissionFails, ResolveScope, ResolveScopeFails,
     FetchDashboard, ListJobs
<1>2. DOMAIN req = Clients /\ DOMAIN req[c] = Fields
  BY <1>1 DEF RequestShape, Shaped, NoRequest
<1>3. \/ Drops(c)
      \/ \E p \in {"connect", "forward", "proxied", "record", "authorize"} :
            Goto(c, p)
      \/ \E j : req' = [req EXCEPT ![c].pc = "proxied", ![c].reply = j]
      \/ \E p : req' = [req EXCEPT ![c].pc = "authorize",
                                   ![c].route.project = p]
  <2>1. CASE \/ HostGateway(c) \/ Forward(c) \/ ForwardRefused(c) \/ Connect(c)
             \/ UpstreamFails(c) \/ ClientGone(c)
    BY <2>1 DEF HostGateway, Forward, ForwardRefused, Connect, UpstreamFails,
       ClientGone, Answer
  <2>2. CASE EmitProxied(c) \/ EmitProxiedFails(c)
    BY <2>2 DEF EmitProxied, EmitProxiedFails, AfterAudit, OpenBridge, Answer
  <2>3. CASE \/ RecordSubmission(c) \/ RecordSubmissionFails(c)
             \/ FetchDashboard(c) \/ ListJobs(c)
    BY <2>3 DEF RecordSubmission, RecordSubmissionFails, FetchDashboard,
       ListJobs, Answer
  <2>4. CASE ResolveScope(c) \/ ResolveScopeFails(c)
    BY <2>4 DEF ResolveScope, ResolveScopeFails, ScopeForRead
  <2>5. QED BY <2>1, <2>2, <2>3, <2>4 DEF GatewayStep
<1>4. ASSUME NEW j, req' = [req EXCEPT ![c].pc = "proxied", ![c].reply = j]
      PROVE  Only(c) /\ Carried(c) /\ req'[c].pc = "proxied"
  BY <1>1, <1>2, <1>4 DEF Only, Carried, Kept, Fields, Resolving
<1>5. ASSUME NEW p,
             req' = [req EXCEPT ![c].pc = "authorize", ![c].route.project = p]
      PROVE  Only(c) /\ Carried(c) /\ req'[c].pc = "authorize"
  BY <1>1, <1>2, <1>5 DEF Only, Carried, Kept, Fields, Resolving
<1>6. QED
  BY <1>1, <1>3, <1>4, <1>5, Leaves DEF Carried, Resolving, NoRequest

\* ... nor the engine router.
LEMMA ReadCarries ==
    ASSUME RequestShape, NEW c \in Clients, ReadStep(c)
    PROVE  Only(c) /\ Carried(c)
<1>1. req[c].pc # "none"
  BY DEF ReadStep, At, Acts, ClusterNodes, ClusterEvents, ClusterLogs,
     ProbeDask, ProbeFails, Remember, ClusterJobs, ClusterMetrics
<1>2. DOMAIN req = Clients /\ DOMAIN req[c] = Fields
  BY <1>1 DEF RequestShape, Shaped, NoRequest
<1>3. \/ Drops(c)
      \/ \E p \in {"probe", "dashboard"} : Goto(c, p)
      \/ \E e : req' = [req EXCEPT ![c].pc = "remember", ![c].reply = e]
  BY DEF ReadStep, ClusterNodes, ClusterEvents, ClusterLogs, EngineOf,
     ProbeDask, ProbeFails, Remember, ClusterJobs, ClusterMetrics, Southbound
<1>4. ASSUME NEW e, req' = [req EXCEPT ![c].pc = "remember", ![c].reply = e]
      PROVE  Only(c) /\ Carried(c)
  BY <1>1, <1>2, <1>4 DEF Only, Carried, Kept, Fields, Resolving
<1>5. QED BY <1>1, <1>3, <1>4, Leaves DEF Carried, Resolving

\* The steps in which no request moves: time, keys, bridges, job history,
\* reaper and reconcile pass.
ElseStep ==
    \/ Tick \/ Rotate
    \/ \E b \in Streams :
        \/ RelayFrame(b) \/ FrameSent(b)
        \/ BridgeBreaks(b) \/ BridgeIdles(b) \/ BridgeCloses(b)
    \/ \E j \in DOMAIN heads : JobProgresses(j)
    \/ RefreshList \/ RefreshFetch \/ RefreshUnreachable \/ RefreshRecord
    \/ RefreshFails
    \/ ReapRows \/ ReapJobs \/ ReapOne \/ ReapFails
    \/ \E k \in DOMAIN fleet : UpsertCluster(k) \/ DeleteCluster(k) \/ BeginPass(k)
    \/ Observe \/ Warm \/ RayObserve \/ DecideOne \/ ApplyRemembers \/ Create
    \/ Terminate \/ Record \/ PassFails

\* They leave the requests alone.
LEMMA ElseStands == ElseStep => UNCHANGED req
BY DEF ElseStep, Tick, Rotate, RelayFrame, FrameSent, BridgeBreaks,
   BridgeIdles, BridgeCloses, BridgeFrame, JobProgresses, RefreshList, RefreshFetch,
   RefreshUnreachable, RefreshRecord, RefreshFails, RefreshFrame, ReapRows,
   ReapJobs, ReapOne, ReapFails, ReapFrame, UpsertCluster, DeleteCluster, BeginPass, Observe,
   Warm, RayObserve, DecideOne, ApplyRemembers, Create, Terminate, Record,
   PassFails, LoopFrame

\* Every step is one of these, and what was seen is noted with it.
LEMMA StepSplit ==
    ASSUME RouterNext
    PROVE  /\ Witness
           /\ \/ \E c \in Clients :
                    ResolveStep(c) \/ HandleStep(c) \/ GatewayStep(c) \/ ReadStep(c)
              \/ ElseStep
<1>1. CASE AccessNext
  BY <1>1 DEF AccessNext, RequestStep, ResolveStep, HandleStep, ElseStep
<1>2. CASE PlaneStep /\ Witness
  BY <1>2 DEF PlaneStep, ElseStep
<1>3. CASE RouterStep /\ Witness
  BY <1>3 DEF RouterStep, ReadStep, ElseStep
<1>4. QED BY <1>1, <1>2, <1>3 DEF RouterNext, PlaneNext

-----------------------------------------------------------------------------
(* The authority of a request.                                             *)

\* What a request presented is still among what was seen.
Backed(c) ==
    req'[c].bearer.kind = "pat" =>
        /\ req'[c].pc = "user" => seen'[c].live
        /\ req'[c].id # Nobody =>
              seen'[c].live /\ req'[c].id.roles \subseteq seen'[c].roles

\* The history of a request only grows, and has what holds after the step.
LEMMA SeenGrows ==
    ASSUME Witness, NEW d \in Clients, req'[d] # NoRequest
    PROVE  /\ seen[d].live => seen'[d].live
           /\ seen[d].roles \subseteq seen'[d].roles
           /\ LiveNow(d)' => seen'[d].live
           /\ RolesNow(d)' \subseteq seen'[d].roles
BY DEF Witness

\* It is enough to look at the request that moves.
LEMMA AuthorityOfOne ==
    ASSUME AuthorityInv, Witness, NEW c \in Clients, Only(c),
           req'[c] # NoRequest => Shaped(req'[c]) /\ Backed(c)
    PROVE  AuthorityInv'
<1>1. RequestShape'
  BY DEF AuthorityInv, RequestShape, Only, Shaped
<1>2. ASSUME NEW d \in Clients, req'[d] # NoRequest
      PROVE  /\ LiveNow(d)' => seen'[d].live
             /\ RolesNow(d)' \subseteq seen'[d].roles
             /\ req'[d].pc = "user" => seen'[d].live
             /\ req'[d].bearer.kind = "pat" /\ req'[d].id # Nobody =>
                   seen'[d].live /\ req'[d].id.roles \subseteq seen'[d].roles
  <2>1. CASE d = c
    BY <1>2, <2>1, SeenGrows DEF Backed, Shaped
  <2>2. CASE d # c
    <3>1. req'[d] = req[d]
      BY <2>2 DEF Only
    <3>2. /\ req[d].pc = "user" => seen[d].live
          /\ req[d].bearer.kind = "pat" /\ req[d].id # Nobody =>
                seen[d].live /\ req[d].id.roles \subseteq seen[d].roles
      BY <1>2, <3>1 DEF AuthorityInv, SeenSoFar, AuthorityIsCurrent, Presents
    <3>3. QED BY <1>2, <3>1, <3>2, SeenGrows
  <2>3. QED BY <2>1, <2>2
<1>3. SeenSoFar'
  BY <1>2 DEF SeenSoFar
<1>4. AuthorityIsCurrent'
  BY <1>2 DEF AuthorityIsCurrent, Presents
<1>5. QED BY <1>1, <1>3, <1>4 DEF AuthorityInv

\* A request that is carried on acts on what it acted on before.
LEMMA AuthorityCarried ==
    ASSUME AuthorityInv, Witness, NEW c \in Clients, Only(c), Carried(c)
    PROVE  AuthorityInv'
<1>1. CASE req'[c] = NoRequest
  BY <1>1, AuthorityOfOne
<1>2. CASE req'[c] # NoRequest /\ req[c] # NoRequest
  <2>1. Shaped(req'[c])
    BY <1>2 DEF Carried, Kept, Shaped, Resolving
  <2>2. /\ req'[c].bearer = req[c].bearer /\ req'[c].id = req[c].id
        /\ req'[c].pc # "user"
    BY <1>2 DEF Carried, Kept, Resolving
  <2>3. req[c].bearer.kind = "pat" /\ req[c].id # Nobody =>
            seen[c].live /\ req[c].id.roles \subseteq seen[c].roles
    BY <1>2 DEF AuthorityInv, AuthorityIsCurrent, Presents
  <2>4. Backed(c)
    BY <1>2, <2>2, <2>3, SeenGrows DEF Backed
  <2>5. QED BY <2>1, <2>4, AuthorityOfOne
<1>3. QED BY <1>1, <1>2 DEF Carried, Kept, NoRequest

\* Resolving a bearer: the lookup finds the token live, and the role is read
\* from the account as it then is.  A login acts for no token.
LEMMA AuthorityResolved ==
    ASSUME AuthorityInv, Witness, NEW c \in Clients, ResolveStep(c)
    PROVE  AuthorityInv'
<1> USE DEF At
<1>0. DOMAIN req = Clients
  BY DEF AuthorityInv, RequestShape
<1>1. CASE Arrive(c)
  <2>1. PICK route \in Routes, b \in Bearers :
          /\ IsPublic(route.area) => b = NoBearer
          /\ req' = [req EXCEPT ![c] =
                    [pc |-> IF ~route.cluster /\ IsPublic(route.area)
                            THEN "public"
                            ELSE IF b = NoBearer THEN "emit" ELSE b.kind,
                     route |-> route, bearer |-> b, id |-> Nobody,
                     user |-> Nobody, until |-> 0, decision |-> "deny",
                     reply |-> "none"]]
    BY <1>1 DEF Arrive
  <2>2. b = NoBearer \/ b.kind = "pat" \/ b.kind = "jwt"
    BY DEF Bearers
  <2>3. /\ req'[c].bearer = b /\ req'[c].id = Nobody
        /\ req'[c].pc = IF ~route.cluster /\ IsPublic(route.area) THEN "public"
                        ELSE IF b = NoBearer THEN "emit" ELSE b.kind
        /\ DOMAIN req'[c] = Fields
    BY <1>0, <2>1 DEF Fields
  <2>4. Only(c)
    BY <1>0, <2>1 DEF Only
  <2>5. Shaped(req'[c]) /\ Backed(c)
    BY <2>1, <2>2, <2>3 DEF Shaped, Backed, NoBearer
  <2>6. QED BY <2>4, <2>5, AuthorityOfOne
<1>2. ASSUME req[c].pc # "none" PROVE AuthorityInv'
  <2>0. /\ req[c] # NoRequest /\ Shaped(req[c]) /\ DOMAIN req[c] = Fields
        /\ RequestShape
    BY <1>2 DEF AuthorityInv, RequestShape, Shaped, NoRequest
  <2>1. ASSUME Drops(c) \/ \E d : Ends(c, d) PROVE AuthorityInv'
    <3>1. Only(c) /\ Carried(c)
      BY <1>2, <2>0, <2>1, Leaves DEF Carried, Resolving
    <3>2. QED BY <3>1, AuthorityCarried
  <2>2. ASSUME NEW id, Known(c, id), req[c].bearer.kind = "jwt"
        PROVE  AuthorityInv'
    <3>1. /\ Only(c) /\ Kept(c) /\ req'[c].pc \in {"scope", "authorize"}
      BY <1>0, <2>0, <2>2 DEF Known, Only, Kept, Fields
    <3>2. Shaped(req'[c]) /\ Backed(c)
      BY <2>2, <3>1 DEF Shaped, Kept, Backed
    <3>3. QED BY <3>1, <3>2, AuthorityOfOne
  <2>3. CASE LookupToken(c)
    <3>1. ASSUME TokenLive(req[c].bearer.prefix), Goto(c, "user")
          PROVE  AuthorityInv'
      <4>1. Only(c) /\ Kept(c) /\ req'[c].id = req[c].id /\ req'[c].pc = "user"
        BY <1>2, <2>0, <3>1, Leaves
      <4>2. req[c].bearer.kind = "pat"
        BY <2>0, <2>3 DEF Shaped, LookupToken
      <4>3. LiveNow(c)
        BY <2>0, <3>1, <4>2 DEF LiveNow, Presents
      <4>4. seen[c].live
        BY <2>0, <4>3 DEF AuthorityInv, SeenSoFar
      <4>5. req[c].id # Nobody => req[c].id.roles \subseteq seen[c].roles
        BY <2>0, <4>2 DEF AuthorityInv, AuthorityIsCurrent, Presents
      <4>6. Shaped(req'[c])
        BY <4>1, <4>2 DEF Shaped, Kept
      <4>7. req'[c] # NoRequest
        BY <4>6 DEF Shaped, NoRequest
      <4>8. seen'[c].live /\ seen[c].roles \subseteq seen'[c].roles
        BY <4>4, <4>7, SeenGrows
      <4>9. req[c].id # Nobody => req[c].id.roles \subseteq seen'[c].roles
        BY <4>5, <4>8
      <4>10. QED BY <4>1, <4>6, <4>8, <4>9, AuthorityOfOne DEF Backed
    <3>2. QED BY <2>1, <2>3, <3>1 DEF LookupToken
  <2>4. CASE ReadUser(c)
    <3>1. ASSUME Holder(c) \in DOMAIN users, ~users[Holder(c)].disabled,
                 Known(c, IdentityOfUser(Holder(c), users[Holder(c)]))
          PROVE  AuthorityInv'
      <4>1. /\ Only(c) /\ Kept(c) /\ req'[c].pc \in {"scope", "authorize"}
            /\ req'[c].id = IdentityOfUser(Holder(c), users[Holder(c)])
        BY <1>0, <2>0, <3>1 DEF Known, Only, Kept, Fields
      <4>2. req'[c].id.roles = {users[Holder(c)].role}
        BY <4>1 DEF IdentityOfUser
      <4>3. req[c].bearer.kind = "pat" /\ seen[c].live
        BY <2>0, <2>4 DEF ReadUser, Shaped, AuthorityInv, SeenSoFar
      <4>4. RolesNow(c) = {users[Holder(c)].role}
        BY <2>0, <3>1, <4>3 DEF RolesNow, Presents
      <4>5. RolesNow(c) \subseteq seen[c].roles
        BY <2>0 DEF AuthorityInv, SeenSoFar
      <4>6. Shaped(req'[c])
        BY <4>1, <4>3 DEF Shaped, Kept
      <4>7. req'[c] # NoRequest
        BY <4>6 DEF Shaped, NoRequest
      <4>8. seen'[c].live /\ seen[c].roles \subseteq seen'[c].roles
        BY <4>3, <4>7, SeenGrows
      <4>9. req'[c].id.roles \subseteq seen'[c].roles
        BY <4>2, <4>4, <4>5, <4>8
      <4>10. QED BY <4>1, <4>6, <4>8, <4>9, AuthorityOfOne DEF Backed
    <3>2. QED BY <2>1, <2>4, <3>1 DEF ReadUser
  <2>5. CASE ValidateJwt(c) \/ RetryKey(c)
    <3>1. req[c].bearer.kind = "jwt"
      BY <2>0, <2>5 DEF ValidateJwt, RetryKey, Shaped
    <3>2. CASE Goto(c, "refresh")
      <4>1. Only(c) /\ Kept(c) /\ req'[c].id = req[c].id /\ req'[c].pc = "refresh"
        BY <1>2, <2>0, <3>2, Leaves
      <4>2. Shaped(req'[c]) /\ Backed(c)
        BY <3>1, <4>1 DEF Shaped, Kept, Backed
      <4>3. QED BY <4>1, <4>2, AuthorityOfOne
    <3>3. \/ Goto(c, "refresh") \/ (\E d : Ends(c, d)) \/ (\E id : Known(c, id))
      BY <2>5 DEF ValidateJwt, RetryKey, Accepted
    <3>4. QED BY <2>1, <2>2, <3>1, <3>2, <3>3
  <2>6. CASE ClaimRefresh(c) \/ FetchJwks(c)
    <3>1. req[c].bearer.kind = "jwt"
      BY <2>0, <2>6 DEF ClaimRefresh, FetchJwks, Shaped
    <3>2. PICK p \in {"retry", "fetch"} : Goto(c, p)
      BY <2>6 DEF ClaimRefresh, FetchJwks
    <3>3. Only(c) /\ Kept(c) /\ req'[c].id = req[c].id /\ req'[c].pc = p
      BY <1>2, <2>0, <3>2, Leaves
    <3>4. Shaped(req'[c]) /\ Backed(c)
      BY <3>1, <3>2, <3>3 DEF Shaped, Kept, Backed
    <3>5. QED BY <3>3, <3>4, AuthorityOfOne
  <2>7. CASE LoginLookup(c) \/ ReadFailures(c) \/ ClearFailures(c)
    <3>1. req[c].bearer.kind = "none"
      BY <2>0, <2>7 DEF LoginLookup, ReadFailures, ClearFailures, Shaped
    <3>2. CASE \E d : Ends(c, d)
      BY <2>1, <3>2
    <3>3. CASE ~\E d : Ends(c, d)
      <4>1. \/ \E p \in {"success", "failure"} : \E u, t :
                req' = [req EXCEPT ![c].pc = p, ![c].user = u, ![c].until = t]
            \/ \E u, t : req' = [req EXCEPT ![c].pc = "count", ![c].until = t,
                                             ![c].user = u]
            \/ \E id : req' = [req EXCEPT ![c].pc = "mint", ![c].id = id]
        BY <2>7, <3>3 DEF LoginLookup, ReadFailures, ClearFailures
      <4>2. /\ Only(c) /\ Kept(c)
            /\ req'[c].pc \in {"success", "failure", "count", "mint"}
        BY <1>0, <2>0, <4>1 DEF Only, Kept, Fields
      <4>3. Shaped(req'[c]) /\ Backed(c)
        BY <3>1, <4>2 DEF Shaped, Kept, Backed
      <4>4. QED BY <4>2, <4>3, AuthorityOfOne
    <3>4. QED BY <3>2, <3>3
  <2>8. QED BY <2>3, <2>4, <2>5, <2>6, <2>7, <1>1 DEF ResolveStep
<1>3. QED
  BY <1>1, <1>2 DEF ResolveStep, LookupToken, ReadUser, ValidateJwt,
     ClaimRefresh, FetchJwks, RetryKey, LoginLookup, ReadFailures, ClearFailures

\* The invariant is kept.
LEMMA AuthorityStep ==
    ASSUME AuthorityInv, [RouterNext]_rvars
    PROVE  AuthorityInv'
<1>1. CASE UNCHANGED rvars
  <2>1. UNCHANGED << users, tokens, now, req, seen >>
    BY <1>1 DEF rvars, jvars, cvars, store
  <2>2. QED
    BY <2>1 DEF AuthorityInv, RequestShape, Shaped, SeenSoFar,
       AuthorityIsCurrent, LiveNow, RolesNow, Presents, Holder, TokenLive
<1>2. CASE RouterNext
  <2>1. Witness
    BY <1>2, StepSplit
  <2>2. ASSUME NEW c \in Clients,
               HandleStep(c) \/ GatewayStep(c) \/ ReadStep(c)
        PROVE  AuthorityInv'
    <3>1. Only(c) /\ Carried(c)
      BY <2>2, HandleCarries, GatewayCarries, ReadCarries DEF AuthorityInv
    <3>2. QED BY <2>1, <3>1, AuthorityCarried
  <2>3. CASE ElseStep
    <3>1. req' = req
      BY <2>3, ElseStands
    <3>2. ASSUME NEW d \in Clients, req'[d] # NoRequest
          PROVE  /\ LiveNow(d)' => seen'[d].live
                 /\ RolesNow(d)' \subseteq seen'[d].roles
                 /\ seen[d].live => seen'[d].live
                 /\ seen[d].roles \subseteq seen'[d].roles
      BY <2>1, <3>2, SeenGrows
    <3>3. RequestShape'
      BY <3>1 DEF AuthorityInv, RequestShape
    <3>4. SeenSoFar'
      BY <3>1, <3>2 DEF AuthorityInv, SeenSoFar
    <3>5. AuthorityIsCurrent'
      BY <3>1, <3>2 DEF AuthorityInv, AuthorityIsCurrent, Presents
    <3>6. QED BY <3>3, <3>4, <3>5 DEF AuthorityInv
  <2>4. QED BY <1>2, <2>1, <2>2, <2>3, StepSplit, AuthorityResolved
<1>3. QED BY <1>1, <1>2

\* AuthorityInv is an invariant.
LEMMA AuthorityInvariant == RouterSpec => []AuthorityInv
<1>1. RouterInit => AuthorityInv
  BY DEF RouterInit, PlaneInit, AccessInit, AuthorityInv, RequestShape,
     SeenSoFar, AuthorityIsCurrent, Presents
<1>2. AuthorityInv /\ [RouterNext]_rvars => AuthorityInv'
  BY AuthorityStep
<1>3. QED BY <1>1, <1>2, PTL DEF RouterSpec

\* authenticate_token, for any number of accounts, tokens and clients: whoever
\* acts on a token acts on authority it had since the request arrived, whatever
\* was revoked, disabled, demoted or logged out meanwhile.
THEOREM ActsOnCurrentAuthority == RouterSpec => []AuthorityIsCurrent
<1>1. AuthorityInv => AuthorityIsCurrent
  BY DEF AuthorityInv
<1>2. QED BY <1>1, AuthorityInvariant, PTL

-----------------------------------------------------------------------------
(* The refresh slot.                                                       *)

\* A step keeps the slot and the record of fetches, and time goes on at most.
SlotStands ==
    UNCHANGED << last_refresh, fetches >> /\ now' \in {now, now + 1}

\* Only claiming the slot moves it.
LEMMA SlotMoves ==
    ASSUME RouterNext
    PROVE  SlotStands \/ \E c \in Clients : ClaimRefresh(c)
<1> USE DEF SlotStands, jwks, store
<1>1. ASSUME NEW c \in Clients, ResolveStep(c), ~ClaimRefresh(c)
      PROVE  SlotStands
  BY <1>1 DEF ResolveStep, Arrive, LookupToken, ReadUser, ValidateJwt,
     FetchJwks, RetryKey, LoginLookup, ReadFailures, ClearFailures
<1>2. ASSUME NEW c \in Clients, HandleStep(c) PROVE SlotStands
  BY <1>2 DEF HandleStep, FetchFails, Authorize, AuthorizeBlind, Serve,
     Assign, Unassign, CreateUserLookup, CreateUserInsert, UpdateUserLookup,
     UpdateRole, UpdateDisabled, UpdatePassword, UpdateField, UpdateFails,
     RevokeToken, Logout, IssueToken, StoreToken, CountFailure,
     CredentialFails, ReadPage, VerifyTrail, Emit, EmitFails
<1>3. ASSUME NEW c \in Clients, GatewayStep(c) PROVE SlotStands
  BY <1>3 DEF GatewayStep, HostGateway, Forward, ForwardRefused, Connect,
     UpstreamFails, ClientGone, EmitProxied, EmitProxiedFails,
     RecordSubmission, RecordSubmissionFails, ResolveScope, ResolveScopeFails,
     FetchDashboard, ListJobs, ReadFrame
<1>4. ASSUME NEW c \in Clients, ReadStep(c) PROVE SlotStands
  BY <1>4 DEF ReadStep, ClusterNodes, ClusterEvents, ClusterLogs, EngineOf,
     ProbeDask, ProbeFails, Remember, ClusterJobs, ClusterMetrics, Southbound,
     RouterFrame, ReadFrame
<1>5. ASSUME ElseStep PROVE SlotStands
  BY <1>5 DEF ElseStep, Tick, Rotate, RelayFrame, FrameSent, BridgeBreaks,
     BridgeIdles, BridgeCloses, BridgeFrame, JobProgresses, RefreshList, RefreshFetch,
     RefreshUnreachable, RefreshRecord, RefreshFails, RefreshFrame, ReapRows,
     ReapJobs, ReapOne, ReapFails, ReapFrame, UpsertCluster, DeleteCluster, BeginPass,
     Observe, Warm, RayObserve, DecideOne, ApplyRemembers, Create, Terminate,
     Record, PassFails, LoopFrame
<1>6. QED BY <1>1, <1>2, <1>3, <1>4, <1>5, StepSplit

\* refresh_jwks: two JWKS requests are a cooldown apart, for any cooldown and
\* any number of clients whose tokens name unknown keys.
THEOREM RefreshesSpaced == RouterSpec => []JwksRefreshSpaced
<1> DEFINE Inv == SlotIsLastFetch /\ JwksRefreshSpaced
<1>1. RouterInit => Inv
  BY DEF RouterInit, PlaneInit, AccessInit, SlotIsLastFetch, JwksRefreshSpaced
<1>2. Inv /\ [RouterNext]_rvars => Inv'
  <2>1. SUFFICES ASSUME SlotIsLastFetch, JwksRefreshSpaced, [RouterNext]_rvars
                 PROVE  SlotIsLastFetch' /\ JwksRefreshSpaced'
    OBVIOUS
  <2>2. CASE UNCHANGED << last_refresh, fetches >> /\ now' \in {now, now + 1}
    BY <2>1, <2>2 DEF SlotIsLastFetch, JwksRefreshSpaced
  <2>3. ASSUME NEW c \in Clients, ClaimRefresh(c)
        PROVE  SlotIsLastFetch' /\ JwksRefreshSpaced'
    <3>1. CASE UNCHANGED << last_refresh, fetches >>
      BY <2>2, <2>3, <3>1 DEF ClaimRefresh
    <3>2. CASE /\ ~(now - last_refresh < Cooldown) /\ now' = now
               /\ last_refresh' = now /\ fetches' = Append(fetches, now)
      <4>1. /\ now \in Nat /\ last_refresh \in 0 .. now /\ fetches \in Seq(Nat)
            /\ Len(fetches) \in Nat \ {0} /\ fetches[Len(fetches)] = last_refresh
        BY <2>1 DEF SlotIsLastFetch
      <4>2. /\ fetches' \in Seq(Nat) /\ Len(fetches') = Len(fetches) + 1
            /\ fetches'[Len(fetches) + 1] = now
            /\ \A i \in 1 .. Len(fetches) : fetches'[i] = fetches[i]
        BY <3>2, <4>1
      <4>3. SlotIsLastFetch'
        BY <3>2, <4>1, <4>2 DEF SlotIsLastFetch
      <4>4. ASSUME NEW i \in 1 .. Len(fetches)
            PROVE  fetches'[i + 1] - fetches'[i] >= Cooldown
        <5>1. CASE i = Len(fetches)
          BY <3>2, <4>1, <4>2, <5>1, CooldownAssumption
        <5>2. CASE i # Len(fetches)
          <6>1. i \in 1 .. Len(fetches) - 1 /\ i + 1 \in 1 .. Len(fetches)
            BY <4>1, <5>2
          <6>2. fetches'[i] = fetches[i] /\ fetches'[i + 1] = fetches[i + 1]
            BY <4>2, <6>1
          <6>3. QED BY <2>1, <6>1, <6>2 DEF JwksRefreshSpaced
        <5>3. QED BY <5>1, <5>2
      <4>5. QED BY <4>1, <4>2, <4>3, <4>4 DEF JwksRefreshSpaced
    <3>3. QED BY <2>3, <3>1, <3>2 DEF ClaimRefresh
  <2>4. CASE UNCHANGED rvars
    BY <2>2, <2>4 DEF rvars, jvars, cvars, jwks
  <2>5. QED BY <2>1, <2>2, <2>3, <2>4, SlotMoves DEF SlotStands
<1>3. Inv => JwksRefreshSpaced
  OBVIOUS
<1>4. QED BY <1>1, <1>2, <1>3, PTL DEF RouterSpec

-----------------------------------------------------------------------------
(* Accounts and tokens.                                                    *)

\* Where a request is about to write an account or a token.
Writing == {"insert", "role", "disabled", "password", "failure", "count",
            "success", "mint"}

\* A request keeps everything but where it is and how it ends.
Rest(c) ==
    /\ req'[c].route = req[c].route /\ req'[c].id = req[c].id
    /\ req'[c].user = req[c].user /\ req'[c].until = req[c].until

\* A request moves on or ends without coming to write.
Passes(c) ==
    \/ req'[c] = NoRequest
    \/ /\ req'[c].pc \notin Writing
       /\ \/ req'[c].route = req[c].route
          \/ \E p : req'[c].route = [req[c].route EXCEPT !.project = p]

\* What Goto and Ends keep of a request.
LEMMA Moves ==
    ASSUME RequestShape, NEW c \in Clients, req[c].pc # "none"
    PROVE  /\ \A d : Ends(c, d) => Only(c) /\ Rest(c) /\ req'[c].pc = "emit"
           /\ \A p : Goto(c, p) => Only(c) /\ Rest(c) /\ req'[c].pc = p
<1>1. DOMAIN req = Clients /\ DOMAIN req[c] = Fields
  BY DEF RequestShape, Shaped, NoRequest
<1>2. ASSUME NEW d, Ends(c, d)
      PROVE  Only(c) /\ Rest(c) /\ req'[c].pc = "emit"
  BY <1>1, <1>2 DEF Ends, Only, Rest, Fields
<1>3. ASSUME NEW p, Goto(c, p)
      PROVE  Only(c) /\ Rest(c) /\ req'[c].pc = p
  BY <1>1, <1>3 DEF Goto, Only, Rest, Fields
<1>4. QED BY <1>2, <1>3

\* What the proofs use of the lifetimes and of the lockout.
LEMMA AccountBounds ==
    /\ LockoutSecs \in Nat /\ LoginTtl \in Nat /\ LongestTtl \in Nat
    /\ 0 \in 0 .. Threshold - 1 /\ LoginTtl <= LongestTtl
    /\ 0 + LongestTtl = LongestTtl
<1>1. /\ LockoutSecs \in Nat /\ LoginTtl \in Nat /\ MaxTtl \in Nat
      /\ Threshold \in Nat \ {0}
  BY AccountAssumption
<1>2. QED BY <1>1 DEF LongestTtl

\* A bound that counts from the clock only grows.
LEMMA BoundGrows ==
    ASSUME NEW a \in Int, NEW t \in Nat, NEW u \in Nat, NEW d \in Nat,
           t <= u, a <= t + d
    PROVE  a <= u + d
OBVIOUS

\* A failed login is counted below the threshold, or locks the account for
\* LockoutSecs.
LEMMA FailureCounted ==
    ASSUME NEW n \in 0 .. Threshold - 1, NEW at \in Nat, NEW t \in 0 .. at
    PROVE  LET next == NextLoginFailureState(n, t, Threshold, LockoutSecs) IN
           /\ next.failed \in 0 .. Threshold - 1 /\ next.locked_until \in Int
           /\ next.locked_until <= at + LockoutSecs
<1> DEFINE next == NextLoginFailureState(n, t, Threshold, LockoutSecs)
<1>1. Threshold \in Nat \ {0} /\ LockoutSecs \in Nat
  BY AccountAssumption
<1>2. CASE n + 1 >= Threshold
  <2>1. next.failed = 0 /\ next.locked_until = t + LockoutSecs
    BY <1>2 DEF NextLoginFailureState
  <2>2. QED BY <1>1, <2>1
<1>3. CASE ~(n + 1 >= Threshold)
  <2>1. next.failed = n + 1 /\ next.locked_until = 0
    BY <1>3 DEF NextLoginFailureState
  <2>2. QED BY <1>1, <1>3, <2>1
<1>4. QED BY <1>2, <1>3

\* A login that succeeds leaves no failure and no lock.
LEMMA FailuresCleared ==
    ASSUME NEW t \in Nat
    PROVE  0 \in 0 .. Threshold - 1 /\ 0 \in Int /\ 0 <= t + LockoutSecs
BY AccountBounds

LEMMA ClockTyped == ASSUME AccountInv PROVE now \in Nat
BY DEF AccountInv, StoreTyped

\* What grounds a request stays, as accounts are never removed and time only
\* goes on.
LEMMA GroundedGrows ==
    ASSUME NEW r, NEW names, NEW at \in Nat, NEW names2, NEW at2 \in Nat,
           names \subseteq names2, at <= at2, Grounded(r, names, at)
    PROVE  Grounded(r, names2, at2)
<1>1. LongestTtl \in Nat
  BY AccountBounds
<1>2. r.pc \in {"success", "mint"} =>
        r.until \in Int /\ r.until <= at2 + LongestTtl
  BY <1>1 DEF Grounded
<1>3. r.pc = "count" => r.until \in 0 .. at2
  BY DEF Grounded
<1>4. QED BY <1>2, <1>3 DEF Grounded

\* Changing the project of a route leaves what it says of accounts.
LEMMA RouteKept ==
    ASSUME NEW route, RouteTyped(route), NEW p, NEW next,
           next = [route EXCEPT !.project = p]
    PROVE  RouteTyped(next)
BY DEF RouteTyped

\* The other requests stay grounded.
LEMMA AccountOfOne ==
    ASSUME AccountInv, StoreTyped', DOMAIN users \subseteq DOMAIN users',
           now' = now, NEW c \in Clients, Only(c),
           \/ req'[c] = NoRequest
           \/ Grounded(req'[c], DOMAIN users', now')
    PROVE  AccountInv'
<1>0. now \in Nat
  BY ClockTyped
<1>1. now \in Nat /\ now' \in Nat /\ now <= now'
  BY <1>0
<1>2. ASSUME NEW d \in Clients
      PROVE  req'[d] = NoRequest \/ Grounded(req'[d], DOMAIN users', now')
  <2>1. CASE d # c
    <3>1. req'[d] = req[d]
      BY <2>1 DEF Only
    <3>2. req[d] = NoRequest \/ Grounded(req[d], DOMAIN users, now)
      BY DEF AccountInv
    <3>3. QED BY <1>1, <3>1, <3>2, GroundedGrows
  <2>2. QED BY <2>1
<1>3. QED BY <1>2 DEF AccountInv

\* A step that leaves the store alone and does not come to write.
LEMMA AccountPasses ==
    ASSUME AccountInv, UNCHANGED << users, tokens, grants, now >>,
           NEW c \in Clients, Only(c), Passes(c), req[c] # NoRequest
    PROVE  AccountInv'
<1>1. StoreTyped'
  BY DEF AccountInv, StoreTyped
<1>2. RouteTyped(req[c].route)
  BY DEF AccountInv, Grounded
<1>3. \/ req'[c] = NoRequest
      \/ Grounded(req'[c], DOMAIN users', now')
  <2>1. CASE req'[c] # NoRequest
    <3>1. RouteTyped(req'[c].route)
      <4>1. CASE req'[c].route = req[c].route
        BY <1>2, <4>1
      <4>2. CASE req'[c].route # req[c].route
        <5>1. PICK p : req'[c].route = [req[c].route EXCEPT !.project = p]
          BY <2>1, <4>2 DEF Passes
        <5>2. QED BY <1>2, <5>1, RouteKept
      <4>3. QED BY <4>1, <4>2
    <3>2. req'[c].pc \notin Writing
      BY <2>1 DEF Passes
    <3>3. QED BY <3>1, <3>2 DEF Grounded, Writing
  <2>2. QED BY <2>1
<1>4. QED BY <1>1, <1>3, AccountOfOne

\* Replacing a row of a table is a Put.
LEMMA PutIsExcept ==
    ASSUME NEW K, NEW V, NEW t, IsTable(t, K, V), NEW k \in DOMAIN t, NEW v
    PROVE  [t EXCEPT ![k] = v] = Put(t, k, v)
BY DEF IsTable, Put

\* A well-typed row is written.
LEMMA UserWritten ==
    ASSUME StoreTyped, UNCHANGED << tokens, grants, now >>, NEW u \in Users,
           NEW row \in UserRow, row.locked_until <= now + LockoutSecs,
           users' = Put(users, u, row)
    PROVE  StoreTyped' /\ DOMAIN users \subseteq DOMAIN users'
<1>1. DOMAIN users' = DOMAIN users \cup {u} /\ users'[u] = row
      /\ \A x \in DOMAIN users \ {u} : users'[x] = users[x]
  BY DEF Put
<1>2. IsTable(users', Users, UserRow)
  BY DEF StoreTyped, IsTable, Put
<1>3. \A x \in DOMAIN users' : users'[x].locked_until <= now' + LockoutSecs
  BY <1>1 DEF StoreTyped
<1>4. \A p \in DOMAIN tokens' : /\ tokens'[p].username \in DOMAIN users'
                                /\ tokens'[p].expires <= now' + LongestTtl
  BY <1>1 DEF StoreTyped
<1>5. QED BY <1>1, <1>2, <1>3, <1>4 DEF StoreTyped

LEMMA TokenWritten ==
    ASSUME StoreTyped, UNCHANGED << users, grants, now >>, NEW p \in TokenIds,
           NEW row \in TokenRow, row.username \in DOMAIN users,
           row.expires <= now + LongestTtl,
           tokens' = Put(tokens, p, row)
    PROVE  StoreTyped'
<1>1. DOMAIN tokens' = DOMAIN tokens \cup {p} /\ tokens'[p] = row
      /\ \A x \in DOMAIN tokens \ {p} : tokens'[x] = tokens[x]
  BY DEF Put
<1>2. IsTable(tokens', TokenIds, TokenRow)
  BY DEF StoreTyped, IsTable, Put
<1>3. \A x \in DOMAIN tokens' : /\ tokens'[x].username \in DOMAIN users'
                                /\ tokens'[x].expires <= now' + LongestTtl
  BY <1>1 DEF StoreTyped
<1>4. QED BY <1>2, <1>3 DEF StoreTyped

\* The steps that neither write accounts or tokens nor come to.
Passing(c) ==
    \/ LookupToken(c) \/ ReadUser(c) \/ ValidateJwt(c) \/ ClaimRefresh(c)
    \/ FetchJwks(c) \/ FetchFails(c) \/ RetryKey(c)
    \/ Authorize(c) \/ AuthorizeBlind(c) \/ Serve(c) \/ UpdateFails(c)
    \/ CredentialFails(c) \/ ReadPage(c) \/ VerifyTrail(c) \/ Emit(c) \/ EmitFails(c)
    \/ GatewayStep(c) \/ ReadStep(c)

LEMMA PassingPasses ==
    ASSUME RequestShape, NEW c \in Clients, Passing(c)
    PROVE  /\ UNCHANGED << users, tokens, grants, now >>
           /\ Only(c) /\ Passes(c) /\ req[c] # NoRequest
<1>1. UNCHANGED << users, tokens, grants, now >>
  <2>1. CASE \/ LookupToken(c) \/ ReadUser(c) \/ ValidateJwt(c)
             \/ ClaimRefresh(c) \/ FetchJwks(c) \/ FetchFails(c) \/ RetryKey(c)
             \/ Authorize(c) \/ AuthorizeBlind(c) \/ Serve(c) \/ UpdateFails(c)
             \/ CredentialFails(c) \/ ReadPage(c) \/ VerifyTrail(c) \/ Emit(c) \/ EmitFails(c)
    BY <2>1 DEF LookupToken, ReadUser, ValidateJwt, ClaimRefresh, FetchJwks,
       FetchFails, RetryKey, Authorize, AuthorizeBlind, Serve, UpdateFails,
       CredentialFails, ReadPage, VerifyTrail, Emit, EmitFails, store
  <2>2. CASE GatewayStep(c)
    BY <2>2 DEF GatewayStep, HostGateway, Forward, ForwardRefused, Connect,
       UpstreamFails, ClientGone, EmitProxied, EmitProxiedFails,
       RecordSubmission, RecordSubmissionFails, ResolveScope,
       ResolveScopeFails, FetchDashboard, ListJobs, Background, ReadFrame,
       store
  <2>3. CASE ReadStep(c)
    BY <2>3 DEF ReadStep, ClusterNodes, ClusterEvents, ClusterLogs, EngineOf,
       ProbeDask, ProbeFails, Remember, ClusterJobs, ClusterMetrics,
       Southbound, ReadFrame, RouterFrame, plane, store
  <2>4. QED BY <2>1, <2>2, <2>3 DEF Passing
<1>2. req[c].pc # "none" /\ req[c] # NoRequest
  <2>1. CASE GatewayStep(c) \/ ReadStep(c)
    <3>1. Carried(c)
      BY <2>1, GatewayCarries, ReadCarries
    <3>2. req[c].pc # "none"
      BY <3>1 DEF Carried, NoRequest
    <3>3. QED BY <3>2, Underway
  <2>2. CASE ~(GatewayStep(c) \/ ReadStep(c))
    <3>1. req[c].pc # "none"
      <4>1. CASE \/ LookupToken(c) \/ ReadUser(c) \/ ValidateJwt(c)
                 \/ ClaimRefresh(c) \/ FetchJwks(c) \/ FetchFails(c)
                 \/ RetryKey(c) \/ Authorize(c) \/ AuthorizeBlind(c)
        BY <4>1 DEF At, LookupToken, ReadUser, ValidateJwt, ClaimRefresh,
           FetchJwks, FetchFails, RetryKey, Authorize, AuthorizeBlind
      <4>2. CASE \/ Serve(c) \/ UpdateFails(c) \/ CredentialFails(c)
                 \/ ReadPage(c) \/ VerifyTrail(c) \/ Emit(c) \/ EmitFails(c)
        BY <4>2 DEF At, Acts, Serve, UpdateFails, CredentialFails, ReadPage,
           VerifyTrail, Emit, EmitFails
      <4>3. QED BY <2>2, <4>1, <4>2 DEF Passing
    <3>2. QED BY <3>1, Underway
  <2>3. QED BY <2>1, <2>2
<1>3. DOMAIN req = Clients /\ DOMAIN req[c] = Fields
  BY <1>2 DEF RequestShape, Shaped, NoRequest
<1>4. \/ Drops(c) \/ \E d : Ends(c, d)
      \/ \E p \in {"user", "refresh", "retry", "fetch", "act"} : Goto(c, p)
      \/ \E id : Known(c, id)
      \/ \E p \in {"connect", "forward", "proxied", "record", "authorize",
                    "probe", "dashboard"} : Goto(c, p)
      \/ \E p \in {"proxied", "remember"} :
            \E j : req' = [req EXCEPT ![c].pc = p, ![c].reply = j]
      \/ \E p : req' = [req EXCEPT ![c].pc = "authorize",
                                   ![c].route.project = p]
  <2>1. CASE \/ LookupToken(c) \/ ReadUser(c) \/ ClaimRefresh(c)
             \/ FetchJwks(c) \/ FetchFails(c)
             \/ Authorize(c) \/ AuthorizeBlind(c) \/ Serve(c) \/ UpdateFails(c)
             \/ CredentialFails(c) \/ ReadPage(c) \/ VerifyTrail(c) \/ Emit(c) \/ EmitFails(c)
    BY <2>1 DEF LookupToken, ReadUser, ClaimRefresh, FetchJwks,
       FetchFails, Authorize, AuthorizeBlind, Serve, UpdateFails,
       CredentialFails, ReadPage, VerifyTrail, Emit, EmitFails
  <2>2. CASE ValidateJwt(c) \/ RetryKey(c)
    BY <2>2 DEF ValidateJwt, RetryKey, Accepted
  <2>3. CASE GatewayStep(c)
    <3>1. CASE \/ HostGateway(c) \/ Forward(c) \/ ForwardRefused(c)
               \/ Connect(c) \/ UpstreamFails(c) \/ ClientGone(c)
      BY <3>1 DEF HostGateway, Forward, ForwardRefused, Connect, UpstreamFails,
         ClientGone, Answer
    <3>2. CASE EmitProxied(c) \/ EmitProxiedFails(c)
      BY <3>2 DEF EmitProxied, EmitProxiedFails, AfterAudit, OpenBridge, Answer
    <3>3. CASE \/ RecordSubmission(c) \/ RecordSubmissionFails(c)
               \/ FetchDashboard(c) \/ ListJobs(c)
      BY <3>3 DEF RecordSubmission, RecordSubmissionFails, FetchDashboard,
         ListJobs, Answer
    <3>4. CASE ResolveScope(c) \/ ResolveScopeFails(c)
      BY <3>4 DEF ResolveScope, ResolveScopeFails, ScopeForRead
    <3>5. QED BY <2>3, <3>1, <3>2, <3>3, <3>4 DEF GatewayStep
  <2>4. CASE ReadStep(c)
    BY <2>4 DEF ReadStep, ClusterNodes, ClusterEvents, ClusterLogs, EngineOf,
       ProbeDask, ProbeFails, Remember, ClusterJobs, ClusterMetrics, Southbound
  <2>5. QED BY <2>1, <2>2, <2>3, <2>4 DEF Passing
<1>5. ASSUME NEW id, Known(c, id) PROVE Only(c) /\ Passes(c)
  BY <1>3, <1>5 DEF Known, Only, Passes, Writing, Fields
<1>6. ASSUME NEW p \in {"proxied", "remember"}, NEW j,
             req' = [req EXCEPT ![c].pc = p, ![c].reply = j]
      PROVE  Only(c) /\ Passes(c)
  BY <1>3, <1>6 DEF Only, Passes, Writing, Fields
<1>7. ASSUME NEW p,
             req' = [req EXCEPT ![c].pc = "authorize", ![c].route.project = p]
      PROVE  Only(c) /\ Passes(c)
  <2>1. Only(c) /\ req'[c].pc = "authorize"
        /\ req'[c].route = [req[c].route EXCEPT !.project = p]
    BY <1>3, <1>7 DEF Only, Fields
  <2>2. QED BY <2>1 DEF Passes, Writing
<1>8. Drops(c) => Only(c) /\ Passes(c)
  BY <1>2, Leaves DEF Passes
<1>9. ASSUME NEW d, Ends(c, d) PROVE Only(c) /\ Passes(c)
  BY <1>2, <1>9, Moves DEF Passes, Rest, Writing
<1>10. ASSUME NEW p, p \notin Writing, Goto(c, p) PROVE Only(c) /\ Passes(c)
  BY <1>2, <1>10, Moves DEF Passes, Rest
<1>11. Only(c) /\ Passes(c)
  BY <1>4, <1>5, <1>6, <1>7, <1>8, <1>9, <1>10 DEF Writing
<1>12. QED BY <1>1, <1>2, <1>11

\* Requests that read before they write: what they found is still so.
LEMMA AccountReads ==
    ASSUME RequestShape, AccountInv, NEW c \in Clients,
           \/ Arrive(c) \/ CreateUserLookup(c) \/ UpdateUserLookup(c)
           \/ IssueToken(c) \/ LoginLookup(c) \/ ReadFailures(c)
    PROVE  AccountInv'
<1> USE DEF At, Acts
<1>0. DOMAIN req = Clients /\ now \in Nat
  BY DEF RequestShape, AccountInv, StoreTyped
<1>1. /\ UNCHANGED << users, tokens, grants, now >>
      /\ StoreTyped' /\ DOMAIN users \subseteq DOMAIN users'
  <2>1. UNCHANGED << users, tokens, grants, now >>
    BY DEF Arrive, CreateUserLookup, UpdateUserLookup, IssueToken, LoginLookup,
       ReadFailures, store
  <2>2. QED BY <2>1 DEF AccountInv, StoreTyped
<1>2. CASE Arrive(c)
  <2>1. PICK route \in Routes, b \in Bearers :
          req' = [req EXCEPT ![c] =
                    [pc |-> IF ~route.cluster /\ IsPublic(route.area)
                            THEN "public"
                            ELSE IF b = NoBearer THEN "emit" ELSE b.kind,
                     route |-> route, bearer |-> b, id |-> Nobody,
                     user |-> Nobody, until |-> 0, decision |-> "deny",
                     reply |-> "none"]]
    BY <1>2 DEF Arrive
  <2>2. b = NoBearer \/ b.kind \in {"pat", "jwt"}
    BY DEF Bearers
  <2>3. /\ Only(c) /\ req'[c].route = route
        /\ req'[c].pc \in {"public", "emit", "pat", "jwt"}
    BY <1>0, <2>1, <2>2 DEF Only
  <2>4. RouteTyped(route)
    BY AccountAssumption
  <2>5. Grounded(req'[c], DOMAIN users', now')
    BY <2>3, <2>4 DEF Grounded
  <2>6. QED BY <1>1, <2>3, <2>5, AccountOfOne
<1>3. CASE ~Arrive(c)
  <2>1. /\ req[c].pc # "none" /\ req[c] # NoRequest
        /\ DOMAIN req[c] = Fields
    <3>1. req[c].pc # "none"
      BY <1>3 DEF CreateUserLookup, UpdateUserLookup, IssueToken,
         LoginLookup, ReadFailures
    <3>2. req[c] # NoRequest
      BY <3>1, Underway
    <3>3. QED BY <3>1, <3>2 DEF RequestShape, Shaped
  <2>2. Grounded(req[c], DOMAIN users, now) /\ RouteTyped(req[c].route)
    BY <2>1 DEF AccountInv, Grounded
  <2>3. ASSUME Drops(c) \/ \E d : Ends(c, d) PROVE AccountInv'
    <3>1. Only(c) /\ Passes(c)
      BY <2>1, <2>3, Leaves, Moves DEF Passes, Rest, Writing
    <3>2. QED BY <1>1, <2>1, <3>1, AccountPasses
  <2>4. CASE CreateUserLookup(c)
    <3>1. ASSUME Goto(c, "insert") PROVE AccountInv'
      <4>1. Only(c) /\ Rest(c) /\ req'[c].pc = "insert"
        BY <2>1, <3>1, Moves
      <4>2. Grounded(req'[c], DOMAIN users', now')
        BY <2>2, <2>4, <4>1 DEF Grounded, Rest, CreateUserLookup
      <4>3. QED BY <1>1, <4>1, <4>2, AccountOfOne
    <3>2. QED BY <2>3, <2>4, <3>1 DEF CreateUserLookup
  <2>5. CASE UpdateUserLookup(c)
    <3>1. ASSUME req[c].route.user \in DOMAIN users, Goto(c, "role")
          PROVE  AccountInv'
      <4>1. Only(c) /\ Rest(c) /\ req'[c].pc = "role"
        BY <2>1, <3>1, Moves
      <4>2. Grounded(req'[c], DOMAIN users', now')
        BY <1>1, <2>2, <2>5, <3>1, <4>1 DEF Grounded, Rest, UpdateUserLookup
      <4>3. QED BY <1>1, <4>1, <4>2, AccountOfOne
    <3>2. QED BY <2>3, <2>5, <3>1 DEF UpdateUserLookup
  <2>6. CASE IssueToken(c)
    <3>1. ASSUME req[c].route.ttl \in 1 .. MaxTtl,
                 req[c].id.subject \in DOMAIN users,
                 req' = [req EXCEPT ![c].pc = "mint",
                                    ![c].until = now + req[c].route.ttl]
          PROVE  AccountInv'
      <4>1. /\ Only(c) /\ req'[c].route = req[c].route /\ req'[c].pc = "mint"
            /\ req'[c].id = req[c].id /\ req'[c].until = now + req[c].route.ttl
        BY <1>0, <2>1, <3>1 DEF Only, Fields
      <4>2. /\ now + req[c].route.ttl \in Int
            /\ now + req[c].route.ttl <= now + LongestTtl
        BY <1>0, <3>1, AccountAssumption DEF LongestTtl
      <4>3. Grounded(req'[c], DOMAIN users', now')
        BY <1>1, <2>2, <3>1, <4>1, <4>2 DEF Grounded
      <4>4. QED BY <1>1, <4>1, <4>3, AccountOfOne
    <3>2. QED BY <2>3, <2>6, <3>1 DEF IssueToken
  <2>7. CASE LoginLookup(c)
    <3>1. ASSUME NEW p \in {"success", "failure"}, NEW row,
                 req[c].route.user \in DOMAIN users,
                 req' = [req EXCEPT ![c].pc = p, ![c].user = row,
                                    ![c].until = now + LoginTtl]
          PROVE  AccountInv'
      <4>1. /\ Only(c) /\ req'[c].route = req[c].route /\ req'[c].pc = p
            /\ req'[c].until = now + LoginTtl
        BY <1>0, <2>1, <3>1 DEF Only, Fields
      <4>2. now + LoginTtl \in Int /\ now + LoginTtl <= now + LongestTtl
        <5>1. now \in Nat
          BY ClockTyped
        <5>2. QED BY <5>1, AccountBounds
      <4>3. Grounded(req'[c], DOMAIN users', now')
        BY <1>1, <2>2, <3>1, <4>1, <4>2 DEF Grounded
      <4>4. QED BY <1>1, <4>1, <4>3, AccountOfOne
    <3>2. QED BY <2>3, <2>7, <3>1 DEF LoginLookup
  <2>8. CASE ReadFailures(c)
    <3>1. /\ Only(c) /\ req'[c].route = req[c].route /\ req'[c].pc = "count"
          /\ req'[c].user = users[req[c].route.user] /\ req'[c].until = now
      BY <1>0, <2>1, <2>8 DEF ReadFailures, Only, Fields
    <3>2. req[c].route.user \in DOMAIN users
      BY <2>2, <2>8 DEF ReadFailures, Grounded
    <3>3. users[req[c].route.user] \in UserRow
      BY <3>2 DEF AccountInv, StoreTyped, IsTable
    <3>4. users[req[c].route.user].failed \in 0 .. Threshold - 1
      BY <3>3 DEF UserRow
    <3>5. now' = now /\ now \in 0 .. now
      BY <1>0, <1>1
    <3>6. Grounded(req'[c], DOMAIN users', now')
      BY <1>1, <2>2, <3>1, <3>2, <3>4, <3>5 DEF Grounded
    <3>7. QED BY <1>1, <3>1, <3>6, AccountOfOne
  <2>9. QED BY <1>3, <2>4, <2>5, <2>6, <2>7, <2>8
<1>4. QED BY <1>2, <1>3

\* Writes of accounts.
LEMMA AccountWrites ==
    ASSUME RequestShape, AccountInv, NEW c \in Clients,
           \/ CreateUserInsert(c) \/ UpdateRole(c) \/ UpdateDisabled(c)
           \/ UpdatePassword(c) \/ CountFailure(c) \/ ClearFailures(c)
    PROVE  AccountInv'
<1> USE DEF At
<1>0. DOMAIN req = Clients /\ now \in Nat /\ StoreTyped
  BY DEF RequestShape, AccountInv, StoreTyped
<1>1. /\ req[c].pc # "none" /\ req[c] # NoRequest
      /\ DOMAIN req[c] = Fields
  <2>1. req[c].pc # "none"
    BY DEF CreateUserInsert, UpdateRole, UpdateDisabled, UpdatePassword,
       UpdateField, CountFailure, ClearFailures
  <2>2. QED BY <2>1, Underway, ShapeOf
<1>2. Grounded(req[c], DOMAIN users, now) /\ RouteTyped(req[c].route)
  BY <1>1 DEF AccountInv, Grounded
<1>3. UNCHANGED << tokens, grants, now >>
  BY DEF CreateUserInsert, UpdateRole, UpdateDisabled, UpdatePassword,
     UpdateField, CountFailure, ClearFailures
<1>4. ASSUME NEW row \in UserRow, req[c].route.user \in Users,
             row.locked_until <= now + LockoutSecs,
             users' = Put(users, req[c].route.user, row),
             Only(c), req'[c] = NoRequest \/ Grounded(req'[c], DOMAIN users', now')
      PROVE  AccountInv'
  <2>1. StoreTyped' /\ DOMAIN users \subseteq DOMAIN users'
    BY <1>0, <1>3, <1>4, UserWritten
  <2>2. QED BY <1>3, <1>4, <2>1, AccountOfOne
<1>5. ASSUME UNCHANGED users, Only(c),
             req'[c] = NoRequest \/ Grounded(req'[c], DOMAIN users', now')
      PROVE  AccountInv'
  <2>1. StoreTyped'
    BY <1>0, <1>3, <1>5 DEF StoreTyped
  <2>2. QED BY <1>3, <1>5, <2>1, AccountOfOne
<1>6. ASSUME NEW u, u \in DOMAIN users
      PROVE  /\ u \in Users /\ users[u] \in UserRow
             /\ users[u].locked_until <= now + LockoutSecs
             /\ DOMAIN users[u] =
                  {"role", "disabled", "password", "failed", "locked_until"}
             /\ \A row : [users EXCEPT ![u] = row] = Put(users, u, row)
  <2>1. /\ u \in Users /\ users[u] \in UserRow
        /\ users[u].locked_until <= now + LockoutSecs
    BY <1>0, <1>6 DEF StoreTyped, IsTable
  <2>2. DOMAIN users[u] =
          {"role", "disabled", "password", "failed", "locked_until"}
    BY <2>1 DEF UserRow
  <2>3. \A row : [users EXCEPT ![u] = row] = Put(users, u, row)
    <3>1. IsTable(users, Users, UserRow)
      BY <1>0 DEF StoreTyped
    <3>2. QED BY <1>6, <3>1, PutIsExcept
  <2>4. QED BY <2>1, <2>2, <2>3
<1>7. CASE CreateUserInsert(c)
  <2>1. /\ req[c].route.user \in Users /\ req[c].route.role \in Roles
        /\ req[c].route.password \in Passwords
    BY <1>2, <1>7 DEF CreateUserInsert, Grounded, RouteTyped
  <2>2. CASE Drops(c) /\ UNCHANGED users
    BY <1>1, <1>5, <2>2, Leaves
  <2>3. CASE /\ users' = Put(users, req[c].route.user,
                             NewUser(req[c].route.role, req[c].route.password))
             /\ Ends(c, "allow")
    <3>1. Only(c) /\ Rest(c) /\ req'[c].pc = "emit"
      BY <1>1, <2>3, Moves
    <3>2. Grounded(req'[c], DOMAIN users', now')
      BY <1>2, <3>1 DEF Grounded, Rest
    <3>3. 0 \in 0 .. Threshold - 1 /\ 0 <= now + LockoutSecs
      <4>1. now \in Nat
        BY ClockTyped
      <4>2. QED BY <4>1, AccountBounds
    <3>4. /\ NewUser(req[c].route.role, req[c].route.password) \in UserRow
          /\ NewUser(req[c].route.role, req[c].route.password).locked_until = 0
      BY <2>1, <3>3 DEF NewUser, UserRow
    <3>5. QED BY <1>4, <2>1, <2>3, <3>1, <3>2, <3>3, <3>4
  <2>4. QED BY <1>7, <2>2, <2>3 DEF CreateUserInsert
<1>8. CASE UpdateRole(c) \/ UpdateDisabled(c) \/ UpdatePassword(c)
  <2>1. /\ req[c].pc \in {"role", "disabled", "password"}
        /\ req[c].route.kind = "update_user"
        /\ req[c].route.user \in DOMAIN users
        /\ req[c].route.role \in Roles \cup {"keep"}
        /\ req[c].route.password \in Passwords \cup {"keep"}
    <3>1. req[c].pc \in {"role", "disabled", "password"}
      BY <1>8 DEF UpdateRole, UpdateDisabled, UpdatePassword, UpdateField
    <3>2. QED BY <1>2, <3>1 DEF Grounded, RouteTyped
  <2>2. /\ Only(c) /\ Rest(c) /\ req'[c].pc \in {"disabled", "password", "emit"}
    <3>1. Goto(c, "disabled") \/ Goto(c, "password") \/ Ends(c, "allow")
      BY <1>8 DEF UpdateRole, UpdateDisabled, UpdatePassword, UpdateField
    <3>2. QED BY <1>1, <3>1, Moves
  <2>3. ASSUME DOMAIN users' = DOMAIN users
        PROVE  Grounded(req'[c], DOMAIN users', now')
    BY <1>2, <2>1, <2>2, <2>3 DEF Grounded, Rest
  <2>4. CASE UNCHANGED users
    BY <1>5, <2>2, <2>3, <2>4
  <2>5. CASE ~UNCHANGED users
    <3>1. PICK row \in UserRow :
            /\ row.locked_until <= now + LockoutSecs
            /\ users' = [users EXCEPT ![req[c].route.user] = row]
      <4> DEFINE u == req[c].route.user
      <4>1. /\ u \in DOMAIN users /\ users[u] \in UserRow
            /\ users[u].locked_until <= now + LockoutSecs
            /\ DOMAIN users[u] =
                  {"role", "disabled", "password", "failed", "locked_until"}
        BY <1>6, <2>1
      <4>2. CASE UpdateRole(c)
        <5>1. /\ req[c].route.role \in Roles
              /\ users' = [users EXCEPT ![u] =
                            [users[u] EXCEPT !.role = req[c].route.role]]
          BY <2>1, <2>5, <4>2 DEF UpdateRole, UpdateField
        <5>2. [users[u] EXCEPT !.role = req[c].route.role] \in UserRow
          BY <4>1, <5>1 DEF UserRow
        <5>3. [users[u] EXCEPT !.role = req[c].route.role].locked_until
                = users[u].locked_until
          BY <4>1
        <5>4. QED BY <4>1, <5>1, <5>2, <5>3
      <4>3. CASE UpdateDisabled(c)
        <5>1. users' = [users EXCEPT ![u] =
                [users[u] EXCEPT !.disabled = (req[c].route.disabled = "yes")]]
          BY <2>5, <4>3 DEF UpdateDisabled
        <5>2. [users[u] EXCEPT !.disabled = (req[c].route.disabled = "yes")]
                \in UserRow
          BY <4>1 DEF UserRow
        <5>3. [users[u] EXCEPT !.disabled = (req[c].route.disabled = "yes")]
                .locked_until = users[u].locked_until
          BY <4>1
        <5>4. QED BY <4>1, <5>1, <5>2, <5>3
      <4>4. CASE UpdatePassword(c)
        <5>1. /\ req[c].route.password \in Passwords
              /\ users' = [users EXCEPT ![u] =
                            [users[u] EXCEPT !.password = req[c].route.password]]
          BY <2>1, <2>5, <4>4 DEF UpdatePassword, UpdateField
        <5>2. [users[u] EXCEPT !.password = req[c].route.password] \in UserRow
          BY <4>1, <5>1 DEF UserRow
        <5>3. [users[u] EXCEPT !.password = req[c].route.password].locked_until
                = users[u].locked_until
          BY <4>1
        <5>4. QED BY <4>1, <5>1, <5>2, <5>3
      <4>5. QED BY <1>8, <4>2, <4>3, <4>4
    <3>2. /\ users' = Put(users, req[c].route.user, row)
          /\ DOMAIN users' = DOMAIN users /\ req[c].route.user \in Users
      BY <1>6, <2>1, <3>1
    <3>3. QED BY <1>4, <2>2, <2>3, <3>1, <3>2
  <2>6. QED BY <2>4, <2>5
<1>9. ASSUME NEW failed \in 0 .. Threshold - 1, NEW until \in Int,
             until <= now + LockoutSecs, req[c].route.user \in DOMAIN users,
             SetLoginLockout(req[c].route.user, failed, until),
             Only(c), Grounded(req'[c], DOMAIN users, now)
      PROVE  AccountInv'
  <2> DEFINE u == req[c].route.user
             row == [users[u] EXCEPT !.failed = failed, !.locked_until = until]
  <2>1. /\ u \in Users /\ users[u] \in UserRow
        /\ DOMAIN users[u] =
                  {"role", "disabled", "password", "failed", "locked_until"}
    BY <1>6, <1>9
  <2>2. row \in UserRow /\ row.locked_until = until
    BY <1>9, <2>1 DEF UserRow
  <2>3. users' = [users EXCEPT ![u] = row]
    BY <1>9 DEF SetLoginLockout
  <2> HIDE DEF row
  <2>4. users' = Put(users, u, row) /\ DOMAIN users' = DOMAIN users
    BY <1>6, <1>9, <2>3
  <2>5. QED BY <1>3, <1>4, <1>9, <2>1, <2>2, <2>4
<1>10. CASE CountFailure(c)
  <2>1. /\ req[c].user.failed \in 0 .. Threshold - 1
        /\ req[c].until \in 0 .. now
        /\ req[c].route.user \in DOMAIN users
    BY <1>2, <1>10 DEF CountFailure, Grounded
  <2>2. Only(c) /\ Rest(c) /\ req'[c].pc = "emit"
    BY <1>1, <1>10, Moves DEF CountFailure
  <2>3. Grounded(req'[c], DOMAIN users, now)
    BY <1>2, <2>2 DEF Grounded, Rest
  <2> DEFINE next == NextLoginFailureState(req[c].user.failed, req[c].until,
                                           Threshold, LockoutSecs)
  <2>7. now \in Nat
    BY ClockTyped
  <2>4. /\ next.failed \in 0 .. Threshold - 1 /\ next.locked_until \in Int
        /\ next.locked_until <= now + LockoutSecs
    BY <2>1, <2>7, FailureCounted
  <2>5. SetLoginLockout(req[c].route.user, next.failed, next.locked_until)
    BY <1>10 DEF CountFailure
  <2> HIDE DEF next
  <2>6. QED BY <1>9, <2>1, <2>2, <2>3, <2>4, <2>5
<1>11. CASE ClearFailures(c)
  <2>1. /\ Only(c) /\ req'[c].route = req[c].route /\ req'[c].pc = "mint"
        /\ req'[c].id = IdentityOfUser(req[c].route.user, req[c].user)
        /\ req'[c].until = req[c].until
    BY <1>0, <1>1, <1>11 DEF ClearFailures, Only, Fields
  <2>2. req'[c].id.subject = req[c].route.user
    <3>1. ASSUME NEW u, NEW row PROVE IdentityOfUser(u, row).subject = u
      BY DEF IdentityOfUser
    <3>2. QED BY <2>1, <3>1
  <2>3. /\ req[c].route.user \in DOMAIN users
        /\ req[c].until \in Int /\ req[c].until <= now + LongestTtl
    BY <1>2, <1>11 DEF ClearFailures, Grounded
  <2>4. Grounded(req'[c], DOMAIN users, now)
    BY <1>2, <2>1, <2>2, <2>3 DEF Grounded
  <2>5. SetLoginLockout(req[c].route.user, 0, 0)
    BY <1>11 DEF ClearFailures
  <2>6. 0 \in 0 .. Threshold - 1 /\ 0 \in Int /\ 0 <= now + LockoutSecs
    BY ClockTyped, FailuresCleared
  <2>7. Only(c)
    BY <2>1
  <2>8. QED BY <1>9, <2>3, <2>4, <2>5, <2>6, <2>7
<1>12. QED BY <1>7, <1>8, <1>10, <1>11

\* Writes of tokens and of role assignments.
LEMMA TokenWrites ==
    ASSUME RequestShape, AccountInv, NEW c \in Clients,
           \/ RevokeToken(c) \/ Logout(c) \/ StoreToken(c)
           \/ Assign(c) \/ Unassign(c)
    PROVE  AccountInv'
<1> USE DEF At, Acts
<1>0. StoreTyped
  BY DEF AccountInv
<1>1. req[c].pc # "none" /\ req[c] # NoRequest
  <2>1. req[c].pc # "none"
    BY DEF RevokeToken, Logout, StoreToken, Assign, Unassign
  <2>2. QED BY <2>1, Underway
<1>2. Grounded(req[c], DOMAIN users, now) /\ RouteTyped(req[c].route)
  BY <1>1 DEF AccountInv, Grounded
<1>3. UNCHANGED << users, now >>
  BY DEF RevokeToken, Logout, StoreToken, Assign, Unassign
<1>4. Drops(c) \/ Ends(c, "allow")
  BY DEF RevokeToken, Logout, StoreToken, Assign, Unassign
<1>5. /\ Only(c)
      /\ req'[c] = NoRequest \/ Grounded(req'[c], DOMAIN users', now')
  <2>1. CASE Drops(c)
    BY <1>1, <2>1, Leaves
  <2>2. CASE Ends(c, "allow")
    <3>1. Only(c) /\ Rest(c) /\ req'[c].pc = "emit"
      BY <1>1, <2>2, Moves
    <3>2. QED BY <1>2, <3>1 DEF Grounded, Rest
  <2>3. QED BY <1>4, <2>1, <2>2
<1>6. ASSUME NEW p \in TokenIds, NEW row \in TokenRow,
             row.username \in DOMAIN users, row.expires <= now + LongestTtl,
             tokens' = Put(tokens, p, row), UNCHANGED grants
      PROVE  StoreTyped'
  BY <1>0, <1>3, <1>6, TokenWritten
<1>7. ASSUME NEW p, p \in DOMAIN tokens, UNCHANGED grants,
             tokens' = [tokens EXCEPT ![p].revoked = TRUE]
      PROVE  StoreTyped'
  <2> DEFINE row == [tokens[p] EXCEPT !.revoked = TRUE]
  <2>1. /\ p \in TokenIds /\ tokens[p] \in TokenRow
        /\ tokens[p].username \in DOMAIN users
        /\ tokens[p].expires <= now + LongestTtl
    BY <1>0, <1>7 DEF StoreTyped, IsTable
  <2>2. /\ row \in TokenRow /\ row.username = tokens[p].username
        /\ row.expires = tokens[p].expires
    BY <2>1 DEF TokenRow
  <2>3. tokens' = [tokens EXCEPT ![p] = row]
    BY <1>7
  <2> HIDE DEF row
  <2>4. tokens' = Put(tokens, p, row)
    BY <1>0, <1>7, <2>3, PutIsExcept DEF StoreTyped
  <2>5. QED BY <1>6, <1>7, <2>1, <2>2, <2>4
<1>8. ASSUME UNCHANGED << tokens, grants >> PROVE StoreTyped'
  BY <1>0, <1>3, <1>8 DEF StoreTyped
<1>9. StoreTyped'
  <2>1. CASE RevokeToken(c)
    BY <1>7, <1>8, <2>1 DEF RevokeToken
  <2>2. CASE Logout(c)
    <3>1. CASE tokens' = tokens
      BY <1>8, <2>2, <3>1 DEF Logout
    <3>2. CASE tokens' # tokens
      <4>1. tokens' = [tokens EXCEPT ![req[c].bearer.prefix].revoked = TRUE]
        BY <2>2, <3>2 DEF Logout
      <4>2. CASE req[c].bearer.prefix \in DOMAIN tokens
        BY <1>7, <2>2, <4>1, <4>2 DEF Logout
      <4>3. CASE req[c].bearer.prefix \notin DOMAIN tokens
        BY <1>0, <3>2, <4>1, <4>3 DEF StoreTyped, IsTable
      <4>4. QED BY <4>2, <4>3
    <3>3. QED BY <3>1, <3>2
  <2>3. CASE StoreToken(c)
    <3>1. PICK p \in TokenIds :
            tokens' = Put(tokens, p,
                        [username |-> req[c].id.subject, revoked |-> FALSE,
                         expires |-> req[c].until])
      BY <2>3 DEF StoreToken
    <3>2. /\ req[c].id.subject \in DOMAIN users /\ req[c].until \in Int
          /\ req[c].until <= now + LongestTtl
      BY <1>2, <2>3 DEF StoreToken, Grounded
    <3>3. req[c].id.subject \in Users
      BY <1>0, <3>2 DEF StoreTyped, IsTable
    <3>4. [username |-> req[c].id.subject, revoked |-> FALSE,
           expires |-> req[c].until] \in TokenRow
      BY <3>2, <3>3 DEF TokenRow
    <3>5. UNCHANGED grants
      BY <2>3 DEF StoreToken
    <3>6. QED BY <1>6, <3>1, <3>2, <3>4, <3>5
  <2>4. CASE Assign(c) \/ Unassign(c)
    <3>1. UNCHANGED tokens
      BY <2>4 DEF Assign, Unassign
    <3>2. \A g \in grants' : ParseRole(g.role) /\ ValidScope(g.scope)
      BY <1>0, <2>4 DEF Assign, Unassign, StoreTyped
    <3>3. QED BY <1>0, <1>3, <3>1, <3>2 DEF StoreTyped
  <2>5. QED BY <2>1, <2>2, <2>3, <2>4
<1>10. QED BY <1>3, <1>5, <1>9, AccountOfOne

\* No step disturbs the accounts.
LEMMA AccountStep ==
    ASSUME RequestShape, AccountInv, [RouterNext]_rvars
    PROVE  AccountInv'
<1>1. ASSUME NEW c \in Clients,
             ResolveStep(c) \/ HandleStep(c) \/ GatewayStep(c) \/ ReadStep(c)
      PROVE  AccountInv'
  <2>1. CASE Passing(c)
    BY <2>1, PassingPasses, AccountPasses
  <2>2. CASE ~Passing(c)
    BY <1>1, <2>2, AccountReads, AccountWrites, TokenWrites
    DEF Passing, ResolveStep, HandleStep
  <2>3. QED BY <2>1, <2>2
<1>2. ASSUME UNCHANGED << users, tokens, grants, req >>,
             now' = now \/ now' = now + 1
      PROVE  AccountInv'
  <2>0. now \in Nat
    BY ClockTyped
  <2>1. now \in Nat /\ now' \in Nat /\ now <= now'
    BY <1>2, <2>0
  <2>2. \A u \in DOMAIN users : users[u].locked_until \in Int
    BY DEF AccountInv, StoreTyped, IsTable, UserRow
  <2>3. \A p \in DOMAIN tokens : tokens[p].expires \in Int
    BY DEF AccountInv, StoreTyped, IsTable, TokenRow
  <2>4. LockoutSecs \in Nat /\ LongestTtl \in Nat
    BY AccountBounds
  <2>5. \A u \in DOMAIN users : users[u].locked_until <= now' + LockoutSecs
    <3>1. \A u \in DOMAIN users : users[u].locked_until <= now + LockoutSecs
      BY DEF AccountInv, StoreTyped
    <3>2. QED BY <2>1, <2>2, <2>4, <3>1, BoundGrows
  <2>6. \A p \in DOMAIN tokens : tokens[p].expires <= now' + LongestTtl
    <3>1. \A p \in DOMAIN tokens : tokens[p].expires <= now + LongestTtl
      BY DEF AccountInv, StoreTyped
    <3>2. QED BY <2>1, <2>3, <2>4, <3>1, BoundGrows
  <2>7. StoreTyped'
    BY <1>2, <2>1, <2>5, <2>6 DEF AccountInv, StoreTyped
  <2>8. ASSUME NEW c \in Clients
        PROVE  req[c] = NoRequest \/ Grounded(req[c], DOMAIN users, now')
    BY <2>1, GroundedGrows DEF AccountInv
  <2>9. QED BY <1>2, <2>7, <2>8 DEF AccountInv
<1>3. CASE ElseStep
  <2>1. UNCHANGED req
    BY <1>3, ElseStands
  <2>2. UNCHANGED << users, tokens, grants >> /\ (now' = now \/ now' = now + 1)
    BY <1>3 DEF ElseStep, Tick, Rotate, RelayFrame, FrameSent, BridgeBreaks,
       BridgeIdles, BridgeCloses, BridgeFrame, Background, JobProgresses, RefreshList,
       RefreshFetch, RefreshUnreachable, RefreshRecord, RefreshFails,
       RefreshFrame, ReapRows, ReapJobs, ReapOne, ReapFails, ReapFrame,
       UpsertCluster, DeleteCluster, BeginPass, Observe, Warm, RayObserve, DecideOne,
       ApplyRemembers, Create, Terminate, Record, PassFails, LoopFrame, store
  <2>3. QED BY <1>2, <2>1, <2>2
<1>4. CASE UNCHANGED rvars
  BY <1>2, <1>4 DEF rvars, jvars, cvars, store
<1>5. QED BY <1>1, <1>3, <1>4, StepSplit

\* Local accounts, tokens and role assignments stay well formed: for any
\* lockout policy, token lifetimes, users and requests, the failure counter
\* that record_login_failure reads in one statement and writes in another
\* stays below the threshold, no lock outlives the lockout, no token outlives
\* the longest lifetime, and every token belongs to an account.
THEOREM AccountsStayTyped == RouterSpec => []AccessTypeOK
<1>1. RouterInit => AccountInv
  <2>1. SUFFICES ASSUME RouterInit PROVE AccountInv
    OBVIOUS
  <2>2. /\ \E w \in Workloads : users = BootstrapLocalAdmin(w.stored, "pw1")
        /\ tokens = Restrict(FirstTokens,
                    {p \in DOMAIN FirstTokens :
                        FirstTokens[p].username \in DOMAIN users})
        /\ grants = {} /\ now = 0 /\ req = [c \in Clients |-> NoRequest]
    BY <2>1 DEF RouterInit, PlaneInit, AccessInit
  <2>3. PICK w \in Workloads : users = BootstrapLocalAdmin(w.stored, "pw1")
    BY <2>2
  <2>4. /\ IsTable(w.stored, Users, UserRow)
        /\ \A u \in DOMAIN w.stored : w.stored[u].locked_until <= LockoutSecs
    BY AccountAssumption
  <2>13. now = 0
    BY <2>2
  <2>5. IsTable(users, Users, UserRow)
        /\ \A u \in DOMAIN users : users[u].locked_until <= now + LockoutSecs
    <3>1. CASE users = w.stored
      <4>1. now + LockoutSecs = LockoutSecs
        BY <2>13, AccountBounds
      <4>2. QED BY <2>4, <3>1, <4>1
    <3>2. CASE users = Put(EmptyTable, "admin", NewUser("admin", "pw1"))
      <4>1. 0 \in 0 .. Threshold - 1 /\ 0 <= now + LockoutSecs
        BY <2>13, AccountBounds
      <4>2. /\ NewUser("admin", "pw1") \in UserRow
            /\ NewUser("admin", "pw1").locked_until = 0
        <5>1. "pw1" \in Passwords /\ 0 \in Int
          BY AccountAssumption
        <5>2. QED BY <4>1, <5>1 DEF NewUser, UserRow, Roles
      <4>3. /\ DOMAIN users = {"admin"}
            /\ users = [x \in {"admin"} |-> NewUser("admin", "pw1")]
        BY <3>2 DEF Put, EmptyTable
      <4>4. QED BY <4>1, <4>2, <4>3, AccountAssumption DEF IsTable
    <3>3. QED BY <2>3, <3>1, <3>2 DEF BootstrapLocalAdmin
  <2>6. /\ DOMAIN tokens = {p \in DOMAIN FirstTokens :
                                FirstTokens[p].username \in DOMAIN users}
        /\ tokens = [p \in DOMAIN tokens |-> FirstTokens[p]]
    BY <2>2 DEF Restrict
  <2>7. /\ IsTable(FirstTokens, TokenIds, TokenRow)
        /\ \A p \in DOMAIN FirstTokens : FirstTokens[p].expires <= LongestTtl
    BY AccountAssumption
  <2>8. IsTable(tokens, TokenIds, TokenRow)
    BY <2>6, <2>7 DEF IsTable
  <2>9. \A p \in DOMAIN tokens : /\ tokens[p].username \in DOMAIN users
                                /\ tokens[p].expires <= LongestTtl
    BY <2>6, <2>7
  <2>10. now + LongestTtl = LongestTtl
    BY <2>13, AccountBounds
  <2>11. StoreTyped
    BY <2>2, <2>5, <2>8, <2>9, <2>10 DEF StoreTyped
  <2>12. QED BY <2>2, <2>11 DEF AccountInv
<1>2. AuthorityInv /\ AccountInv /\ [RouterNext]_rvars => AccountInv'
  BY AccountStep DEF AuthorityInv
<1>3. AccountInv => AccessTypeOK
  BY DEF AccountInv, StoreTyped, IsTable, UserRow, TokenRow, AccessTypeOK
<1>4. QED BY <1>1, <1>2, <1>3, AuthorityInvariant, PTL DEF RouterSpec
=============================================================================
