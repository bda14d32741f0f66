--------------------------- MODULE AccessControl ----------------------------
(***************************************************************************)
(* A request through the control plane: bearer resolution and route        *)
(* authorization (mobula-api/src/auth_layer.rs), local accounts and tokens *)
(* (mobula-auth/src/local.rs, mobula-api/src/local_auth.rs), the OIDC      *)
(* validator and its key cache (mobula-auth/src/lib.rs), role assignments  *)
(* (mobula-api/src/access.rs) and the audit trail every request ends in    *)
(* (mobula-api/src/audit.rs).                                              *)
(*                                                                         *)
(* Each store call of a handler is a step of its own.                      *)
(***************************************************************************)
EXTENDS Identity, AuditTrail, Tables, Functions

CONSTANTS
    Users, Passwords, TokenIds, Kids,
    Claims,             \* JWT payloads: [sub, username, groups, exp]
    Patterns,           \* [roles]: role -> groups
    ProjectPatterns,    \* [project_roles]: role -> groups
    Routes,             \* the requests clients may send
    Filters,            \* the filters a reader of the trail may use
    Threshold, LockoutSecs,         \* login lockout policy
    LoginTtl, MaxTtl,               \* token lifetimes
    Cooldown,                       \* REFRESH_COOLDOWN
    PageLimit,
    Clients,
    Workloads,          \* accounts at startup and requests: [stored, load, ...]
    FirstTokens

ASSUME CooldownAssumption == Cooldown \in Nat

\* Rows of local_users and api_tokens, and the longest life of a token.
UserRow ==
    [role : Roles, disabled : BOOLEAN, password : Passwords,
     failed : 0 .. Threshold - 1, locked_until : Int]
TokenRow == [username : Users, expires : Int, revoked : BOOLEAN]
LongestTtl == IF MaxTtl > LoginTtl THEN MaxTtl ELSE LoginTtl

\* The requests that write accounts name a user, a role and a password; "keep"
\* is a field an update leaves out.
RouteTyped(route) ==
    /\ "kind" \in DOMAIN route
    /\ route.kind = "create_user" =>
        /\ {"user", "role", "password"} \subseteq DOMAIN route
        /\ route.user \in Users /\ route.role \in Roles
        /\ route.password \in Passwords
    /\ route.kind = "update_user" =>
        /\ {"user", "role", "password"} \subseteq DOMAIN route
        /\ route.role \in Roles \cup {"keep"}
        /\ route.password \in Passwords \cup {"keep"}

\* LOGIN_LOCKOUT_THRESHOLD is positive; the store starts with rows that these
\* same rules wrote.
ASSUME AccountAssumption ==
    /\ Threshold \in Nat \ {0} /\ LockoutSecs \in Nat
    /\ LoginTtl \in Nat /\ MaxTtl \in Nat
    /\ "admin" \in Users /\ "pw1" \in Passwords
    /\ \A w \in Workloads :
        /\ IsTable(w.stored, Users, UserRow)
        /\ \A u \in DOMAIN w.stored : w.stored[u].locked_until <= LockoutSecs
    /\ IsTable(FirstTokens, TokenIds, TokenRow)
    /\ \A p \in DOMAIN FirstTokens : FirstTokens[p].expires <= LongestTtl
    /\ \A route \in Routes : RouteTyped(route)

\* AuditFilter::effective_limit clamps the limit of a page.
ASSUME PageAssumption == PageLimit \in Nat \ {0}

VARIABLES
    users,          \* name -> [role, disabled, password, failed, locked_until]
    tokens,         \* prefix -> [username, expires, revoked]
    grants,         \* role_assignments: set of [principal, role, scope]
    trail,          \* audit_events
    keys, idp,      \* kids the validator knows, and the provider serves
    last_refresh,   \* when the refresh slot was last claimed
    now, req, load,
    walk,           \* a reader paging through the trail
    seen,           \* history: client -> what its bearer stood for so far
    fetches         \* history: when JWKS requests were sent

store == << users, tokens, grants >>
jwks == << keys, idp, last_refresh, fetches >>
cvars == << store, trail, jwks, now, req, load, walk, seen >>

NoBearer == [kind |-> "none"]
Bearers == {NoBearer} \cup [kind : {"pat"}, prefix : TokenIds]
           \cup [kind : {"jwt"}, kid : Kids, claims : Claims]

\* The environment is bounded by what load still allows of each kind.
Kinds == {route.kind : route \in Routes} \cup {b.kind : b \in Bearers}
         \cup {"second", "rotate", "fail", "gone", "frame", "close",
               "progress", "refresh", "reap", "delete", "repost", "pass"}
Spend(kind) == load[kind] > 0 /\ load' = [load EXCEPT ![kind] = @ - 1]

NoRequest == [pc |-> "none"]
Nobody == [subject |-> "none", username |-> "none", roles |-> {},
           project_roles |-> {}]
NoWalk == [filter |-> [subject |-> "any", decision |-> "any", from |-> 0,
                       to |-> 0],
           cursor |-> NoCursor, got |-> {}, served |-> 0, upto |-> 0,
           open |-> FALSE]

NewUser(role, password) ==
    [role |-> role, disabled |-> FALSE, password |-> password, failed |-> 0,
     locked_until |-> 0]

\* Startup makes the first admin where there is no account at all.
BootstrapLocalAdmin(stored, password) ==
    IF stored = EmptyTable
    THEN Put(EmptyTable, "admin", NewUser("admin", password))
    ELSE stored

AccessInit ==
    /\ \E w \in Workloads :
        users = BootstrapLocalAdmin(w.stored, "pw1") /\ load = w.load
    /\ tokens = Restrict(FirstTokens,
                    {p \in DOMAIN FirstTokens :
                        FirstTokens[p].username \in DOMAIN users})
    /\ grants = {}
    /\ trail = << >>
    /\ idp \in {{k} : k \in Kids} /\ keys = idp
    /\ last_refresh = 0 /\ fetches = <<0>>
    /\ now = 0
    /\ req = [c \in Clients |-> NoRequest]
    /\ walk = NoWalk
    /\ seen = [c \in Clients |-> [live |-> FALSE, roles |-> {}]]

-----------------------------------------------------------------------------
At(c, pc) == req[c].pc = pc
Goto(c, pc) == req' = [req EXCEPT ![c].pc = pc]
\* Reads of one cluster resolve its visibility before they authorize.
ScopedReads == {"cluster_jobs", "cluster_metrics", "cluster_nodes",
                "cluster_events", "cluster_logs"}
Known(c, id) ==
    req' = [req EXCEPT ![c].id = id,
                ![c].pc = IF req[c].route.kind \in ScopedReads THEN "scope"
                          ELSE "authorize"]

\* The request ends with an audit row.
Ends(c, decision) ==
    req' = [req EXCEPT ![c].pc = "emit", ![c].decision = decision]
\* The request ends without one (a 4xx of the handler, a 500).
Drops(c) == req' = [req EXCEPT ![c] = NoRequest]

\* require_auth: requests to cluster hosts are never public.
Arrive(c) ==
    /\ At(c, "none")
    /\ \E route \in Routes, b \in Bearers :
        /\ load[route.kind] > 0 /\ load[b.kind] > 0
        /\ load' = [load EXCEPT ![route.kind] = @ - 1, ![b.kind] = @ - 1]
        /\ b.kind = "pat" => b.prefix \in DOMAIN tokens
        /\ IsPublic(route.area) => b = NoBearer
        /\ route.kind = "page" =>
            ~\E d \in Clients : ~At(d, "none") /\ req[d].route.kind = "page"
        /\ req' = [req EXCEPT ![c] =
                    [pc |-> IF ~route.cluster /\ IsPublic(route.area)
                            THEN "public"
                            ELSE IF b = NoBearer THEN "emit" ELSE b.kind,
                     route |-> route, bearer |-> b, id |-> Nobody,
                     user |-> Nobody, until |-> 0, decision |-> "deny",
                     reply |-> "none"]]
    /\ UNCHANGED << store, trail, jwks, now, walk >>

-----------------------------------------------------------------------------
(* Resolving the bearer.                                                   *)

Presents(c) == req[c] # NoRequest /\ req[c].bearer.kind = "pat"
Holder(c) == tokens[req[c].bearer.prefix].username

TokenLive(p) ==
    p \in DOMAIN tokens /\ ~tokens[p].revoked /\ tokens[p].expires > now

\* authenticate_token up to the hash comparison
LookupToken(c) ==
    /\ At(c, "pat")
    /\ IF TokenLive(req[c].bearer.prefix)
       THEN Goto(c, "user") ELSE Ends(c, "deny")
    /\ UNCHANGED << store, trail, jwks, now, load, walk >>

\* Mutant: a disabled account keeps its tokens.
ReadUserDisabled(c) ==
    /\ At(c, "user")
    /\ LET name == Holder(c)
       IN  IF name \in DOMAIN users
           THEN Known(c, IdentityOfUser(name, users[name]))
           ELSE Ends(c, "deny")
    /\ UNCHANGED << store, trail, jwks, now, load, walk >>

\* The role is that of the user row now.
ReadUser(c) ==
    /\ At(c, "user")
    /\ LET name == Holder(c)
       IN  IF name \in DOMAIN users /\ ~users[name].disabled
           THEN Known(c, IdentityOfUser(name, users[name]))
           ELSE Ends(c, "deny")
    /\ UNCHANGED << store, trail, jwks, now, load, walk >>

\* Signature, expiry and subject, once the key is known; exp includes the
\* library's leeway.
Accepted(c) ==
    LET claims == req[c].bearer.claims IN
    IF claims.exp > now /\ claims.sub # ""
    THEN Known(c, IdentityFromClaims(claims, Patterns, ProjectPatterns))
    ELSE Ends(c, "deny")

ValidateJwt(c) ==
    /\ At(c, "jwt")
    /\ IF req[c].bearer.kid \in keys THEN Accepted(c) ELSE Goto(c, "refresh")
    /\ UNCHANGED << store, trail, jwks, now, load, walk >>

\* Mutant: the slot is claimed when the fetch is over.
ClaimRefreshLate(c) ==
    /\ At(c, "refresh")
    /\ IF now - last_refresh < Cooldown
       THEN Goto(c, "retry") /\ UNCHANGED << last_refresh, fetches >>
       ELSE /\ Goto(c, "fetch")
            /\ fetches' = Append(fetches, now) /\ UNCHANGED last_refresh
    /\ UNCHANGED << store, trail, keys, idp, now, load, walk >>

\* The slot is claimed by time alone, before the fetch.
ClaimRefresh(c) ==
    /\ At(c, "refresh")
    /\ IF now - last_refresh < Cooldown
       THEN Goto(c, "retry") /\ UNCHANGED << last_refresh, fetches >>
       ELSE /\ Goto(c, "fetch")
            /\ last_refresh' = now /\ fetches' = Append(fetches, now)
    /\ UNCHANGED << store, trail, keys, idp, now, load, walk >>

FetchJwks(c) ==
    /\ At(c, "fetch")
    /\ keys' = idp
    /\ Goto(c, "retry")
    /\ UNCHANGED << store, trail, idp, last_refresh, fetches, now, load, walk >>

FetchFails(c) ==
    /\ At(c, "fetch") /\ Spend("fail")
    /\ Ends(c, "deny")
    /\ UNCHANGED << store, trail, jwks, now, walk >>

RetryKey(c) ==
    /\ At(c, "retry")
    /\ IF req[c].bearer.kid \in keys THEN Accepted(c) ELSE Ends(c, "deny")
    /\ UNCHANGED << store, trail, jwks, now, load, walk >>

-----------------------------------------------------------------------------
(* Authorization.  A route is [kind, area, method, cluster, verb, target,  *)
(* project, ...]; verb "own" marks the self-guarding token routes, project *)
(* "none" an unscoped check.                                               *)

Allowed(id, route, stored) ==
    CASE route.cluster ->
            Permits(id, RequiredPermission(route.method), "job")
      [] route.kind = "ext_authz" ->
            Permits(id, RequiredPermission(route.method),
                    TargetForArea(route.area))
      [] route.verb = "own" -> TRUE
      [] route.project = "none" -> Permits(id, route.verb, route.target)
      [] OTHER -> PermitsScoped(id, route.verb, route.target,
                                EffectiveAssignments(id, stored),
                                route.project)

Authorize(c) ==
    /\ At(c, "authorize")
    /\ IF Allowed(req[c].id, req[c].route, grants) THEN Goto(c, "act")
       ELSE Ends(c, "deny")
    /\ UNCHANGED << store, trail, jwks, now, load, walk >>

\* Assignments that cannot be read count as none.
AuthorizeBlind(c) ==
    /\ At(c, "authorize") /\ Spend("fail")
    /\ IF Allowed(req[c].id, req[c].route, {}) THEN Goto(c, "act")
       ELSE Ends(c, "deny")
    /\ UNCHANGED << store, trail, jwks, now, walk >>

-----------------------------------------------------------------------------
(* Handlers.                                                               *)

Acts(c, kind) == At(c, "act") /\ req[c].route.kind = kind

\* Routes whose effect is modelled elsewhere, and the ext_authz check.
Serve(c) ==
    /\ Acts(c, "work") \/ Acts(c, "ext_authz")
    /\ Ends(c, "allow")
    /\ UNCHANGED << store, trail, jwks, now, load, walk >>

Assign(c) ==
    /\ Acts(c, "assign")
    /\ LET r == req[c].route IN
       IF ParseRole(r.grant.role) /\ ValidScope(r.grant.scope)
       THEN grants' = grants \cup {r.grant} /\ Ends(c, "allow")
       ELSE Drops(c) /\ UNCHANGED grants
    /\ UNCHANGED << users, tokens, trail, jwks, now, load, walk >>

Unassign(c) ==
    /\ Acts(c, "unassign")
    /\ grants' = grants \ {req[c].route.grant}
    /\ IF req[c].route.grant \in grants THEN Ends(c, "allow") ELSE Drops(c)
    /\ UNCHANGED << users, tokens, trail, jwks, now, load, walk >>

CreateUserLookup(c) ==
    /\ Acts(c, "create_user")
    /\ IF req[c].route.user \in DOMAIN users THEN Drops(c)
       ELSE Goto(c, "insert")
    /\ UNCHANGED << store, trail, jwks, now, load, walk >>

\* Hashing lies between; a name taken meanwhile answers 500.
CreateUserInsert(c) ==
    /\ At(c, "insert")
    /\ LET r == req[c].route IN
       IF r.user \in DOMAIN users THEN Drops(c) /\ UNCHANGED users
       ELSE /\ users' = Put(users, r.user, NewUser(r.role, r.password))
            /\ Ends(c, "allow")
    /\ UNCHANGED << tokens, grants, trail, jwks, now, load, walk >>

\* update_user writes role, disabled flag and password in turn.
UpdateUserLookup(c) ==
    /\ Acts(c, "update_user")
    /\ IF req[c].route.user \in DOMAIN users THEN Goto(c, "role") ELSE Drops(c)
    /\ UNCHANGED << store, trail, jwks, now, load, walk >>

UpdateField(c, pc, next, field, value) ==
    /\ At(c, pc)
    /\ users' = IF value = "keep" THEN users
                ELSE [users EXCEPT ![req[c].route.user] =
                        [@ EXCEPT ![field] = value]]
    /\ IF next = "emit" THEN Ends(c, "allow") ELSE Goto(c, next)
    /\ UNCHANGED << tokens, grants, trail, jwks, now, load, walk >>

UpdateRole(c) == UpdateField(c, "role", "disabled", "role", req[c].route.role)
UpdateDisabled(c) ==
    /\ At(c, "disabled")
    /\ users' = IF req[c].route.disabled = "keep" THEN users
                ELSE [users EXCEPT ![req[c].route.user].disabled =
                        (req[c].route.disabled = "yes")]
    /\ Goto(c, "password")
    /\ UNCHANGED << tokens, grants, trail, jwks, now, load, walk >>
UpdatePassword(c) ==
    UpdateField(c, "password", "emit", "password", req[c].route.password)

UpdateFails(c) ==
    /\ At(c, "role") \/ At(c, "disabled") \/ At(c, "password")
    /\ Spend("fail") /\ Drops(c)
    /\ UNCHANGED << store, trail, jwks, now, walk >>

RevokeToken(c) ==
    /\ Acts(c, "revoke")
    /\ LET p == req[c].route.prefix IN
       IF p \in DOMAIN tokens /\ tokens[p].username = req[c].id.subject
       THEN tokens' = [tokens EXCEPT ![p].revoked = TRUE] /\ Ends(c, "allow")
       ELSE Drops(c) /\ UNCHANGED tokens
    /\ UNCHANGED << users, grants, trail, jwks, now, load, walk >>

Logout(c) ==
    /\ Acts(c, "logout")
    /\ tokens' = IF Presents(c) /\ Holder(c) = req[c].id.subject
                 THEN [tokens EXCEPT ![req[c].bearer.prefix].revoked = TRUE]
                 ELSE tokens
    /\ Ends(c, "allow")
    /\ UNCHANGED << users, grants, trail, jwks, now, load, walk >>

\* issue_token: lifetime and account are checked, the token is stored later.
IssueToken(c) ==
    /\ Acts(c, "create_token")
    /\ LET name == req[c].id.subject IN
       IF /\ req[c].route.ttl \in 1 .. MaxTtl
          /\ name \in DOMAIN users /\ ~users[name].disabled
       THEN req' = [req EXCEPT ![c].pc = "mint",
                               ![c].until = now + req[c].route.ttl]
       ELSE Drops(c)
    /\ UNCHANGED << store, trail, jwks, now, load, walk >>

\* store_token, for a login and for a personal token.
StoreToken(c) ==
    /\ At(c, "mint")
    /\ \E p \in TokenIds \ DOMAIN tokens :
        tokens' = Put(tokens, p,
                    [username |-> req[c].id.subject, revoked |-> FALSE,
                     expires |-> req[c].until])
    /\ Ends(c, "allow")
    /\ UNCHANGED << users, grants, trail, jwks, now, load, walk >>

-----------------------------------------------------------------------------
(* Login: disabled, locked, password, in that order.                       *)

LoginLookup(c) ==
    /\ At(c, "public")
    /\ LET name == req[c].route.user IN
       IF name \in DOMAIN users /\ ~users[name].disabled
          /\ users[name].locked_until <= now
       THEN req' = [req EXCEPT
                ![c].pc = IF req[c].route.password = users[name].password
                          THEN "success" ELSE "failure",
                ![c].user = users[name], ![c].until = now + LoginTtl]
       ELSE Ends(c, "deny")
    /\ UNCHANGED << store, trail, jwks, now, load, walk >>

\* record_login_failure reads the row again and the clock, then writes the
\* counters.
ReadFailures(c) ==
    /\ At(c, "failure")
    /\ req' = [req EXCEPT ![c].pc = "count", ![c].until = now,
                          ![c].user = users[req[c].route.user]]
    /\ UNCHANGED << store, trail, jwks, now, load, walk >>

SetLoginLockout(name, failed, until) ==
    users' = [users EXCEPT ![name].failed = failed,
                           ![name].locked_until = until]

CountFailure(c) ==
    /\ At(c, "count")
    /\ LET next == NextLoginFailureState(req[c].user.failed, req[c].until,
                                         Threshold, LockoutSecs)
       IN  SetLoginLockout(req[c].route.user, next.failed, next.locked_until)
    /\ Ends(c, "deny")
    /\ UNCHANGED << tokens, grants, trail, jwks, now, load, walk >>

ClearFailures(c) ==
    /\ At(c, "success")
    /\ SetLoginLockout(req[c].route.user, 0, 0)
    /\ req' = [req EXCEPT ![c].pc = "mint",
                          ![c].id = IdentityOfUser(req[c].route.user,
                                                   req[c].user)]
    /\ UNCHANGED << tokens, grants, trail, jwks, now, load, walk >>

\* A store error on the way: a login is denied and says so in the trail, a
\* personal token is not made.
CredentialFails(c) ==
    /\ \E pc \in {"public", "failure", "count", "success", "mint"} : At(c, pc)
    /\ Spend("fail")
    /\ IF req[c].route.kind = "login" THEN Ends(c, "deny") ELSE Drops(c)
    /\ UNCHANGED << store, trail, jwks, now, walk >>

-----------------------------------------------------------------------------
(* The trail.                                                              *)

\* One page of GET /audit; a reader goes on from the cursor it was given.
ReadPage(c) ==
    /\ Acts(c, "page")
    /\ \E f \in IF walk.open THEN {walk.filter} ELSE Filters :
        LET cursor == IF walk.open THEN walk.cursor ELSE NoCursor
            page == ListAudit(trail, f, cursor, PageLimit)
        IN  walk' = [filter |-> f, cursor |-> page.next,
                     got |-> IF walk.open THEN walk.got \cup page.rows
                             ELSE page.rows,
                     served |-> Cardinality(page.rows)
                                + (IF walk.open THEN walk.served ELSE 0),
                     upto |-> IF walk.open THEN walk.upto ELSE Len(trail),
                     open |-> page.next # NoCursor]
    /\ Ends(c, "allow")
    /\ UNCHANGED << store, trail, jwks, now, load >>

\* GET /audit/verify changes nothing but the trail it then appends to.
VerifyTrail(c) ==
    /\ Acts(c, "verify")
    /\ Ends(c, "allow")
    /\ UNCHANGED << store, trail, jwks, now, load, walk >>

Event(c, decision) ==
    [subject |-> IF req[c].route.kind = "login" THEN req[c].route.user
                 ELSE req[c].id.subject,
     ts |-> now, decision |-> decision, action |-> req[c].route.kind]

Emit(c) ==
    /\ At(c, "emit")
    /\ trail' = RecordAudit(trail, Event(c, req[c].decision))
    /\ Drops(c)
    /\ UNCHANGED << store, jwks, now, load, walk >>

\* An event that cannot be stored never fails its request.
EmitFails(c) ==
    /\ At(c, "emit") /\ Spend("fail") /\ Drops(c)
    /\ UNCHANGED << store, trail, jwks, now, walk >>

-----------------------------------------------------------------------------
Tick ==
    /\ Spend("second") /\ now' = now + 1
    /\ UNCHANGED << store, trail, jwks, req, walk >>

Rotate ==
    /\ Spend("rotate") /\ \E k \in Kids \ idp : idp' = {k}
    /\ UNCHANGED << store, trail, keys, last_refresh, fetches, now, req, walk >>

RequestStep(c) ==
    \/ Arrive(c)
    \/ LookupToken(c) \/ ReadUser(c)
    \/ ValidateJwt(c) \/ ClaimRefresh(c) \/ FetchJwks(c) \/ FetchFails(c)
    \/ RetryKey(c)
    \/ Authorize(c) \/ AuthorizeBlind(c)
    \/ Serve(c) \/ Assign(c) \/ Unassign(c)
    \/ CreateUserLookup(c) \/ CreateUserInsert(c)
    \/ UpdateUserLookup(c) \/ UpdateRole(c) \/ UpdateDisabled(c)
    \/ UpdatePassword(c) \/ UpdateFails(c)
    \/ RevokeToken(c) \/ Logout(c) \/ IssueToken(c) \/ StoreToken(c)
    \/ LoginLookup(c) \/ ReadFailures(c)
    \/ CountFailure(c) \/ ClearFailures(c) \/ CredentialFails(c)
    \/ ReadPage(c) \/ VerifyTrail(c) \/ Emit(c) \/ EmitFails(c)

\* What a client's token stands for at this moment.
LiveNow(c) == Presents(c) /\ TokenLive(req[c].bearer.prefix)
RolesNow(c) ==
    IF Presents(c) /\ Holder(c) \in DOMAIN users /\ ~users[Holder(c)].disabled
    THEN {users[Holder(c)].role} ELSE {}

Witness ==
    seen' = [c \in Clients |->
        IF req'[c] = NoRequest THEN [live |-> FALSE, roles |-> {}]
        ELSE [live |-> seen[c].live \/ LiveNow(c)',
              roles |-> seen[c].roles \cup RolesNow(c)']]

AccessNext ==
    /\ (\E c \in Clients : RequestStep(c)) \/ Tick \/ Rotate
    /\ Witness

AccessSpec == AccessInit /\ [][AccessNext]_cvars

-----------------------------------------------------------------------------
(* Properties.                                                             *)

\* Type invariant: rows keep their shape; the failure counter of an account
\* stays below the lockout threshold, however failures interleave, and a lock
\* never lasts longer than the lockout from now.
AccessTypeOK ==
    /\ DOMAIN users \subseteq Users /\ DOMAIN tokens \subseteq TokenIds
    /\ \A u \in DOMAIN users :
        /\ users[u].role \in Roles /\ users[u].disabled \in BOOLEAN
        /\ users[u].password \in Passwords
        /\ users[u].failed \in 0 .. Threshold - 1
        /\ users[u].locked_until <= now + LockoutSecs
    /\ \A p \in DOMAIN tokens :
        tokens[p].username \in DOMAIN users
        /\ tokens[p].expires <= now + LongestTtl
    /\ \A g \in grants : ParseRole(g.role) /\ ValidScope(g.scope)

\* authenticate_token resolves bearer and role per request: a request acts only
\* if, since it arrived, its token was at some moment neither revoked nor
\* expired and its account enabled with the very role it acts under.  Whoever
\* was disabled, demoted or logged out before never acts on the old authority.
AuthorityIsCurrent ==
    \A c \in Clients :
        Presents(c) /\ req[c].id # Nobody =>
            seen[c].live /\ req[c].id.roles \subseteq seen[c].roles

\* What a reader that follows the cursors has met.
WalkExact ==
    /\ LET all == {i \in 1 .. walk.upto : Matches(walk.filter, trail[i].event)}
       IN  walk.got = {i \in all : walk.open => i >= walk.cursor}
    /\ walk.served = Cardinality(walk.got)

\* A window that verify_audit_trail replays.
Replays(from, limit) ==
    LET w == AuditChain(trail, from, limit) IN FirstBroken(w.head, w.rows) = 0

\* Reading the trail: every window verify_audit_trail may replay checks out,
\* and a reader that follows the cursors has met the matching rows that existed
\* at its first page from the newest down to its cursor, at the end all of
\* them, and each once, whatever was appended meanwhile, its own audit_read
\* rows included.
AuditReadsFaithful ==
    /\ \A from \in 1 .. Len(trail) + 1, limit \in 1 .. 2 : Replays(from, limit)
    /\ WalkExact

\* refresh_jwks: whatever tokens with unknown key ids arrive together, and
\* whether fetches fail, two JWKS requests are a cooldown apart.
JwksRefreshSpaced ==
    \A i \in 1 .. Len(fetches) - 1 : fetches[i + 1] - fetches[i] >= Cooldown

-----------------------------------------------------------------------------
(* What makes them inductive.                                              *)

Fields == {"pc", "route", "bearer", "id", "user", "until", "decision", "reply"}

\* A request in flight has all its fields; what it presented follows from how
\* far its bearer is resolved.
Shaped(r) ==
    /\ DOMAIN r = Fields /\ r.pc # "none"
    /\ r.pc \in {"pat", "user"} => r.bearer.kind = "pat"
    /\ r.pc \in {"jwt", "refresh", "fetch", "retry"} => r.bearer.kind = "jwt"
    /\ r.pc \in {"public", "failure", "count", "success"} =>
          r.bearer.kind = "none"

RequestShape ==
    /\ DOMAIN req = Clients
    /\ \A c \in Clients : req[c] = NoRequest \/ Shaped(req[c])

\* The history has what a token stands for now; a token that was looked up was
\* live.
SeenSoFar ==
    \A c \in Clients : req[c] # NoRequest =>
        /\ LiveNow(c) => seen[c].live
        /\ RolesNow(c) \subseteq seen[c].roles
        /\ req[c].pc = "user" => seen[c].live

AuthorityInv == RequestShape /\ SeenSoFar /\ AuthorityIsCurrent

\* The refresh slot is the time of the last fetch.
SlotIsLastFetch ==
    /\ now \in Nat /\ last_refresh \in 0 .. now
    /\ fetches \in Seq(Nat) /\ fetches # << >>
    /\ fetches[Len(fetches)] = last_refresh

\* Every row of the trail replays from the one before; a reader's cursor is
\* among the rows of its first page's time.
TrailInv ==
    /\ trail \in Seq({trail[i] : i \in DOMAIN trail})
    /\ \A i \in DOMAIN trail : Chained(trail, i)
    /\ walk.upto \in 0 .. Len(trail)
    /\ walk.open => walk.cursor \in 1 .. walk.upto
    /\ WalkExact

\* Rows are whole; a request that is about to write an account or a token names
\* one that exists and values the row may have.
StoreTyped ==
    /\ now \in Nat
    /\ IsTable(users, Users, UserRow)
    /\ \A u \in DOMAIN users : users[u].locked_until <= now + LockoutSecs
    /\ IsTable(tokens, TokenIds, TokenRow)
    /\ \A p \in DOMAIN tokens : /\ tokens[p].username \in DOMAIN users
                                /\ tokens[p].expires <= now + LongestTtl
    /\ \A g \in grants : ParseRole(g.role) /\ ValidScope(g.scope)

Grounded(r, names, at) ==
    /\ RouteTyped(r.route)
    /\ r.pc = "insert" => r.route.kind = "create_user"
    /\ r.pc \in {"role", "disabled", "password"} =>
          r.route.kind = "update_user" /\ r.route.user \in names
    /\ r.pc \in {"failure", "count", "success"} => r.route.user \in names
    /\ r.pc = "count" =>
          r.user.failed \in 0 .. Threshold - 1 /\ r.until \in 0 .. at
    /\ r.pc = "mint" => r.id.subject \in names
    /\ r.pc \in {"success", "mint"} =>
          r.until \in Int /\ r.until <= at + LongestTtl

AccountInv ==
    /\ StoreTyped
    /\ \A c \in Clients :
        req[c] = NoRequest \/ Grounded(req[c], DOMAIN users, now)
=============================================================================
