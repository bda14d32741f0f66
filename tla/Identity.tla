------------------------------ MODULE Identity ------------------------------
(***************************************************************************)
(* Roles, permissions and identities (mobula-auth/src/lib.rs), the mapping *)
(* of requests to permissions (mobula-api/src/auth_layer.rs) and the       *)
(* lockout rule of local accounts (mobula-controller/src/store.rs).  Pure  *)
(* operators only.                                                         *)
(*                                                                         *)
(* A scope is "*" or the name of a project, for "project:<name>".          *)
(***************************************************************************)
EXTENDS Integers

CONSTANTS
    BadScopes,          \* the scopes valid_scope refuses
    ProjectOf           \* group -> project: the name after strip_prefix

Roles == {"viewer", "developer", "operator", "admin", "auditor"}
Verbs == {"read", "write", "delete", "admin"}
Targets == {"job", "cluster", "service", "pool", "audit"}

\* Role::grants
Grants(role, verb, target) ==
    \/ role = "admin"
    \/ role = "viewer" /\ target # "audit" /\ verb = "read"
    \/ role = "auditor" /\ target = "audit" /\ verb = "read"
    \/ /\ role = "developer"
       /\ \/ target \in {"job", "service"} /\ verb \in {"read", "write", "delete"}
          \/ target \in {"cluster", "pool"} /\ verb = "read"
    \/ /\ role = "operator"
       /\ \/ target = "cluster" /\ verb \in {"read", "write", "delete"}
          \/ target \in {"job", "service", "pool"} /\ verb = "read"

\* Every role parses from its own name; nothing else does.
ParseRole(name) == name \in Roles

GlobalScope == "*"
ValidScope(scope) == scope \notin BadScopes
ScopeCovers(scope, project) == scope = GlobalScope \/ scope = project

\* An identity is [subject, username, roles, project_roles]; username is
\* "none" where the token carries none.
Owner(id) == IF id.username = "none" THEN id.subject ELSE id.username

Permits(id, verb, target) == \E r \in id.roles : Grants(r, verb, target)

\* assignments: pairs of a role and a scope.
PermitsScoped(id, verb, target, assignments, project) ==
    \/ Permits(id, verb, target)
    \/ \E a \in assignments :
        ScopeCovers(a[2], project) /\ Grants(a[1], verb, target)

\* Patterns map each role to groups; "*" matches any caller.
ResolveRoles(patterns, groups) ==
    {r \in Roles : "*" \in patterns[r] \/ patterns[r] \cap groups # {}}

\* Every matching group grants the role on its own project.
ResolveProjectRoles(patterns, groups) ==
    {<<rg[1], ProjectOf[rg[2]]>> : rg \in
        {x \in Roles \X groups :
            /\ "*" \in patterns[x[1]] \/ x[2] \in patterns[x[1]]
            /\ ValidScope(ProjectOf[x[2]])}}

IdentityOfUser(name, user) ==
    [subject |-> name, username |-> name, roles |-> {user.role},
     project_roles |-> {}]

IdentityFromClaims(claims, patterns, projectPatterns) ==
    [subject |-> claims.sub, username |-> claims.username,
     roles |-> ResolveRoles(patterns, claims.groups),
     project_roles |->
        ResolveProjectRoles(projectPatterns, claims.groups)]

\* Stored assignments match the subject or the username.
EffectiveAssignments(id, stored) ==
    id.project_roles
    \cup {<<a.role, a.scope>> :
            a \in {b \in stored : b.principal \in {id.subject, id.username}}}

-----------------------------------------------------------------------------
(* Requests.  The area of a path is its prefix up to a segment boundary.   *)

IsPublic(area) ==
    area \in {"healthz", "version", "openapi", "docs", "login", "providers"}

RequiredPermission(method) ==
    IF method \in {"GET", "HEAD", "OPTIONS"} THEN "read" ELSE "write"

TargetForArea(area) ==
    CASE area \in {"clusters", "registry", "settings"} -> "cluster"
      [] area = "services" -> "service"
      [] area = "pools"    -> "pool"
      [] area = "audit"    -> "audit"
      [] OTHER             -> "job"

-----------------------------------------------------------------------------
(* Lockout: the failure that reaches the threshold locks and restarts the  *)
(* count.                                                                  *)

\* Mutant: the count is not restarted when the account locks.
NextLoginFailureStateKeeps(failed, now, threshold, lockout) ==
    IF failed + 1 >= threshold
    THEN [failed |-> failed + 1, locked_until |-> now + lockout]
    ELSE [failed |-> failed + 1, locked_until |-> 0]

NextLoginFailureState(failed, now, threshold, lockout) ==
    IF failed + 1 >= threshold
    THEN [failed |-> 0, locked_until |-> now + lockout]
    ELSE [failed |-> failed + 1, locked_until |-> 0]
=============================================================================
