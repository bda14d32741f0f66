------------------------------ MODULE JobPlane ------------------------------
(***************************************************************************)
(* What an authorized request reaches beyond the control plane: the        *)
(* gateway to registered clusters (mobula-api/src/gateway.rs) with its     *)
(* permits and websocket bridges, the routing table (mobula-core/src/      *)
(* registry.rs), reads of one cluster (mobula-api/src/cluster_obs.rs), the *)
(* job history and its refresher (mobula-api/src/job_history.rs), and the  *)
(* reaper of idle clusters that reads it (mobula-controller/src/           *)
(* reconcile.rs).                                                          *)
(*                                                                         *)
(* Composed with AccessControl: a request that was authorized goes on here.*)
(***************************************************************************)
EXTENDS AccessControl, FiniteSets, FiniteSetsExt

CONSTANTS
    Registries,     \* routing tables the server may be started with
    AllowInsecure,
    Folded,         \* host or id -> the same in lower case, without a port
    FirstFleet,     \* id -> cluster row at startup
    Specs,          \* specs posted later: [project, engine, ttl, idle]
    JobIds,
    Streams,        \* names for open bridges
    MaxInflight, ObsInflight, BridgeIdle

\* Streams has a name for every bridge that a permit can be out for.
ASSUME PermitAssumption ==
    /\ MaxInflight \in Nat /\ ObsInflight \in Nat
    /\ IsFiniteSet(Clients) /\ IsFiniteSet(Streams)
    /\ Cardinality(Streams) >= MaxInflight

\* Rows have an age, and idle timeouts, 0 included, are natural numbers.
ASSUME FleetAssumption ==
    \A k \in DOMAIN FirstFleet :
        /\ {"desired", "observed", "created_at", "idle"}
              \subseteq DOMAIN FirstFleet[k]
        /\ FirstFleet[k].created_at \in Nat
        /\ FirstFleet[k].idle \in Nat \cup {-1}
        /\ \A s \in Specs : s.idle \in Nat \cup {-1}

VARIABLES
    registry,       \* sequence of endpoints
    fleet,          \* cluster rows: the columns the reaper and reads use
    heads,          \* jobs as the Ray heads have them
    jobs,           \* job records of the store
    inflight,       \* permits left in the gateway's semaphore
    obs_inflight,   \* and in that of the cluster reads
    bridges,        \* stream -> open websocket bridge
    refresh,        \* where the refresher is
    reaper          \* where reap_expired is

plane == << registry, fleet, heads, jobs, inflight, obs_inflight, bridges,
            refresh, reaper >>
jvars == << cvars, plane >>

NoTime == -1
Closed == [pc |-> "closed"]
Waiting == [pc |-> "idle"]

-----------------------------------------------------------------------------
(* The routing table.  An endpoint is [id, hostname, scheme, authority,    *)
(* token]; its authority is "name", "ip", "denied_ip", "userinfo" or "".   *)

\* The first match; "none" where there is none.
ByHostname(table, host) ==
    LET found == SelectSeq(table, LAMBDA e : Folded[e.hostname] = Folded[host])
    IN  IF found = << >> THEN "none" ELSE Head(found).id

\* Ids are compared as they are.
ById(table, id) == \E i \in DOMAIN table : table[i].id = id

ValidEndpoint(e) ==
    /\ e.hostname # ""
    /\ e.scheme \in {"http", "https"}
    /\ e.authority \in {"name", "ip"}
    /\ e.token /\ e.scheme = "http" => AllowInsecure

ValidRegistry(table) ==
    /\ \A i \in DOMAIN table : ValidEndpoint(table[i])
    /\ \A i, j \in DOMAIN table : i # j =>
        /\ Folded[table[i].id] # Folded[table[j].id]
        /\ Folded[table[i].hostname] # Folded[table[j].hostname]

\* The server refuses to start on a table that is not valid.
PlaneInit ==
    /\ AccessInit
    /\ registry \in {r \in Registries : ValidRegistry(r)}
    /\ fleet = FirstFleet /\ heads = EmptyTable /\ jobs = EmptyTable
    /\ inflight = MaxInflight /\ obs_inflight = ObsInflight
    /\ bridges = [b \in Streams |-> Closed]
    /\ refresh = Waiting /\ reaper = Waiting

-----------------------------------------------------------------------------
(* The gateway.  It holds a permit for a request from dispatch to answer,  *)
(* and for a bridge as long as it is open.                                 *)

Background == UNCHANGED << registry, fleet, obs_inflight, refresh, reaper >>

\* The answer, or the handler's future dropped: the permit comes back.
Answer(c) == Drops(c) /\ inflight' = inflight + 1

HostGateway(c) ==
    /\ At(c, "act") /\ req[c].route.cluster
    /\ IF inflight = 0 THEN Drops(c) /\ UNCHANGED inflight
       ELSE /\ inflight' = inflight - 1
            /\ Goto(c, IF req[c].route.kind = "stream" THEN "connect"
                       ELSE "forward")
    /\ UNCHANGED << store, trail, jwks, now, load, walk, heads, jobs, bridges >>
    /\ Background

\* proxy: the cluster answers; a submission may have started a job.
Forward(c) ==
    /\ At(c, "forward")
    /\ \/ /\ req[c].route.kind = "submit"
          /\ \E j \in JobIds \ DOMAIN heads :
                /\ heads' = Put(heads, j,
                        [cluster |-> ByHostname(registry, req[c].route.host),
                         status |-> "PENDING", start |-> NoTime, end |-> NoTime])
                /\ req' = [req EXCEPT ![c].pc = "proxied", ![c].reply = j]
       \/ /\ req[c].route.kind = "proxy"
          /\ Goto(c, "proxied") /\ UNCHANGED heads
    /\ UNCHANGED << store, trail, jwks, now, load, walk, jobs, inflight,
                    bridges >>
    /\ Background

\* The cluster answers a submission with an error of its own.
ForwardRefused(c) ==
    /\ At(c, "forward") /\ req[c].route.kind = "submit" /\ Spend("fail")
    /\ Goto(c, "proxied")
    /\ UNCHANGED << store, trail, jwks, now, walk, heads, jobs, inflight,
                    bridges >>
    /\ Background

\* proxy_upgrade connects southbound before it accepts the upgrade.
Connect(c) ==
    /\ At(c, "connect")
    /\ Goto(c, "proxied")
    /\ UNCHANGED << store, trail, jwks, now, load, walk, heads, jobs, inflight,
                    bridges >>
    /\ Background

\* Mutant: a failed connect keeps its permit.
UpstreamFailsLeaks(c) ==
    /\ At(c, "forward") \/ At(c, "connect")
    /\ Spend("fail") /\ Drops(c)
    /\ UNCHANGED << store, trail, jwks, now, walk, heads, jobs, inflight,
                    bridges >>
    /\ Background

\* An unreachable cluster or a timeout: 502 or 504, and no audit row.
UpstreamFails(c) ==
    /\ At(c, "forward") \/ At(c, "connect")
    /\ Spend("fail") /\ Answer(c)
    /\ UNCHANGED << store, trail, jwks, now, walk, heads, jobs, bridges >>
    /\ Background

\* The client hangs up and the handler is dropped where it waits.
ClientGone(c) ==
    /\ \E pc \in {"forward", "connect", "proxied", "record"} : At(c, pc)
    /\ Spend("gone") /\ Answer(c)
    /\ UNCHANGED << store, trail, jwks, now, walk, heads, jobs, bridges >>
    /\ Background

\* The permit moves into the bridge; the request is answered.
OpenBridge(c) ==
    /\ LET b == CHOOSE s \in Streams : bridges[s] = Closed
       IN  bridges' = [bridges EXCEPT ![b] =
                        [pc |-> "relay", deadline |-> now + BridgeIdle]]
    /\ Drops(c) /\ UNCHANGED inflight

AfterAudit(c) ==
    CASE req[c].route.kind = "stream" -> OpenBridge(c)
      [] req[c].reply # "none" -> Goto(c, "record")
                                  /\ UNCHANGED << inflight, bridges >>
      [] OTHER -> Answer(c) /\ UNCHANGED bridges

EmitProxied(c) ==
    /\ At(c, "proxied")
    /\ trail' = RecordAudit(trail, Event(c, "allow"))
    /\ AfterAudit(c)
    /\ UNCHANGED << store, jwks, now, load, walk, heads, jobs >> /\ Background

EmitProxiedFails(c) ==
    /\ At(c, "proxied") /\ Spend("fail")
    /\ AfterAudit(c)
    /\ UNCHANGED << store, trail, jwks, now, walk, heads, jobs >> /\ Background

\* record_submission, while the permit is still held.
RecordSubmission(c) ==
    /\ At(c, "record")
    /\ jobs' = Put(jobs, req[c].reply,
                   [cluster |-> ByHostname(registry, req[c].route.host),
                    submitter |-> req[c].id.subject, status |-> "PENDING",
                    duration |-> NoTime, submitted_at |-> now])
    /\ Answer(c)
    /\ UNCHANGED << store, trail, jwks, now, load, walk, heads, bridges >>
    /\ Background

\* Best effort: a reply without an id or a store error is only logged.
RecordSubmissionFails(c) ==
    /\ At(c, "record") /\ Spend("fail") /\ Answer(c)
    /\ UNCHANGED << store, trail, jwks, now, walk, heads, jobs, bridges >>
    /\ Background

BridgeFrame == UNCHANGED << store, trail, jwks, now, req, walk, heads, jobs >>
               /\ Background

\* A frame arrives: it is sent on before the idle timer is asked again.
RelayFrame(b) ==
    /\ bridges[b].pc = "relay" /\ Spend("frame")
    /\ bridges' = [bridges EXCEPT ![b].pc = "send"]
    /\ UNCHANGED inflight /\ BridgeFrame

FrameSent(b) ==
    /\ bridges[b].pc = "send"
    /\ bridges' = [bridges EXCEPT ![b] = [pc |-> "relay",
                                          deadline |-> now + BridgeIdle]]
    /\ UNCHANGED << inflight, load >> /\ BridgeFrame

\* Either peer closes, breaks the protocol or cannot be sent to ...
BridgeBreaks(b) ==
    /\ bridges[b].pc \in {"relay", "send"} /\ Spend("close")
    /\ bridges' = [bridges EXCEPT ![b].pc = "closing"]
    /\ UNCHANGED inflight /\ BridgeFrame

\* ... or nothing came for too long ...
BridgeIdles(b) ==
    /\ bridges[b].pc = "relay" /\ now >= bridges[b].deadline
    /\ bridges' = [bridges EXCEPT ![b].pc = "closing"]
    /\ UNCHANGED << inflight, load >> /\ BridgeFrame

\* ... and the permit comes back once both sides are closed.
BridgeCloses(b) ==
    /\ bridges[b].pc = "closing"
    /\ bridges' = [bridges EXCEPT ![b] = Closed]
    /\ inflight' = inflight + 1 /\ UNCHANGED load /\ BridgeFrame

-----------------------------------------------------------------------------
(* Reads of one cluster: who may see it, and its dashboard.  Where a read  *)
(* goes after it was authorized is the subject of EngineRouter.            *)

ReadFrame == UNCHANGED << store, trail, jwks, now, walk, registry, fleet, heads,
                          jobs, inflight, bridges, refresh, reaper >>

\* read_scope: the projects a caller is narrowed to, {} for no narrowing.
ReadScope(id, stored) ==
    IF "admin" \in id.roles THEN {}
    ELSE {a[2] : a \in EffectiveAssignments(id, stored)} \ {GlobalScope}

ScopeForRead(c, stored) ==
    LET k == req[c].route.id
        narrowed == ReadScope(req[c].id, stored)
    IN  IF k \in DOMAIN fleet
        THEN IF narrowed # {} /\ fleet[k].project \notin narrowed THEN Drops(c)
             ELSE req' = [req EXCEPT ![c].pc = "authorize",
                              ![c].route.project = fleet[k].project]
        ELSE IF ~ById(registry, k) \/ narrowed # {} THEN Drops(c)
             ELSE Goto(c, "authorize")

ResolveScope(c) ==
    /\ At(c, "scope") /\ ScopeForRead(c, grants)
    /\ UNCHANGED << load, obs_inflight >> /\ ReadFrame

\* Assignments that cannot be read count as none; a row that cannot is a 500.
ResolveScopeFails(c) ==
    /\ At(c, "scope") /\ Spend("fail")
    /\ ScopeForRead(c, {}) \/ Drops(c)
    /\ UNCHANGED obs_inflight /\ ReadFrame

\* One permit per read that goes to a cluster's dashboard.
Southbound(c, refused) ==
    /\ IF refused \/ obs_inflight = 0
       THEN Drops(c) /\ UNCHANGED obs_inflight
       ELSE Goto(c, "dashboard") /\ obs_inflight' = obs_inflight - 1
    /\ UNCHANGED load /\ ReadFrame

RunsDask(k) == k \in DOMAIN fleet /\ fleet[k].engine = "dask"

\* The answer, an error of the cluster or the control-plane timeout.
FetchDashboard(c) ==
    /\ At(c, "dashboard")
    /\ Drops(c) /\ obs_inflight' = obs_inflight + 1
    /\ UNCHANGED load /\ ReadFrame

\* Answered by the store: nothing changes.
ListJobs(c) ==
    /\ Acts(c, "jobs") /\ Drops(c)
    /\ UNCHANGED << load, obs_inflight >> /\ ReadFrame

-----------------------------------------------------------------------------
(* The job history.                                                        *)

IsTerminal(status) == status \in {"SUCCEEDED", "FAILED", "STOPPED"}

\* The Ray heads run their jobs.
JobProgresses(j) ==
    /\ Spend("progress") /\ ~IsTerminal(heads[j].status)
    /\ heads' = [heads EXCEPT ![j] =
            IF @.status = "PENDING"
            THEN [@ EXCEPT !.status = "RUNNING", !.start = now]
            ELSE [@ EXCEPT !.status = "SUCCEEDED", !.end = now]]
    /\ UNCHANGED << store, trail, jwks, now, req, walk, registry, fleet, jobs,
                    inflight, obs_inflight, bridges, refresh, reaper >>

RefreshFrame == UNCHANGED << store, trail, jwks, now, req, walk, registry,
                             fleet, heads, inflight, obs_inflight, bridges,
                             reaper >>

\* refresh_once: the records still open, by cluster ...
RefreshList ==
    /\ refresh = Waiting /\ Spend("refresh")
    /\ LET open == {j \in DOMAIN jobs : ~IsTerminal(jobs[j].status)}
           todo == {jobs[j].cluster : j \in open}
       IN  refresh' = IF todo = {} THEN Waiting
                      ELSE [pc |-> "clusters", rows |-> Restrict(jobs, open),
                            todo |-> todo, next |-> EmptyTable]
    /\ UNCHANGED jobs /\ RefreshFrame

\* Times are in seconds throughout: the heads' milliseconds are rounded down,
\* and no property counts below a second.
MergeStatus(job, summary) ==
    [job EXCEPT
        !.status = summary.status,
        !.duration = IF /\ summary.start # NoTime /\ summary.end # NoTime
                        /\ summary.end >= summary.start
                     THEN summary.end - summary.start ELSE @]

\* The records of cluster k that its head knows more about.
Advanced(k) ==
    LET mine == {j \in DOMAIN refresh.rows :
                    refresh.rows[j].cluster = k /\ j \in DOMAIN heads
                    /\ heads[j].cluster = k}
        merged == [j \in mine |-> MergeStatus(refresh.rows[j], heads[j])]
    IN  Restrict(merged, {j \in mine : merged[j] # refresh.rows[j]})

ClusterDone(k, next) ==
    refresh' = IF next = EmptyTable /\ refresh.todo = {k} THEN Waiting
               ELSE [refresh EXCEPT !.todo = @ \ {k}, !.next = next,
                        !.pc = IF next = EmptyTable THEN "clusters" ELSE "merge"]

\* ... one cluster after the other is asked; one that is not registered is
\* left as last seen ...
RefreshFetch ==
    /\ refresh.pc = "clusters"
    /\ \E k \in refresh.todo :
        ClusterDone(k, IF ById(registry, k) THEN Advanced(k) ELSE EmptyTable)
    /\ UNCHANGED << jobs, load >> /\ RefreshFrame

RefreshUnreachable ==
    /\ refresh.pc = "clusters" /\ Spend("fail")
    /\ \E k \in refresh.todo : ClusterDone(k, EmptyTable)
    /\ UNCHANGED jobs /\ RefreshFrame

\* ... and every record that moved is written back.
RefreshRecord ==
    /\ refresh.pc = "merge"
    /\ \E j \in DOMAIN refresh.next :
        /\ jobs' = Put(jobs, j, refresh.next[j])
        /\ refresh' = IF DOMAIN refresh.next # {j}
                      THEN [refresh EXCEPT !.next = Drop(@, j)]
                      ELSE IF refresh.todo = {} THEN Waiting
                      ELSE [refresh EXCEPT !.pc = "clusters",
                                           !.next = EmptyTable]
    /\ UNCHANGED load /\ RefreshFrame

\* A store error ends the pass.
RefreshFails ==
    /\ refresh.pc = "merge" /\ Spend("fail")
    /\ refresh' = Waiting
    /\ UNCHANGED jobs /\ RefreshFrame

-----------------------------------------------------------------------------
(* Reaping by age and by idleness.                                         *)

RunningRow(row) == row.desired = "Running" /\ row.observed = "Running"
Elapsed(from, at) == IF from > at THEN 0 ELSE at - from
IsExpired(row, at) ==
    RunningRow(row) /\ row.ttl # NoTime /\ Elapsed(row.created_at, at) >= row.ttl

\* Mutant: only finished jobs count as activity.
LastActivityAtFinished(created, history, at) ==
    Max({created} \cup
        {history[j].submitted_at
            + (IF history[j].duration = NoTime THEN 0 ELSE history[j].duration) :
            j \in {i \in DOMAIN history : IsTerminal(history[i].status)}})

\* A job that is not finished is activity now; a finished one counts up to
\* its submission plus its duration.
LastActivityAt(created, history, at) ==
    IF \E j \in DOMAIN history : ~IsTerminal(history[j].status) THEN at
    ELSE Max({created} \cup
            {history[j].submitted_at
                + (IF history[j].duration = NoTime THEN 0
                   ELSE history[j].duration) : j \in DOMAIN history})

IsIdleExpired(row, last, at) ==
    RunningRow(row) /\ row.idle # NoTime /\ Elapsed(last, at) >= row.idle

ReapFrame == UNCHANGED << store, trail, jwks, now, req, walk, registry, heads,
                          jobs, inflight, obs_inflight, bridges, refresh >>

\* reap_expired lists the rows, then the job history, at one time of day.
ReapRows ==
    /\ reaper = Waiting /\ Spend("reap")
    /\ reaper' = [pc |-> "jobs", at |-> now, rows |-> fleet,
                  history |-> EmptyTable, todo |-> {}]
    /\ UNCHANGED fleet /\ ReapFrame

ReapJobs ==
    /\ reaper.pc = "jobs"
    /\ reaper' = [reaper EXCEPT !.pc = "decide", !.history = jobs,
                                !.todo = DOMAIN reaper.rows]
    /\ UNCHANGED << fleet, load >> /\ ReapFrame

HistoryOf(k) ==
    Restrict(reaper.history,
             {j \in DOMAIN reaper.history : reaper.history[j].cluster = k})

ReapOne ==
    /\ reaper.pc = "decide"
    /\ \E k \in reaper.todo :
        LET row == reaper.rows[k]
            last == LastActivityAt(row.created_at, HistoryOf(k), reaper.at)
        IN  /\ fleet' = IF IsExpired(row, reaper.at)
                           \/ IsIdleExpired(row, last, reaper.at)
                        THEN [fleet EXCEPT ![k].desired = "Terminated"]
                        ELSE fleet
            /\ reaper' = IF reaper.todo = {k} THEN Waiting
                         ELSE [reaper EXCEPT !.todo = @ \ {k}]
    /\ UNCHANGED load /\ ReapFrame

\* A store error ends the pass.
ReapFails ==
    /\ reaper # Waiting /\ Spend("fail") /\ reaper' = Waiting
    /\ UNCHANGED fleet /\ ReapFrame

-----------------------------------------------------------------------------
GatewayStep(c) ==
    \/ HostGateway(c) \/ Forward(c) \/ ForwardRefused(c) \/ Connect(c)
    \/ UpstreamFails(c) \/ ClientGone(c)
    \/ EmitProxied(c) \/ EmitProxiedFails(c)
    \/ RecordSubmission(c) \/ RecordSubmissionFails(c)
    \/ ResolveScope(c) \/ ResolveScopeFails(c)
    \/ FetchDashboard(c) \/ ListJobs(c)

PlaneStep ==
    \/ \E c \in Clients : GatewayStep(c)
    \/ \E b \in Streams :
        \/ RelayFrame(b) \/ FrameSent(b)
        \/ BridgeBreaks(b) \/ BridgeIdles(b) \/ BridgeCloses(b)
    \/ \E j \in DOMAIN heads : JobProgresses(j)
    \/ RefreshList \/ RefreshFetch \/ RefreshUnreachable \/ RefreshRecord
    \/ RefreshFails
    \/ ReapRows \/ ReapJobs \/ ReapOne \/ ReapFails

PlaneNext == (AccessNext /\ UNCHANGED plane) \/ (PlaneStep /\ Witness)

PlaneSpec == PlaneInit /\ [][PlaneNext]_jvars

-----------------------------------------------------------------------------
(* Properties.                                                             *)

Dispatched ==
    {c \in Clients :
        \E pc \in {"forward", "connect", "proxied", "record"} : At(c, pc)}
Open == {b \in Streams : bridges[b] # Closed}
Fetching == {c \in Clients : At(c, "dashboard")}

\* The two semaphores: a permit is out for exactly the requests between
\* dispatch and answer and for the bridges that are open, however a request
\* ends: refused, answered, failed upstream, or dropped with its client.
PermitsAccounted ==
    /\ inflight = MaxInflight - Cardinality(Dispatched) - Cardinality(Open)
    /\ obs_inflight = ObsInflight - Cardinality(Fetching)
    /\ inflight >= 0 /\ obs_inflight >= 0

\* reap_expired: whatever the refresher and new submissions do meanwhile, a
\* cluster is reaped for idleness only if each job recorded for it when the
\* pass read the history was submitted at least the idle timeout of the row it
\* read ago, and has really ended on its head.  The latter is not so for a
\* timeout of 0, which create_cluster accepts: it reaps a busy cluster.
IdleReapSparesBusy ==
    [][reaper.pc = "decide" /\ reaper' # reaper => \A k \in DOMAIN fleet :
        fleet'[k].desired = "Terminated" /\ fleet[k].desired # "Terminated"
        /\ ~IsExpired(reaper.rows[k], reaper.at) =>
            \A j \in DOMAIN HistoryOf(k) :
                /\ j \in DOMAIN heads => \/ IsTerminal(heads[j].status)
                                         \/ reaper.rows[k].idle = 0
                /\ now - reaper.history[j].submitted_at
                    >= reaper.rows[k].idle]_jvars

-----------------------------------------------------------------------------
(* What makes them inductive.                                              *)

\* An open bridge has all its fields.
BridgeShape ==
    /\ DOMAIN bridges = Streams
    /\ \A b \in Streams :
        \/ bridges[b] = Closed
        \/ DOMAIN bridges[b] = {"pc", "deadline"}
           /\ bridges[b].pc \in {"relay", "send", "closing"}

PermitsInv == BridgeShape /\ PermitsAccounted

\* Times lie in the past.
Past(t, at) == t = NoTime \/ t \in 0 .. at
HeadTyped(head, at) ==
    /\ DOMAIN head = {"cluster", "status", "start", "end"}
    /\ Past(head.start, at) /\ Past(head.end, at)
JobTyped(job, at) ==
    /\ DOMAIN job = {"cluster", "submitter", "status", "duration",
                     "submitted_at"}
    /\ job.submitted_at \in 0 .. at /\ Past(job.duration, at)

\* A history, wherever it was copied to, calls a job finished only if its head
\* has finished it.
Ended == {j \in DOMAIN heads : IsTerminal(heads[j].status)}
HistoryTyped(history, ended, at) ==
    \A j \in DOMAIN history :
        /\ JobTyped(history[j], at)
        /\ IsTerminal(history[j].status) => j \in ended

\* Rows keep their age; their idle timeout stays one.
FleetKept(rows) ==
    /\ DOMAIN rows = DOMAIN FirstFleet
    /\ \A k \in DOMAIN rows :
        /\ {"desired", "observed", "created_at", "idle"} \subseteq DOMAIN rows[k]
        /\ rows[k].created_at = FirstFleet[k].created_at
        /\ rows[k].idle \in Nat \cup {-1}

RefreshTyped(r, ended, at) ==
    r # Waiting =>
        /\ DOMAIN r = {"pc", "rows", "todo", "next"}
        /\ HistoryTyped(r.rows, ended, at) /\ HistoryTyped(r.next, ended, at)
ReaperTyped(r, ended, at) ==
    r # Waiting =>
        /\ DOMAIN r = {"pc", "at", "rows", "history", "todo"}
        /\ r.at \in 0 .. at
        /\ FleetKept(r.rows) /\ r.todo \subseteq DOMAIN FirstFleet
        /\ HistoryTyped(r.history, ended, at)

HistoryInv ==
    /\ now \in Nat
    /\ \A j \in DOMAIN heads : HeadTyped(heads[j], now)
    /\ HistoryTyped(jobs, Ended, now)
    /\ FleetKept(fleet)
    /\ RefreshTyped(refresh, Ended, now)
    /\ ReaperTyped(reaper, Ended, now)
=============================================================================
