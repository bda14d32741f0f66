--------------------------- MODULE PoolReconcile ----------------------------
(***************************************************************************)
(* Capacity pools: the pool API (mobula-api/src/pools.rs), the pool        *)
(* reconcile loop (mobula-controller/src/pool_reconcile.rs) and the Kueue  *)
(* objects it maintains through mobula-provision/src/kueue_client.rs.      *)
(*                                                                         *)
(* Every await of a handler or of the loop that reads or writes shared     *)
(* state starts a new step, so requests, the loop, the intent reaper of    *)
(* the cluster loop, the operator and crashes interleave between calls.    *)
(***************************************************************************)
EXTENDS Capacity

CONSTANTS
    Specs,          \* the bodies POST /pools may carry
    Allocations,    \* the bodies PUT .../allocations may carry
    Ledgers,        \* the statuses Kueue may report for a ClusterQueue
    GpuDefault,     \* [gpu] default_sharing of the policy file
    Clients,        \* API requests that may be in flight together
    Workloads       \* how many events of each kind the environment has

\* A spec lists its flavors; projects come in finite numbers.
ASSUME PoolAssumption ==
    /\ \A s \in Specs :
        s.flavors \in Seq({s.flavors[i] : i \in DOMAIN s.flavors})
    /\ IsFiniteSet(Projects)

VARIABLES
    pools,          \* name -> [spec, generation, observed]
    allocs,         \* <<pool, project>> -> [namespace, limits]
    intents,        \* outbox rows of pools: key -> "Pending" | "Applied"
    quarantined,    \* the flag of the store
    kueue,          \* ref -> [pool, body], the objects of the API server
    ledger,         \* pool -> ClusterQueue status, where Kueue wrote one
    present,        \* kueue_present, probed once per process
    converged,      \* the applied-set, in memory
    loop,           \* where the pass is
    req,            \* client -> its request in flight
    load,           \* events the environment still has
    fenced,         \* history: quarantined since before the pass began
    forgotten       \* history: pools whose objects the process lost track of

vars == << pools, allocs, intents, quarantined, kueue, ledger, present,
           converged, loop, req, load, fenced, forgotten >>
rows == << pools, allocs >>
cloud == << kueue, ledger >>
histories == << fenced, forgotten >>

Kinds == {"create", "delete", "alloc", "dealloc", "ledger", "fail", "crash",
          "quarantine", "clear"}

Spend(kind) == load[kind] > 0 /\ load' = [load EXCEPT ![kind] = @ - 1]

Idle == [pc |-> "idle", listed |-> EmptyTable, todo |-> {}, cur |-> "none",
         key |-> << >>, plan |-> << >>]
NoRequest == [op |-> "none"]

Init ==
    /\ pools = EmptyTable /\ allocs = EmptyTable /\ intents = EmptyTable
    /\ quarantined = FALSE
    /\ kueue = EmptyTable /\ ledger = EmptyTable /\ present \in BOOLEAN
    /\ converged = {} /\ loop = Idle
    /\ req = [c \in Clients |-> NoRequest]
    /\ load \in Workloads
    /\ fenced = FALSE /\ forgotten = {}

Labelled(p) == {r \in DOMAIN kueue : kueue[r].pool = p}

-----------------------------------------------------------------------------
(* The pool API.  A refused request changes nothing and is not a step.     *)

ApiFrame == UNCHANGED << intents, quarantined, cloud, present, converged,
                         loop, histories >>

\* create_pool: validate, then look the name up ...
CreatePoolLookup(c) ==
    /\ req[c] = NoRequest /\ Spend("create")
    /\ \E p \in PoolNames, s \in Specs :
        /\ ValidPool(p, s) /\ ValidQuantities(s)
        /\ p \notin DOMAIN pools
        /\ req' = [req EXCEPT ![c] = [op |-> "create", pool |-> p, spec |-> s]]
    /\ UNCHANGED rows /\ ApiFrame

\* ... and upsert: another request may have created it in between.
CreatePoolUpsert(c) ==
    /\ req[c].op = "create"
    /\ pools' = UpsertPool(pools, req[c].pool, req[c].spec)
    /\ req' = [req EXCEPT ![c] = NoRequest]
    /\ UNCHANGED << allocs, load >> /\ ApiFrame

DeletePool ==
    /\ Spend("delete")
    /\ \E p \in DOMAIN pools : pools' = Drop(pools, p)
    /\ UNCHANGED << allocs, req >> /\ ApiFrame

\* put_allocation: the pool row ...
PutAllocationLookup(c) ==
    /\ req[c] = NoRequest /\ Spend("alloc")
    /\ \E p \in DOMAIN pools, q \in Projects, a \in Allocations :
        /\ ValidAllocation(p, q, a)
        /\ req' = [req EXCEPT ![c] =
                    [op |-> "tenancy", pool |-> p, project |-> q, alloc |-> a,
                     spec |-> pools[p].spec]]
    /\ UNCHANGED rows /\ ApiFrame

\* ... the tenants after the upsert ...
PutAllocationTenancy(c) ==
    /\ req[c].op = "tenancy"
    /\ LET tenants == DOMAIN ListAllocations(allocs, req[c].pool)
                        \cup {req[c].project}
       IN  req' = [req EXCEPT ![c] =
                    IF PoolGpuIsolated(req[c].spec, GpuDefault,
                                       Cardinality(tenants))
                    THEN [@ EXCEPT !.op = "allocate"] ELSE NoRequest]
    /\ UNCHANGED << rows, load >> /\ ApiFrame

\* ... and the upsert.
PutAllocationUpsert(c) ==
    /\ req[c].op = "allocate"
    /\ allocs' = UpsertAllocation(allocs, req[c].pool, req[c].project,
                                  req[c].alloc)
    /\ req' = [req EXCEPT ![c] = NoRequest]
    /\ UNCHANGED << pools, load >> /\ ApiFrame

\* A store error after the lookup ends the request without its write.
RequestFails(c) ==
    /\ req[c] # NoRequest /\ Spend("fail")
    /\ req' = [req EXCEPT ![c] = NoRequest]
    /\ UNCHANGED rows /\ ApiFrame

DropAllocation ==
    /\ Spend("dealloc")
    /\ \E k \in DOMAIN allocs : allocs' = DeleteAllocation(allocs, k[1], k[2])
    /\ UNCHANGED << pools, req >> /\ ApiFrame

-----------------------------------------------------------------------------
(* The loop: reconcile_all.                                                *)

LoopFrame == UNCHANGED << allocs, quarantined, ledger, present, req >>

TurnOver == [loop EXCEPT !.pc = "turn", !.cur = "none", !.key = << >>,
                         !.plan = << >>]

BeginPass ==
    /\ loop.pc = "idle" /\ present
    /\ loop' = [Idle EXCEPT !.pc = "turn", !.listed = pools,
                            !.todo = DOMAIN pools]
    /\ fenced' = quarantined
    /\ UNCHANGED << pools, intents, kueue, converged, load, forgotten >>
    /\ LoopFrame

\* reconcile_one, 1: read the ClusterQueue; a missing one records nothing.
Observe ==
    /\ loop.pc = "turn"
    /\ \E p \in loop.todo :
        /\ loop' = [loop EXCEPT !.pc = "quarantine", !.cur = p,
                                !.todo = @ \ {p}]
        /\ pools' = IF <<"ClusterQueue", "", p>> \in DOMAIN kueue
                       /\ p \in DOMAIN ledger
                    THEN RecordPoolObservation(pools, p, ledger[p])
                    ELSE pools
    /\ UNCHANGED << intents, kueue, converged, load, histories >> /\ LoopFrame

\* reconcile_one, 2: observe but never actuate.
CheckQuarantine ==
    /\ loop.pc = "quarantine"
    /\ loop' = IF quarantined THEN TurnOver ELSE [loop EXCEPT !.pc = "allocs"]
    /\ UNCHANGED << pools, intents, kueue, converged, load, histories >>
    /\ LoopFrame

\* reconcile_one, 3: the key carries the generation and, as its digest, the
\* whole desired state.  An Applied intent of it ends the turn.
DesiredFingerprint(p) == <<loop.listed[p].spec, ListAllocations(allocs, p)>>
PoolIntentKey(p) == <<p, loop.listed[p].generation, DesiredFingerprint(p)>>

CheckApplied ==
    /\ loop.pc = "allocs"
    /\ LET key == PoolIntentKey(loop.cur)
           done == key \in DOMAIN intents /\ intents[key] = "Applied"
       IN  /\ loop' = IF done THEN TurnOver
                      ELSE [loop EXCEPT !.pc = "begin", !.key = key]
           /\ converged' = IF done THEN converged \cup {loop.cur}
                           ELSE converged
           /\ forgotten' = forgotten \ converged'
    /\ UNCHANGED << pools, intents, kueue, load, fenced >> /\ LoopFrame

BeginIntent ==
    /\ loop.pc = "begin"
    /\ intents' = Put(intents, loop.key, "Pending")
    /\ loop' = [loop EXCEPT !.pc = "patch",
                    !.plan = Manifests(loop.cur, loop.key[3][1], loop.key[3][2])]
    /\ UNCHANGED << pools, kueue, converged, load, histories >> /\ LoopFrame

\* apply_pool: one server-side apply for each manifest, in order.
ApplyManifest ==
    /\ loop.pc = "patch"
    /\ LET m == Head(loop.plan)
       IN  kueue' = Put(kueue, m.ref, [pool |-> m.pool, body |-> m.body])
    /\ loop' = [loop EXCEPT !.plan = Tail(@),
                    !.pc = IF Len(loop.plan) = 1 THEN "complete" ELSE @]
    /\ UNCHANGED << pools, intents, converged, load, histories >> /\ LoopFrame

\* Mutant: the applied-set is filled from the found-applied path only.
CompleteIntentUnremembered ==
    /\ loop.pc = "complete"
    /\ intents' = Put(intents, loop.key, "Applied")
    /\ loop' = TurnOver
    /\ UNCHANGED << pools, kueue, load, converged, histories >> /\ LoopFrame

CompleteIntent ==
    /\ loop.pc = "complete"
    /\ intents' = Put(intents, loop.key, "Applied")
    /\ converged' = converged \cup {loop.cur}
    /\ forgotten' = forgotten \ {loop.cur}
    /\ loop' = TurnOver
    /\ UNCHANGED << pools, kueue, load, fenced >> /\ LoopFrame

\* An error of observe_pool or record_pool_observation skips the pool, one of
\* the flag before the sweep ends the pass.
ReadFails ==
    /\ loop.pc = "turn" /\ Spend("fail")
    /\ \/ \E p \in loop.todo : loop' = [loop EXCEPT !.todo = @ \ {p}]
       \/ loop.todo = {} /\ loop' = Idle
    /\ UNCHANGED << pools, intents, kueue, converged, histories >> /\ LoopFrame

\* An error of a later call ends the turn; what was patched stays.
TurnFails ==
    /\ loop.pc \in {"quarantine", "allocs", "begin", "patch", "complete"}
    /\ Spend("fail")
    /\ loop' = TurnOver
    /\ forgotten' = IF loop.cur \in converged \/ Labelled(loop.cur) = {}
                    THEN forgotten ELSE forgotten \cup {loop.cur}
    /\ UNCHANGED << pools, intents, kueue, converged, fenced >> /\ LoopFrame

\* Teardown of pools that disappeared from the list this pass started with.
Vanished == converged \ DOMAIN loop.listed

\* Mutant: the sweep does not ask for the flag.
SweepQuarantineIgnored ==
    /\ loop.pc = "turn" /\ loop.todo = {}
    /\ loop' = IF Vanished = {} THEN Idle
               ELSE [loop EXCEPT !.pc = "teardown", !.todo = Vanished]
    /\ UNCHANGED << pools, intents, kueue, converged, load, histories >>
    /\ LoopFrame

Sweep ==
    /\ loop.pc = "turn" /\ loop.todo = {}
    /\ loop' = IF quarantined \/ Vanished = {} THEN Idle
               ELSE [loop EXCEPT !.pc = "teardown", !.todo = Vanished]
    /\ UNCHANGED << pools, intents, kueue, converged, load, histories >>
    /\ LoopFrame

\* delete_pool of the client: LocalQueues first, then the other kinds, found
\* by label; every delete is a call.
TeardownRank(ref) ==
    CASE ref[1] = "LocalQueue" -> 0 [] ref[1] = "Cohort" -> 1
      [] ref[1] = "ResourceFlavor" -> 2 [] ref[1] = "ClusterQueue" -> 3

DeleteObject ==
    /\ loop.pc = "teardown"
    /\ \E p \in loop.todo : \E r \in Labelled(p) :
        /\ loop.cur \in {"none", p}
        /\ \A o \in Labelled(p) : TeardownRank(r) <= TeardownRank(o)
        /\ kueue' = Drop(kueue, r)
        /\ ledger' = IF r[1] = "ClusterQueue" THEN Drop(ledger, r[3])
                     ELSE ledger
        /\ loop' = [loop EXCEPT !.cur = p]
    /\ UNCHANGED << pools, intents, converged, load, histories, allocs,
                    quarantined, present, req >>

PoolGone(p) ==
    [loop EXCEPT !.cur = "none", !.todo = @ \ {p},
                 !.pc = IF loop.todo = {p} THEN "idle" ELSE @,
                 !.listed = IF loop.todo = {p} THEN EmptyTable ELSE @]

TeardownDone ==
    /\ loop.pc = "teardown"
    /\ \E p \in loop.todo :
        /\ loop.cur \in {"none", p} /\ Labelled(p) = {}
        /\ converged' = converged \ {p}
        /\ loop' = PoolGone(p)
    /\ UNCHANGED << pools, intents, kueue, load, histories >> /\ LoopFrame

\* Mutant: a failed teardown is taken for done.
TeardownFailsForgets ==
    /\ loop.pc = "teardown" /\ Spend("fail")
    /\ \E p \in loop.todo : loop.cur \in {"none", p} /\ loop' = PoolGone(p)
                            /\ converged' = converged \ {p}
    /\ UNCHANGED << pools, intents, kueue, histories >> /\ LoopFrame

TeardownFails ==
    /\ loop.pc = "teardown" /\ Spend("fail")
    /\ \E p \in loop.todo : loop.cur \in {"none", p} /\ loop' = PoolGone(p)
    /\ UNCHANGED << pools, intents, kueue, converged, histories >> /\ LoopFrame

LoopStep ==
    \/ BeginPass \/ Observe \/ CheckQuarantine \/ CheckApplied \/ BeginIntent
    \/ ApplyManifest \/ CompleteIntent \/ Sweep \/ DeleteObject \/ TeardownDone

-----------------------------------------------------------------------------
(* Around the loop. *)

\* Mutant: the status test is inverted, and Applied rows stay for ever.
ReapIntentPending(key) ==
    /\ key \in DOMAIN intents /\ intents[key] = "Pending"
    /\ intents' = Drop(intents, key)
    /\ UNCHANGED << rows, quarantined, cloud, present, converged, loop, req,
                    load, histories >>

\* The cluster loop reaps intents an hour after they were applied, the pool
\* intents among them.
ReapIntent(key) ==
    /\ key \in DOMAIN intents /\ intents[key] = "Applied"
    /\ intents' = Drop(intents, key)
    /\ UNCHANGED << rows, quarantined, cloud, present, converged, loop, req,
                    load, histories >>

\* Kueue writes a ClusterQueue's status.
LedgerMoves ==
    /\ Spend("ledger")
    /\ \E p \in PoolNames, l \in Ledgers :
        <<"ClusterQueue", "", p>> \in DOMAIN kueue /\ ledger' = Put(ledger, p, l)
    /\ UNCHANGED << rows, intents, quarantined, kueue, present, converged,
                    loop, req, histories >>

Quarantine ==
    /\ ~quarantined /\ Spend("quarantine") /\ quarantined' = TRUE
    /\ UNCHANGED << rows, intents, cloud, present, converged, loop, req,
                    histories >>

ClearQuarantine ==
    /\ quarantined /\ Spend("clear") /\ quarantined' = FALSE
    /\ fenced' = FALSE
    /\ UNCHANGED << rows, intents, cloud, present, converged, loop, req,
                    forgotten >>

\* The process restarts: requests, the pass and the applied-set are lost,
\* and the CRDs are probed again: an error of that one discovery call reads as
\* absent for the life of the process, whatever the last one found.
Restart ==
    /\ Spend("crash")
    /\ loop' = Idle /\ converged' = {} /\ req' = [c \in Clients |-> NoRequest]
    /\ present' \in BOOLEAN
    /\ fenced' = FALSE
    /\ forgotten' = {p \in PoolNames : Labelled(p) # {}}
    /\ UNCHANGED << rows, intents, quarantined, cloud >>

RequestStep(c) ==
    \/ CreatePoolUpsert(c) \/ PutAllocationTenancy(c) \/ PutAllocationUpsert(c)

PoolNext ==
    \/ LoopStep \/ ReadFails \/ TurnFails \/ TeardownFails
    \/ \E c \in Clients : RequestStep(c) \/ RequestFails(c)
                          \/ CreatePoolLookup(c) \/ PutAllocationLookup(c)
    \/ DeletePool \/ DropAllocation
    \/ \E key \in DOMAIN intents : ReapIntent(key)
    \/ LedgerMoves \/ Quarantine \/ ClearQuarantine \/ Restart

PoolSpec == Init /\ [][PoolNext]_vars

ReapCurrent(p) ==
    /\ p \in DOMAIN pools
    /\ ReapIntent(<<p, pools[p].generation,
                    <<pools[p].spec, ListAllocations(allocs, p)>> >>)

\* Every call returns and the loop ticks for ever.  An intent that stays
\* Applied grows old and is reaped, that of the current state among them.
FairPoolSpec ==
    /\ PoolSpec /\ WF_vars(LoopStep)
    /\ \A c \in Clients : WF_vars(RequestStep(c))
    /\ \A p \in PoolNames : WF_vars(ReapCurrent(p))

-----------------------------------------------------------------------------
(* Properties. *)

PoolRow == [spec : Specs, generation : Nat \ {0},
            observed : Ledgers \cup {NoObservation}]

\* A key of the outbox: pool, generation and the desired state it is for.
IsKey(k) ==
    /\ k = <<k[1], k[2], <<k[3][1], k[3][2]>> >>
    /\ k[1] \in PoolNames /\ k[2] \in Nat \ {0} /\ k[3][1] \in Specs
    /\ IsTable(k[3][2], Projects, Allocations)

IsRequest(r) ==
    \/ r = NoRequest
    \/ r \in [op : {"create"}, pool : PoolNames,
              spec : {s \in Specs : ValidQuantities(s)}]
    \/ r \in [op : {"tenancy", "allocate"}, pool : PoolNames,
              project : Projects, alloc : Allocations, spec : Specs]

\* Where a turn holds a pool, and where it has a key for it.
InTurn == {"quarantine", "allocs", "begin", "patch", "complete"}
Keyed == {"begin", "patch", "complete"}

LoopOK ==
    /\ DOMAIN loop = DOMAIN Idle
    /\ loop.pc \in {"idle", "turn", "teardown"} \cup InTurn
    /\ IsTable(loop.listed, PoolNames, PoolRow)
    /\ loop.todo \subseteq PoolNames
    /\ loop.pc \in {"turn"} \cup InTurn => loop.todo \subseteq DOMAIN loop.listed
    /\ loop.cur \in PoolNames \cup {"none"}
    /\ loop.pc \in InTurn => loop.cur \in DOMAIN loop.listed
    /\ loop.pc \in Keyed => IsKey(loop.key)

StoreOK ==
    /\ IsTable(pools, PoolNames, PoolRow)
    /\ \A p \in DOMAIN pools :
        DOMAIN TotalNominal(pools[p].spec)
            = ToClusterQueue(p, pools[p].spec).body.covered
    /\ IsTable(allocs, PoolNames \X Projects, Allocations)
    /\ IsTable(intents, DOMAIN intents, {"Pending", "Applied"})
    /\ \A k \in DOMAIN intents : IsKey(k)

CloudOK ==
    /\ IsTable(ledger, PoolNames, Ledgers)
    /\ \A r \in DOMAIN kueue : kueue[r].pool \in PoolNames

\* Rows, objects, the outbox, the requests and the loop hold values of their
\* types, and no stored spec has a quantity that fails to parse: every resource
\* a pool's ClusterQueue covers has a total in the pool's view.
PoolTypeOK ==
    /\ StoreOK /\ CloudOK /\ LoopOK
    /\ converged \subseteq PoolNames /\ forgotten \subseteq PoolNames
    /\ DOMAIN req = Clients /\ \A c \in Clients : IsRequest(req[c])

\* A pass patches the objects of one pool at a time: what is left of its plan
\* carries that pool's label.
PlanIsOfPool ==
    loop.pc = "patch" =>
        /\ loop.plan \in Seq({loop.plan[i] : i \in DOMAIN loop.plan})
        /\ loop.plan # << >>
        /\ \A i \in DOMAIN loop.plan : loop.plan[i].pool = loop.cur

\* Everything a pool's label marks in Kueue is something this process will
\* find again: the pool is in the applied-set, or is being applied right now.
\* The only exceptions are the ones a restart or an error of its turn made.
OrphansExplained ==
    \A p \in PoolNames : Labelled(p) # {} =>
        \/ p \in converged \cup forgotten
        \/ p = loop.cur /\ loop.pc \in {"patch", "complete"}

\* Why: such a pass never gets past the flag, neither in a turn nor at the sweep.
FencedPassReads ==
    fenced => quarantined /\ loop.pc \in {"idle", "turn", "quarantine"}

\* A pass that began under quarantine leaves Kueue alone for as long as the
\* quarantine lasts, deletes included, and opens no intent.
QuarantinedPassInert ==
    [][fenced => /\ kueue' = kueue
                 /\ DOMAIN intents' \subseteq DOMAIN intents]_vars

\* Every object desired for p is in Kueue as desired.
Desired(p) == Manifests(p, pools[p].spec, ListAllocations(allocs, p))
Matches(p) ==
    \A i \in DOMAIN Desired(p) :
        LET m == Desired(p)[i]
        IN  m.ref \in DOMAIN kueue
            /\ kueue[m.ref] = [pool |-> m.pool, body |-> m.body]

\* Whatever requests, errors and crashes came before, a pool that exists has
\* its objects as its spec and allocations say, again and again: also when a
\* desired state comes back whose intent is still marked Applied, and when
\* another pool's teardown took a shared object away.
PoolConverges ==
    \A p \in PoolNames :
        []<>(p \in DOMAIN pools => Matches(p) \/ quarantined \/ ~present)

\* The objects of a deleted pool disappear, unless the process lost track of
\* it, the pool is created again or the control plane is quarantined.
VanishedTornDown ==
    \A p \in PoolNames :
        (Labelled(p) # {} /\ p \notin DOMAIN pools)
            ~> \/ Labelled(p) = {} \/ p \in DOMAIN pools
               \/ p \in forgotten \/ quarantined

=============================================================================
