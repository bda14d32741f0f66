---------------------------- MODULE MCAdmission -----------------------------
(* A small instance of Admission for TLC. *)
EXTENDS Admission

Workload(w) == [k \in AKinds |-> IF k \in DOMAIN w THEN w[k] ELSE 0]

Q(n) == [num |-> n, suffix |-> ""]
None == [num |-> 0, suffix |-> ""]
Group(n, gpu, min, max) ==
    [cpu |-> Q(n), memory |-> None, gpu |-> gpu, min |-> min, max |-> max]
Body(project, groups) ==
    [project |-> project, cpu |-> Q(1000), memory |-> None, groups |-> groups]

\* Two cores at most; a fraction of a device; a malformed one; no quota.
Small == Body("ml", <<Group(1000, NoGpu, 0, 1)>>)
HalfGpu == Body("ml", <<Group(0, Q(500), 1, 1)>>)
Reversed == Body("ml", <<Group(1000, NoGpu, 2, 1)>>)
Plain == Body("etl", << >>)
MCBodies == {Small, HalfGpu, Reversed, Plain}

Cpu(n) == [r \in {"cpu"} |-> n]
Limits(n) == [r \in {"cpu", "memory"} |-> IF r = "cpu" THEN n ELSE 0]
Quota(n) == [p \in {"ml"} |-> Limits(n)]
Budget(w, n) == [p \in {"ml"} |-> [window |-> w, limits |-> Cpu(n)]]

\* A price that PUT /settings/policy would refuse.
MCSeed == [prices |-> Cpu(-1), quotas |-> Quota(3000),
           budgets |-> Budget(2, 2000), seeded |-> TRUE]
Edit(sections, quotas, budgets) ==
    [sections |-> sections, prices |-> Cpu(2), quotas |-> quotas,
     budgets |-> budgets]
MCEdits == {Edit({"prices"}, EmptyTable, EmptyTable),
            Edit({"quotas"}, Quota(4000), EmptyTable),
            Edit({"quotas"}, EmptyTable, EmptyTable),
            Edit({"quotas"}, Quota(-1), EmptyTable),
            Edit({"budgets"}, EmptyTable, Budget(1, 3000))}

Shared == [cohort |-> "co", flavors |-> << >>, weight |-> 1,
           elastic |-> FALSE, gpu |-> "unset"]
MCPoolRows == [p \in {"p1", "p2"} |->
                [spec |-> Shared, generation |-> 1, observed |-> EmptyTable]]
MCAllocRows == [k \in {<<"p1", "ml">>, <<"p1", "etl">>} |->
                    [namespace |-> "ns", limits |-> {}]]
Status(rows, n) == [x \in rows |-> [r \in {"cpu"} |-> Q(n)]]
MCQueueLedgers ==
    {[p \in {"p1", "p2"} |->
        [flavors |-> Status({"f"}, 3000), queues |-> Status({"ml"}, n)]] :
        n \in {1000, Junk}}

AdmissionWorkloads ==
    { \* creates race each other, with an error anywhere
      Workload([create |-> 3]),
      Workload([create |-> 2, fail |-> 1]),
      \* creates race edits, and edits the seed
      Workload([create |-> 2, edit |-> 1]),
      Workload([edit |-> 2, view |-> 1]),
      \* the other writers
      Workload([create |-> 2, suspend |-> 1, resume |-> 1]),
      Workload([create |-> 2, delete |-> 1, purge |-> 1]),
      \* metering, with budgets
      Workload([create |-> 2, tick |-> 2, second |-> 3]),
      Workload([create |-> 1, ktick |-> 2, second |-> 2, fail |-> 1]) }
=============================================================================
