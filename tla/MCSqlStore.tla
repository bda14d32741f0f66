----------------------------- MODULE MCSqlStore -----------------------------
(* A small instance of SqlRefinement for TLC. *)
EXTENDS SqlRefinement

NoTtl == [b \in Bodies |-> NoTime]
Spec1(b) == [body |-> b, owner |-> "u"]
Key == "a:1"
\* The cluster's id and the intent's key share a lock.
MCHashText == [k \in {"a", Key, "pool/p", "audit_chain"} |->
                IF k \in {"audit_chain", "pool/p"} THEN "h2" ELSE "h1"]
MCPoolText == [n \in {"p"} |-> "pool/p"]

MCCalls ==
    {[op |-> "upsert", id |-> "a", spec |-> Spec1(b)] : b \in Bodies}
    \cup {[op |-> "set_desired", id |-> "a", desired |-> d] :
            d \in {"Terminated", "Running"}}
    \cup {[op |-> "remove", id |-> "a"],
          [op |-> "observe", id |-> "a", state |-> "Running", generation |-> 1],
          [op |-> "condition", id |-> "a", condition |-> "SpecDrift"],
          [op |-> "attempt", id |-> "a", failures |-> 1, next |-> 2],
          [op |-> "complete", key |-> Key], [op |-> "reap", cutoff |-> 1],
          [op |-> "samples", batch |-> {"s1", "s2"}],
          [op |-> "quarantine", on |-> TRUE]}
    \cup {[op |-> "begin", key |-> Key, fp |-> <<b, "u">>] : b \in Bodies}
    \cup {[op |-> "audit", event |-> e] : e \in {"e1", "e2"}}
    \cup {[op |-> "upsert_pool", name |-> "p", spec |-> s] : s \in {"s1", "s2"}}
    \cup {[op |-> "delete_pool", name |-> "p"],
          [op |-> "observe_pool", name |-> "p", observed |-> "ledger"],
          [op |-> "upsert_allocation", pool |-> "p", project |-> "ml",
           spec |-> "s1"],
          [op |-> "delete_allocation", pool |-> "p", project |-> "ml"],
          [op |-> "set_policy", policy |-> "edit"],
          [op |-> "seed_policy", policy |-> "seed"],
          [op |-> "record_job", id |-> "j", cluster |-> "a", submitter |-> "ann",
           status |-> "PENDING", duration |-> NoTime, submitted_at |-> 0],
          [op |-> "record_job", id |-> "j", cluster |-> "b", submitter |-> "bob",
           status |-> "SUCCEEDED", duration |-> 1, submitted_at |-> 1],
          [op |-> "create_user", user |-> "ann", password |-> "pw1",
           role |-> "viewer"],
          [op |-> "set_password", user |-> "ann", password |-> "pw2"],
          [op |-> "set_role", user |-> "ann", role |-> "admin"],
          [op |-> "set_disabled", user |-> "ann", disabled |-> TRUE],
          [op |-> "set_lockout", user |-> "ann", failed |-> 1, until |-> 2],
          [op |-> "create_token", prefix |-> "t", username |-> "ann",
           expires_at |-> 3],
          [op |-> "revoke_token", prefix |-> "t", username |-> "ann"],
          [op |-> "revoke_token", prefix |-> "t", username |-> "bob"],
          [op |-> "touch_token", prefix |-> "t"],
          [op |-> "assign", grant |-> <<"ann", "operator", "ml">>],
          [op |-> "unassign", grant |-> <<"ann", "operator", "ml">>]}

MCOldRows == <<"o1", "o2">>

SqlKinds == {k.op : k \in MCCalls} \cup {"fail", "commit", "crash", "second"}
Workload(w) == [k \in SqlKinds |-> IF k \in DOMAIN w THEN w[k] ELSE 0]
SqlWorkloads ==
    { \* upserts race each other and every other writer of the row
      Workload([upsert |-> 2, fail |-> 1]),
      Workload([upsert |-> 3, remove |-> 1, crash |-> 1]),
      Workload([upsert |-> 2, set_desired |-> 2, second |-> 1]),
      Workload([upsert |-> 2, observe |-> 1, condition |-> 1, attempt |-> 1]),
      \* intents are opened, completed and reaped under one another
      Workload([begin |-> 3, complete |-> 1, reap |-> 1, second |-> 1]),
      \* the audit trail and the other writers of the database
      Workload([audit |-> 2, upsert |-> 1, crash |-> 1, fail |-> 1]),
      Workload([samples |-> 1, quarantine |-> 1, audit |-> 2, upsert |-> 1]),
      \* a COMMIT that fails
      Workload([upsert |-> 2, set_desired |-> 1, commit |-> 1, crash |-> 1]),
      Workload([audit |-> 2, samples |-> 1, commit |-> 1]),
      \* pools are edited, deleted and observed under one another
      Workload([upsert_pool |-> 2, delete_pool |-> 1, observe_pool |-> 1]),
      Workload([upsert_pool |-> 2, upsert_allocation |-> 1,
                delete_allocation |-> 1, fail |-> 1]),
      \* the tables written by single statements
      Workload([set_policy |-> 1, seed_policy |-> 1, record_job |-> 2]),
      Workload([create_user |-> 2, set_password |-> 1, set_role |-> 1]),
      Workload([create_user |-> 1, set_disabled |-> 1, set_lockout |-> 1]),
      Workload([create_token |-> 2, revoke_token |-> 1, touch_token |-> 1]),
      Workload([assign |-> 2, unassign |-> 1, second |-> 1]) }
=============================================================================
