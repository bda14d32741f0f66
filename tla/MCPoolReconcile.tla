-------------------------- MODULE MCPoolReconcile ---------------------------
(* A small instance of PoolReconcile for TLC. *)
EXTENDS PoolReconcile

Workload(w) == [k \in Kinds |-> IF k \in DOMAIN w THEN w[k] ELSE 0]

Q(n) == [num |-> n, suffix |-> ""]
Cpu(n) == [r \in {"cpu"} |-> Q(n)]
Flavor(name, res) == [name |-> name, resources |-> res, taints |-> {}]

\* Two specs that share the cohort and a flavor, and two that are refused.
Whole == [cohort |-> "co", flavors |-> <<Flavor("f", Cpu(4000))>>,
          weight |-> 1, elastic |-> FALSE, gpu |-> "unset"]
Sliced == [cohort |-> "co",
           flavors |-> <<Flavor("f", Cpu(2000)), Flavor("g", Cpu(1000))>>,
           weight |-> 1, elastic |-> TRUE, gpu |-> "time-slice"]
Unparsed == [Whole EXCEPT !.flavors = <<Flavor("f", Cpu(Junk))>>]
Twice == [Whole EXCEPT !.flavors = <<Whole.flavors[1], Whole.flavors[1]>>]

MCSpecs == {Whole, Sliced, Unparsed, Twice}
MCAllocations == {[namespace |-> "ns", limits |-> {}]}
MCLedgers == {[f \in {"f"} |-> Cpu(1000)]}

PoolWorkloads ==
    { \* two pools, a crash and an error anywhere
      Workload([create |-> 2, delete |-> 1, crash |-> 1, fail |-> 1]),
      \* pools that share objects come and go
      Workload([create |-> 2, delete |-> 2]),
      \* allocations, changed and changed back
      Workload([create |-> 1, alloc |-> 2, dealloc |-> 1]),
      Workload([create |-> 1, delete |-> 1, alloc |-> 1, ledger |-> 1]),
      \* quarantine
      Workload([create |-> 2, delete |-> 1, quarantine |-> 1, clear |-> 1]) }
=============================================================================
