------------------------- MODULE MCClusterLifecycle -------------------------
(* Small instances of ClusterLifecycle for TLC. *)
EXTENDS ClusterProperties, TLC

\* Spec bodies without a ttl are interchangeable.
Symmetry == Permutations(Bodies)

\* A workload: as many events of each kind it names, and none of any other.
Workload(w) == [k \in Kinds |-> IF k \in DOMAIN w THEN w[k] ELSE 0]

NoTtl == [b \in Bodies |-> NoTime]

AllExpire == [b \in Bodies |-> 1]

-----------------------------------------------------------------------------
(* Workloads of the runs that pass. *)

LifecycleWorkloads ==
    { \* commands, faults, a crash and the clock around one cluster
      Workload([create |-> 2, delete |-> 1, error |-> 1, crash |-> 1,
                world |-> 1, clock |-> 1]),
      \* every call answered: time, tampering, failing pods, no tokens
      Workload([create |-> 2, delete |-> 1, world |-> 1, clock |-> 2]),
      Workload([create |-> 2, delete |-> 1, degrade |-> 1, defer |-> 1,
                clock |-> 1]),
      \* suspension, by the user and by the queue
      Workload([create |-> 2, suspend |-> 1, resume |-> 1, alloc |-> 2,
                world |-> 1, error |-> 1]),
      \* a restored database behind clusters that moved on, one of them
      \* suspended
      Workload([create |-> 3, backup |-> 1, restore |-> 1, world |-> 1]),
      \* the fence, through a crash, until the operator lifts it
      Workload([create |-> 3, delete |-> 1, backup |-> 1, restore |-> 1,
                crash |-> 1, clear |-> 1]) }

ConvergeWorkloads ==
    { \* commands around a fault, a crash and tampering
      Workload([create |-> 2, delete |-> 1, error |-> 1, crash |-> 1,
                world |-> 1]),
      \* every call answered, until the sweep has removed the row
      Workload([create |-> 1, delete |-> 1, world |-> 1, clock |-> 2]),
      \* a queue that appears and goes
      Workload([create |-> 2, alloc |-> 2, world |-> 1]) }

RetireWorkloads ==
    { \* tombstones
      Workload([create |-> 2, delete |-> 1, error |-> 1, world |-> 1,
                clock |-> 2]),
      \* suspension
      Workload([create |-> 1, suspend |-> 1, resume |-> 1, world |-> 1,
                clock |-> 1]),
      \* expiry, with rows that vanish
      Workload([create |-> 2, purge |-> 1, delete |-> 1, error |-> 1,
                clock |-> 1]) }

-----------------------------------------------------------------------------
(* Workloads of the runs that refute a statement about the code. *)

OwnerWorkloads == { Workload([create |-> 2, error |-> 1]) }
PurgeWorkloads == { Workload([create |-> 1, delete |-> 1, purge |-> 1]) }
RecreateWorkloads == { Workload([create |-> 2, delete |-> 1]) }
DegradedWorkloads == { Workload([create |-> 2, degrade |-> 1]) }
=============================================================================
