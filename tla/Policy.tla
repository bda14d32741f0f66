------------------------------- MODULE Policy -------------------------------
(***************************************************************************)
(* Governance arithmetic: resource maps, the demand of a cluster, quota    *)
(* and budget admission, prices (mobula-policy/src/lib.rs) and the usage   *)
(* integral (mobula-policy/src/usage.rs).  Pure operators only.            *)
(*                                                                         *)
(* A resource map is a function from some resource names to amounts: cpu   *)
(* and gpu in thousandths, memory in MiB.  A missing name means zero.      *)
(***************************************************************************)
EXTENDS Capacity

Amount(m, k) == IF k \in DOMAIN m THEN m[k] ELSE 0

AddMaps(a, b) ==
    [k \in DOMAIN a \cup DOMAIN b |-> Amount(a, k) + Amount(b, k)]

Scale(m, n) == [k \in DOMAIN m |-> m[k] * n]

\* A resource the limit does not list has limit 0.
FitsWithin(m, limit) == \A k \in DOMAIN m : m[k] <= Amount(limit, k)

-----------------------------------------------------------------------------
(* Demand.  A spec is [project, cpu, memory, groups]; a worker group is    *)
(* [cpu, memory, gpu, min, max], with quantities as in Quantity.           *)

HeadUnit(s) ==
    [k \in {"cpu", "memory"} |->
        IF k = "cpu" THEN CpuMilli(s.cpu) ELSE MemMi(s.memory)]

WorkerUnit(g) ==
    LET base == [k \in {"cpu", "memory"} |->
                    IF k = "cpu" THEN CpuMilli(g.cpu) ELSE MemMi(g.memory)]
    IN  IF GpuMilli(g.gpu) = 0 THEN base
        ELSE Put(base, "nvidia.com/gpu", GpuMilli(g.gpu))

Parses(unit) == \A k \in DOMAIN unit : unit[k] # Bad

\* Err(..) of cluster_demand: a quantity that does not parse, or min > max.
DemandOk(s) ==
    /\ Parses(HeadUnit(s))
    /\ \A i \in DOMAIN s.groups :
        Parses(WorkerUnit(s.groups[i])) /\ s.groups[i].min <= s.groups[i].max

\* The head, and of each group as many workers as its "min" or "max" says.
DemandAt(s, size) ==
    FoldLeft(LAMBDA acc, g : AddMaps(acc, Scale(WorkerUnit(g), g[size])),
             HeadUnit(s), s.groups)
MinDemand(s) == DemandAt(s, "min")
MaxDemand(s) == DemandAt(s, "max")

GpusOf(s) == {s.groups[i].gpu : i \in DOMAIN s.groups}

\* Admission: what is in use and what is requested fit together.
Admit(limit, inUse, requested) == FitsWithin(AddMaps(inUse, requested), limit)

\* A budget is [window, limits].  It admits while every capped resource has
\* been consumed strictly below its cap.
AdmitBudget(budget, consumed) ==
    \A r \in DOMAIN budget.limits : Amount(consumed, r) < budget.limits[r]

\* A resource without a price is free.
Price(sheet, m) ==
    MapThenSumSet(LAMBDA k : m[k] * Amount(sheet, k), DOMAIN m)

\* Hourly cost at the smallest and at the largest size.
Estimate(sheet, s) ==
    [min |-> Price(sheet, MinDemand(s)), max |-> Price(sheet, MaxDemand(s))]

-----------------------------------------------------------------------------
(* Usage.  A sample is [ts, project, pool, resource, quantity]; a series   *)
(* is the sequence of the samples of one project, pool and resource.       *)
(* Hours are counted in units of amount x second.                          *)

\* Stable sort by timestamp.
ByTime(series, to) ==
    FoldLeft(LAMBDA acc, t : acc \o SelectSeq(series, LAMBDA s : s.ts = t),
             << >>, [i \in 1 .. to + 1 |-> i - 1])

\* Mutant: readings at the start of the window are not carried in.
ResourceHoursNoCarry(series, from, to) ==
    IF from >= to THEN 0
    ELSE LET Step(acc, s) ==
                IF s.ts <= from \/ s.ts >= to THEN acc
                ELSE [level |-> s.quantity, cursor |-> s.ts,
                      sum |-> acc.sum + acc.level * (s.ts - acc.cursor)]
             end == FoldLeft(Step, [level |-> 0, cursor |-> from, sum |-> 0],
                             ByTime(series, to))
         IN  end.sum + end.level * (to - end.cursor)

\* A sample's quantity holds until the next sample; the last one at or before
\* the window's start is carried in.
ResourceHours(series, from, to) ==
    IF from >= to THEN 0
    ELSE LET Step(acc, s) ==
                IF s.ts <= from THEN [acc EXCEPT !.level = s.quantity]
                ELSE IF s.ts >= to THEN acc
                ELSE [level |-> s.quantity, cursor |-> s.ts,
                      sum |-> acc.sum + acc.level * (s.ts - acc.cursor)]
             end == FoldLeft(Step, [level |-> 0, cursor |-> from, sum |-> 0],
                             ByTime(series, to))
         IN  end.sum + end.level * (to - end.cursor)

Series(samples, project, pool, r) ==
    SelectSeq(samples, LAMBDA s : s.project = project /\ s.pool = pool
                                  /\ s.resource = r)

\* Mutant: the readings of all pools make one series.
WindowedHoursInterleaved(samples, project, from, to) ==
    LET mine == SelectSeq(samples, LAMBDA s : s.project = project)
    IN  [r \in {mine[i].resource : i \in DOMAIN mine} |->
            ResourceHours(SelectSeq(mine, LAMBDA s : s.resource = r), from, to)]

\* Consumption of a project by resource: the pools are integrated apart.
WindowedHours(samples, project, from, to) ==
    LET mine == SelectSeq(samples, LAMBDA s : s.project = project)
    IN  [r \in {mine[i].resource : i \in DOMAIN mine} |->
            MapThenSumSet(
                LAMBDA p : ResourceHours(Series(mine, project, p, r), from, to),
                {mine[i].pool : i \in DOMAIN mine})]
=============================================================================
