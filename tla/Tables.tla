------------------------------- MODULE Tables -------------------------------
(***************************************************************************)
(* A database table: a function whose domain is the set of keys that have  *)
(* a row.                                                                  *)
(***************************************************************************)

IsTable(t, K, V) == DOMAIN t \subseteq K /\ t \in [DOMAIN t -> V]
EmptyTable == [k \in {} |-> k]
Put(t, k, v) == [x \in DOMAIN t \cup {k} |-> IF x = k THEN v ELSE t[x]]
Drop(t, k) == [x \in DOMAIN t \ {k} |-> t[x]]
=============================================================================
