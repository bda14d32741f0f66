------------------------- MODULE MCActuationPacing --------------------------
(* Small instances of ActuationPacing for TLC. *)
EXTENDS ActuationPacing, TLC

\* The clusters are interchangeable.
Symmetry == Permutations(Clusters)
=============================================================================
