---------------------------- MODULE MCPromMetrics ----------------------------
(* Instances of PromMetrics for TLC. *)
EXTENDS PromMetrics
Symmetry == Permutations(Requests)
==============================================================================
