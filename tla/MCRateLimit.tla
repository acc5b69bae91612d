----------------------------- MODULE MCRateLimit -----------------------------
(* Instances of RateLimit for TLC; requests are interchangeable. *)
EXTENDS RateLimit, TLC

Symmetry == Permutations(Connections)
==============================================================================
