------------------------------ MODULE MCMetrics ------------------------------
(* Metrics on small instances. *)
EXTENDS Metrics, TLC

Symmetry == Permutations(Threads)
=============================================================================
