---------------------------- MODULE MCLifecycle ----------------------------
(* Instances of Lifecycle for TLC. *)
EXTENDS Lifecycle, TLC

CONSTANTS c1, c2, c3, v1, v2

CallerSymmetry == Permutations(Clients) \cup Permutations(Schemas)
============================================================================
