----------------------------- MODULE MCBinding -----------------------------
(* Instances of Binding for TLC. *)
EXTENDS Binding, TLC

CONSTANTS t1, t2, t3

TaskSymmetry == Permutations(Tasks)
============================================================================
