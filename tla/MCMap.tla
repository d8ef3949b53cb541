------------------------------- MODULE MCMap -------------------------------
(* Instances of Map for TLC. *)
EXTENDS Map, TLC

CONSTANTS w1, w2, k1, k2, x

MapSymmetry == Permutations(Workers) \cup Permutations(Keys)
============================================================================
