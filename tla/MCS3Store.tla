----------------------------- MODULE MCS3Store -----------------------------
(* Instances of S3Store for TLC. *)
EXTENDS S3Store, TLC

CONSTANTS c1, c2, l1

ClientSymmetry == Permutations(Clients)
============================================================================
