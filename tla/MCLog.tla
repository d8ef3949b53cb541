------------------------------- MODULE MCLog -------------------------------
(* Instances of Log for TLC. *)
EXTENDS Log

CONSTANTS w1, w2, w3, p1, p2

\* w1 and w2 are threads of one process, w3 runs in another.
TwoProcesses == [w \in Writers |-> IF w = w3 THEN p2 ELSE p1]
============================================================================
