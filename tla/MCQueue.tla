------------------------------ MODULE MCQueue ------------------------------
(***************************************************************************)
(* Instances of Queue for TLC.                                             *)
(***************************************************************************)
EXTENDS Queue

CONSTANTS w1, w2, p1, p2, t1, t2, t3

TwoProcesses == (w1 :> p1) @@ (w2 :> p2)

\* The processes can be exchanged together with their workers.
Same == [x \in Workers \cup Processes |-> x]

Swap == (w1 :> w2) @@ (w2 :> w1) @@ (p1 :> p2) @@ (p2 :> p1)

QueueSymmetry == {f @@ g : f \in Permutations(Tokens), g \in {Same, Swap}}
============================================================================
