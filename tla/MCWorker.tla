------------------------------ MODULE MCWorker ------------------------------
(* Instances of Worker for TLC. *)
EXTENDS Worker

CONSTANTS w1, w2, w3
=============================================================================
