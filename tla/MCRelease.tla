----------------------------- MODULE MCRelease -----------------------------
(* An instance of Release for TLC. *)
EXTENDS Release

CONSTANTS r1, r2
=============================================================================
