---------------------------- MODULE S3Conflicts ----------------------------
(***************************************************************************)
(* S3Store with a history: which calls of replace have met, at any moment  *)
(* since they began, an object whose version is not the one they expect.   *)
(* Module S3Store does not depend on it.                                   *)
(***************************************************************************)
EXTENDS S3Store

VARIABLE stale    \* clients whose expected version was not current

Superseded(c) ==
    /\ call[c].request.op = "replace"
    /\ Found(c) # call[c].request.expected

ConflictInit == Init /\ stale = {}

ConflictNext ==
    /\ Next
    /\ stale' = {c \in Clients : /\ pc'[c] # "idle"
                                 /\ c \in stale \/ Superseded(c)'}

ConflictSpec == ConflictInit /\ [][ConflictNext]_<<vars, stale>>

----------------------------------------------------------------------------
(* Properties *)

\* What the trait says of ReplaceError::Conflict, "The expected version is no
\* longer current": whenever a replace returns it, the object had another
\* version, or was absent, at some moment of the call.
ConflictMeansStale ==
    \A c \in Clients :
        /\ pc[c] = "done"
        /\ call[c].request.op = "replace"
        /\ call[c].result = "refused"
        => c \in stale
============================================================================
