----------------------------- MODULE Lifecycle -----------------------------
(***************************************************************************)
(* create, open and open_or_create of Map, Log and Queue on one location,  *)
(* called by clients that do not know of each other and may ask for        *)
(* different schemas.  crates/objsds/src/lifecycle.rs serves Map and Log;  *)
(* crates/objsds-queue has its own copy of the same protocol.              *)
(*                                                                         *)
(* Abstractions.  The kind is part of the location, so the object is known *)
(* by its schema; Foreign stands for bytes that do not decode or carry     *)
(* another kind or format version.  Mutations through a handle keep the    *)
(* metadata and are the business of Map, Log and Queue.  A builder that    *)
(* finish() refuses does no I/O and is left out.                           *)
(***************************************************************************)
EXTENDS Naturals, FiniteSets

CONSTANTS
    Clients,     \* callers
    Schemas,     \* schema identifiers they ask for
    Foreign,     \* an object no structure of this kind and format wrote
    Absent,      \* no object
    MaxInFlight  \* bound: create requests without a waiting caller

ASSUME LifecycleAssumption ==
    /\ Foreign \notin Schemas /\ Absent \notin Schemas /\ Foreign # Absent
    /\ MaxInFlight \in Nat

VARIABLES
    object,    \* the metadata of the object at the location
    pc,        \* where each client stands
    op,        \* the operation it called
    schema,    \* the schema it asked for
    result,    \* what its last call returned
    inflight,  \* create requests whose answer was lost: a bag of schemas
    handles,   \* history: schemas of the handles that were returned
    creations  \* history: creates whose Ok reached the caller

vars == <<object, pc, op, schema, result, inflight, handles, creations>>

Ops == {"create", "open", "open_or_create"}

Results == {"none", "ok", "already_exists", "not_found", "incompatible",
            "store"}

Init ==
    /\ object \in {Absent, Foreign}
    /\ pc = [c \in Clients |-> "idle"]
    /\ op = [c \in Clients |-> "open"]
    /\ schema \in [Clients -> Schemas]
    /\ result = [c \in Clients |-> "none"]
    /\ inflight = [s \in Schemas |-> 0]
    /\ handles = {}
    /\ creations = 0

Goto(c, label) == pc' = [pc EXCEPT ![c] = label]

Return(c, r) ==
    /\ Goto(c, "idle")
    /\ result' = [result EXCEPT ![c] = r]
    /\ handles' = IF r = "ok" THEN handles \cup {schema[c]} ELSE handles

\* A call begins.
Call(c) ==
    /\ pc[c] = "idle"
    /\ \E o \in Ops, s \in Schemas :
         /\ op' = [op EXCEPT ![c] = o]
         /\ schema' = [schema EXCEPT ![c] = s]
         /\ Goto(c, CASE o = "create" -> "create"
                      [] o = "open"   -> "read"
                      [] OTHER        -> "probe")
    /\ result' = [result EXCEPT ![c] = "none"]
    /\ UNCHANGED <<object, inflight, handles, creations>>

\* open_or_create: the first get only asks whether there is an object.
Probe(c) ==
    /\ pc[c] = "probe"
    /\ Goto(c, IF object # Absent THEN "read" ELSE "create")
    /\ UNCHANGED <<object, op, schema, result, inflight, handles,
                   creations>>

\* Faulty variant: read() does not compare the schema.
ValidatesAnySchema(c) == object # Foreign

\* from_slice and validate: kind, format version and schema must match.
Validates(c) == object = schema[c]

\* open, and the validating read of open_or_create.
Read(c) ==
    /\ pc[c] = "read"
    /\ Return(c, IF object = Absent THEN "not_found"
                 ELSE IF Validates(c) THEN "ok" ELSE "incompatible")
    /\ UNCHANGED <<object, op, schema, inflight, creations>>

\* Faulty variant: a put without If-None-Match.
AlwaysVacant == TRUE

Vacant == object = Absent

\* Faulty variant: open_or_create reports the race it lost.
CreateRefusedAlways(c) ==
    /\ pc[c] = "create"
    /\ ~Vacant
    /\ Return(c, "already_exists")
    /\ UNCHANGED <<object, op, schema, inflight, creations>>

\* store.create finds an object: create reports it, open_or_create reads the
\* winner's object.
CreateRefused(c) ==
    /\ pc[c] = "create"
    /\ ~Vacant
    /\ IF op[c] = "create" THEN Return(c, "already_exists")
       ELSE Goto(c, "read") /\ UNCHANGED <<result, handles>>
    /\ UNCHANGED <<object, op, schema, inflight, creations>>

\* store.create puts the empty document.
CreateApplied(c) ==
    /\ pc[c] = "create"
    /\ Vacant
    /\ object' = schema[c]
    /\ creations' = creations + 1
    /\ Return(c, "ok")
    /\ UNCHANGED <<op, schema, inflight>>

\* The create request left but its answer is lost: Error::Store.
CreateLost(c) ==
    /\ pc[c] = "create"
    /\ \A s \in Schemas : inflight[s] < MaxInFlight
    /\ inflight' = [inflight EXCEPT ![schema[c]] = @ + 1]
    /\ Return(c, "store")
    /\ UNCHANGED <<object, op, schema, creations>>

\* Such a request reaches the store, after any number of other steps.
LateCreate(s) ==
    /\ inflight[s] > 0
    /\ inflight' = [inflight EXCEPT ![s] = @ - 1]
    /\ object' = IF Vacant THEN s ELSE object
    /\ UNCHANGED <<pc, op, schema, result, handles, creations>>

\* A get, or a create that never left, fails: Error::Store.
StoreFails(c) ==
    /\ pc[c] # "idle"
    /\ Return(c, "store")
    /\ UNCHANGED <<object, op, schema, inflight, creations>>

Next ==
    \/ \E c \in Clients :
         \/ Call(c) \/ Probe(c) \/ Read(c) \/ CreateRefused(c)
         \/ CreateApplied(c) \/ CreateLost(c) \/ StoreFails(c)
    \/ \E s \in Schemas : LateCreate(s)

Spec == Init /\ [][Next]_vars

----------------------------------------------------------------------------
(* Properties *)

\* Types of the lifecycle's state.
TypeOK ==
    /\ object \in Schemas \cup {Foreign, Absent}
    /\ pc \in [Clients -> {"idle", "probe", "read", "create"}]
    /\ op \in [Clients -> Ops]
    /\ schema \in [Clients -> Schemas]
    /\ result \in [Clients -> Results]
    /\ inflight \in [Schemas -> Nat]
    /\ handles \subseteq Schemas
    /\ creations \in Nat

\* Every handle that create, open or open_or_create ever returned has the
\* schema of the stored object, and so all of them have the same one: no race
\* between creators, and no late create, gives two callers different schemas.
HandlesAgree == \A s \in handles : object = s

\* Create-if-absent: however many create, open_or_create and late requests
\* compete, the Ok of at most one create reaches a caller.
OneCreator == creations <= 1

\* The verdicts are true of the object and stay true: open_or_create never
\* reports NotFound or AlreadyExists, AlreadyExists means there is an object,
\* Incompatible that its metadata differs from what was asked.
VerdictsHold ==
    \A c \in Clients :
        /\ op[c] = "open_or_create"
             => result[c] \notin {"not_found", "already_exists"}
        /\ result[c] = "already_exists" => object # Absent
        /\ result[c] = "incompatible" => object \notin {Absent, schema[c]}
============================================================================
