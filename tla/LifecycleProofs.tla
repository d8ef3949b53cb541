-------------------------- MODULE LifecycleProofs --------------------------
(***************************************************************************)
(* The lifecycle of a structure is safe for every number of callers,       *)
(* schemas and late creates.                                               *)
(*                                                                         *)
(* The argument is that the object's metadata never changes once there is  *)
(* one, so that what a caller found out stays true.  Inductive is only the *)
(* conjunction of the properties with what callers between two requests    *)
(* know (Knows) and with the fact that nobody has a handle on an absent    *)
(* object (Grounded).                                                      *)
(***************************************************************************)
EXTENDS Lifecycle, TLAPS

Grounded == object = Absent => handles = {} /\ creations = 0

Knows(c) ==
    /\ pc[c] = "probe" => op[c] = "open_or_create"
    /\ pc[c] = "create" => op[c] \in {"create", "open_or_create"}
    /\ pc[c] = "read" => op[c] \in {"open", "open_or_create"}
    /\ pc[c] = "read" /\ op[c] = "open_or_create" => object # Absent
    /\ pc[c] # "idle" => result[c] = "none"

LifecycleInv ==
    /\ TypeOK
    /\ Grounded
    /\ HandlesAgree
    /\ OneCreator
    /\ VerdictsHold
    /\ \A c \in Clients : Knows(c)

----------------------------------------------------------------------------

\* The initial states satisfy the invariant.
LEMMA InitInv == Init => LifecycleInv
BY LifecycleAssumption
DEF Init, LifecycleInv, TypeOK, Grounded, HandlesAgree, OneCreator,
    VerdictsHold, Knows, Ops, Results

\* A caller's step that leaves the object alone, returns a true verdict or
\* none, and hands out a handle only for the object's own schema.
LEMMA CallerStep ==
    ASSUME LifecycleInv, TypeOK', NEW c \in Clients,
           UNCHANGED <<object, creations>>,
           \A d \in Clients \ {c} : /\ pc'[d] = pc[d]
                                    /\ op'[d] = op[d]
                                    /\ schema'[d] = schema[d]
                                    /\ result'[d] = result[d],
           Knows(c)',
           handles' \in {handles, handles \cup ({object} \ {Absent})},
           op'[c] = "open_or_create"
             => result'[c] \notin {"not_found", "already_exists"},
           result'[c] = "already_exists" => object # Absent,
           result'[c] = "incompatible" => object \notin {Absent, schema'[c]}
    PROVE  LifecycleInv'
<1>1. Grounded' /\ HandlesAgree' /\ OneCreator'
  BY DEF LifecycleInv, Grounded, HandlesAgree, OneCreator
<1>2. VerdictsHold'
  BY DEF LifecycleInv, VerdictsHold
<1>3. \A d \in Clients : Knows(d)'
  BY DEF LifecycleInv, Knows
<1> QED
  BY <1>1, <1>2, <1>3 DEF LifecycleInv

\* Call.
LEMMA CallStep ==
    ASSUME LifecycleInv, NEW c \in Clients, Call(c)
    PROVE  LifecycleInv'
<1>1. TypeOK'
  BY DEF LifecycleInv, TypeOK, Call, Goto, Ops, Results
<1>2. Knows(c)' /\ result'[c] = "none"
  BY DEF LifecycleInv, TypeOK, Call, Goto, Knows, Ops
<1>3. \A d \in Clients \ {c} : /\ pc'[d] = pc[d] /\ op'[d] = op[d]
                               /\ schema'[d] = schema[d]
                               /\ result'[d] = result[d]
  BY DEF LifecycleInv, TypeOK, Call, Goto
<1> QED
  BY <1>1, <1>2, <1>3, CallerStep DEF Call

\* The first get of open_or_create.
LEMMA ProbeStep ==
    ASSUME LifecycleInv, NEW c \in Clients, Probe(c)
    PROVE  LifecycleInv'
<1>1. TypeOK'
  BY DEF LifecycleInv, TypeOK, Probe, Goto
<1>2. Knows(c)' /\ result'[c] = "none"
  BY DEF LifecycleInv, TypeOK, Probe, Goto, Knows
<1>3. \A d \in Clients \ {c} : /\ pc'[d] = pc[d] /\ op'[d] = op[d]
                               /\ schema'[d] = schema[d]
                               /\ result'[d] = result[d]
  BY DEF LifecycleInv, TypeOK, Probe, Goto
<1> QED
  BY <1>1, <1>2, <1>3, CallerStep DEF Probe

\* The validating get of open and open_or_create.
LEMMA ReadStep ==
    ASSUME LifecycleInv, NEW c \in Clients, Read(c)
    PROVE  LifecycleInv'
<1>1. TypeOK'
  BY DEF LifecycleInv, TypeOK, Read, Return, Goto, Results
<1>2. Knows(c)'
  BY DEF LifecycleInv, TypeOK, Read, Return, Goto, Knows
<1>3. \A d \in Clients \ {c} : /\ pc'[d] = pc[d] /\ op'[d] = op[d]
                               /\ schema'[d] = schema[d]
                               /\ result'[d] = result[d]
  BY DEF LifecycleInv, TypeOK, Read, Return, Goto
<1>4. handles' \in {handles, handles \cup ({object} \ {Absent})}
  BY LifecycleAssumption
  DEF LifecycleInv, TypeOK, Grounded, Read, Return, Validates
<1>5. op[c] = "open_or_create" => object # Absent
  BY DEF LifecycleInv, Knows, Read
<1>6. /\ object = Absent => result'[c] = "not_found"
      /\ object # Absent => result'[c] \in {"ok", "incompatible"}
      /\ result'[c] = "incompatible" => object # schema[c]
  BY DEF LifecycleInv, TypeOK, Read, Return, Validates
<1>7. op' = op /\ schema' = schema /\ object' = object
  BY DEF Read
<1> QED
  BY <1>1, <1>2, <1>3, <1>4, <1>5, <1>6, <1>7, CallerStep DEF Read

\* store.create finds an object.
LEMMA CreateRefusedStep ==
    ASSUME LifecycleInv, NEW c \in Clients, CreateRefused(c)
    PROVE  LifecycleInv'
<1>1. TypeOK'
  BY DEF LifecycleInv, TypeOK, CreateRefused, Return, Goto, Results
<1>2. Knows(c)'
  BY DEF LifecycleInv, TypeOK, CreateRefused, Return, Goto, Knows, Vacant
<1>3. \A d \in Clients \ {c} : /\ pc'[d] = pc[d] /\ op'[d] = op[d]
                               /\ schema'[d] = schema[d]
                               /\ result'[d] = result[d]
  BY DEF LifecycleInv, TypeOK, CreateRefused, Return, Goto
<1>4. /\ handles' = handles
      /\ result'[c] = IF op[c] = "create" THEN "already_exists" ELSE "none"
  BY DEF LifecycleInv, TypeOK, Knows, CreateRefused, Return
<1> QED
  BY <1>1, <1>2, <1>3, <1>4, CallerStep DEF CreateRefused, Vacant

\* A create that is lost, or a request that fails.
LEMMA StoreErrorStep ==
    ASSUME LifecycleInv, NEW c \in Clients, CreateLost(c) \/ StoreFails(c)
    PROVE  LifecycleInv'
<1>1. TypeOK'
  BY DEF LifecycleInv, TypeOK, CreateLost, StoreFails, Return, Goto, Results
<1>2. Knows(c)'
  BY DEF LifecycleInv, TypeOK, CreateLost, StoreFails, Return, Goto, Knows
<1>3. \A d \in Clients \ {c} : /\ pc'[d] = pc[d] /\ op'[d] = op[d]
                               /\ schema'[d] = schema[d]
                               /\ result'[d] = result[d]
  BY DEF LifecycleInv, TypeOK, CreateLost, StoreFails, Return, Goto
<1>4. handles' = handles /\ result'[c] = "store"
  BY DEF LifecycleInv, TypeOK, CreateLost, StoreFails, Return
<1> QED
  BY <1>1, <1>2, <1>3, <1>4, CallerStep DEF CreateLost, StoreFails

\* A create that puts the empty document at an absent location.
LEMMA CreateAppliedStep ==
    ASSUME LifecycleInv, NEW c \in Clients, CreateApplied(c)
    PROVE  LifecycleInv'
<1>1. object = Absent /\ handles = {} /\ creations = 0
  BY DEF LifecycleInv, Grounded, CreateApplied, Vacant
<1>2. TypeOK'
  BY DEF LifecycleInv, TypeOK, CreateApplied, Return, Goto, Results
<1>3. object' = schema[c] /\ handles' = {schema[c]} /\ creations' = 1
  BY <1>1 DEF CreateApplied, Return
<1>4. object' # Absent
  BY <1>3, LifecycleAssumption DEF LifecycleInv, TypeOK
<1>5. \A d \in Clients : result[d] \notin {"already_exists", "incompatible"}
  BY <1>1 DEF LifecycleInv, VerdictsHold
<1>6. \A d \in Clients : result'[d] = IF d = c THEN "ok" ELSE result[d]
  BY DEF LifecycleInv, TypeOK, CreateApplied, Return
<1>7. VerdictsHold'
  BY <1>5, <1>6 DEF LifecycleInv, VerdictsHold, CreateApplied
<1>8. \A d \in Clients : Knows(d)'
  BY <1>4, <1>6 DEF LifecycleInv, TypeOK, Knows, CreateApplied, Return, Goto
<1>9. Grounded' /\ HandlesAgree' /\ OneCreator'
  BY <1>3, <1>4 DEF Grounded, HandlesAgree, OneCreator
<1> QED
  BY <1>2, <1>7, <1>8, <1>9 DEF LifecycleInv

\* A create request that nobody waits for reaches the store.
LEMMA LateCreateStep ==
    ASSUME LifecycleInv, NEW s \in Schemas, LateCreate(s)
    PROVE  LifecycleInv'
<1>1. TypeOK'
  BY DEF LifecycleInv, TypeOK, LateCreate
<1>2. object' # Absent /\ (object # Absent => object' = object)
  BY LifecycleAssumption DEF LateCreate, Vacant
<1>3. Grounded' /\ HandlesAgree' /\ OneCreator'
  BY <1>2 DEF LifecycleInv, Grounded, HandlesAgree, OneCreator, LateCreate
<1>4. VerdictsHold'
  BY <1>2 DEF LifecycleInv, VerdictsHold, LateCreate
<1>5. \A d \in Clients : Knows(d)'
  BY <1>2 DEF LifecycleInv, Knows, LateCreate
<1> QED
  BY <1>1, <1>3, <1>4, <1>5 DEF LifecycleInv

\* Every step keeps the invariant.
LEMMA NextInv == LifecycleInv /\ [Next]_vars => LifecycleInv'
<1> SUFFICES ASSUME LifecycleInv, [Next]_vars
             PROVE  LifecycleInv'
  OBVIOUS
<1>1. CASE UNCHANGED vars
  BY <1>1 DEF vars, LifecycleInv, TypeOK, Grounded, HandlesAgree, OneCreator,
              VerdictsHold, Knows
<1>2. CASE Next
  BY <1>2, CallStep, ProbeStep, ReadStep, CreateRefusedStep,
     CreateAppliedStep, StoreErrorStep, LateCreateStep DEF Next
<1> QED
  BY <1>1, <1>2

----------------------------------------------------------------------------

\* The invariant holds in every reachable state.
THEOREM LifecycleInvariance == Spec => []LifecycleInv
<1> QED
  BY InitInv, NextInv, PTL DEF Spec

\* Of any number of racing create, open and open_or_create calls, all that
\* return a handle agree with the object, and so with each other, on the
\* schema.
THEOREM SchemasAgree == Spec => []HandlesAgree
<1>1. LifecycleInv => HandlesAgree
  BY DEF LifecycleInv
<1> QED
  BY <1>1, LifecycleInvariance, PTL

\* At most one create returns Ok.
THEOREM CreatedOnce == Spec => []OneCreator
<1>1. LifecycleInv => OneCreator
  BY DEF LifecycleInv
<1> QED
  BY <1>1, LifecycleInvariance, PTL

\* AlreadyExists, NotFound and Incompatible are reported only when they are
\* true, and stay true until the caller's next call.
THEOREM VerdictsTrue == Spec => []VerdictsHold
<1>1. LifecycleInv => VerdictsHold
  BY DEF LifecycleInv
<1> QED
  BY <1>1, LifecycleInvariance, PTL
============================================================================
