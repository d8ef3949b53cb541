------------------------------ MODULE S3Store ------------------------------
(***************************************************************************)
(* The S3 adapter (crates/objsds-store-s3): a get is one GET, a create a   *)
(* PUT with If-None-Match "*", a replace a PUT with If-Match.  When the    *)
(* service refuses the condition, a second GET finds the version to        *)
(* report.  Answers get lost, requests arrive after their caller gave up,  *)
(* objects are deleted by others, and the service may answer 409 to one    *)
(* of two competing conditional writes.                                    *)
(*                                                                         *)
(* An ETag is a hash of the object's content: equal contents have equal    *)
(* versions, so an object is known by its ETag, a positive number; 0       *)
(* stands for an absent object.  The service is modelled from the answers  *)
(* the adapter distinguishes.                                              *)
(***************************************************************************)
EXTENDS Naturals

CONSTANTS
    Clients,      \* threads that call the adapter
    Locations,    \* keys in the bucket
    Contents      \* contents that callers write, and so also ETags

ASSUME S3Assumption == Contents \subseteq Nat \ {0}

VARIABLES
    object,   \* the ETag of the object under each key
    used,     \* ETags that some object has had
    pc,       \* where each client stands
    call,     \* the local variables of its call
    late      \* a PUT of each client that was given up but may still arrive

vars == <<object, used, pc, call, late>>

----------------------------------------------------------------------------

Writes == {"create", "replace"}

Statuses == {0, 200, 404, 409, 412}

Requests == [op : Writes \cup {"none", "get"}, at : Locations,
             expected : Contents \cup {0}, body : Contents \cup {0}]

Calls == [request : Requests, status : Statuses,
          result : {"none", "ok", "refused", "error"},
          seen : Contents \cup {0}]

NoRequest(l) == [op |-> "none", at |-> l, expected |-> 0, body |-> 0]

Idle(r) == [request |-> r, status |-> 0, result |-> "none", seen |-> 0]

Goto(c, label) == pc' = [pc EXCEPT ![c] = label]

Return(c, result, seen) ==
    /\ Goto(c, "done")
    /\ call' = [call EXCEPT ![c].result = result, ![c].seen = seen,
                            ![c].status = 0, ![c].request.body = 0]

\* The object that the client's call is about.
Found(c) == object[call[c].request.at]

Init ==
    /\ object = [l \in Locations |-> 0]
    /\ used = {}
    /\ pc = [c \in Clients |-> "idle"]
    /\ \E l \in Locations :
         /\ call = [c \in Clients |-> Idle(NoRequest(l))]
         /\ late = [c \in Clients |-> NoRequest(l)]

----------------------------------------------------------------------------
(* The service *)

\* If-None-Match "*" of a create, If-Match of a replace.
Holds(r) ==
    IF r.op = "create" THEN object[r.at] = 0 ELSE object[r.at] = r.expected

\* Another PUT of the same object is under way.
Contended(c) ==
    \/ \E d \in Clients \ {c} : /\ pc[d] = "sent"
                                /\ call[d].request.op \in Writes
                                /\ call[d].request.at = call[c].request.at
    \/ \E d \in Clients : /\ late[d].op # "none"
                          /\ late[d].at = call[c].request.at

Put(r) ==
    /\ Holds(r)
    /\ object' = [object EXCEPT ![r.at] = r.body]
    /\ used' = used \cup {r.body}

\* The statuses of a PUT whose condition does not hold.
Refusals(c) ==
    {s \in {404, 412} :
        \/ s = 404 /\ call[c].request.op = "replace" /\ Found(c) = 0
        \/ s = 412 /\ ~Holds(call[c].request) /\ Found(c) # 0}

\* The service handles a PUT and answers.
Serve(c) ==
    /\ pc[c] = "sent"
    /\ call[c].request.op \in Writes
    /\ Goto(c, "answered")
    /\ \/ /\ Put(call[c].request)
          /\ call' = [call EXCEPT ![c].status = 200]
       \/ /\ \E s \in Refusals(c) : call' = [call EXCEPT ![c].status = s]
          /\ UNCHANGED <<object, used>>
    /\ UNCHANGED late

\* The service answers 409 to one of two competing PUTs, without looking at
\* its condition.
Compete(c) ==
    /\ pc[c] = "sent"
    /\ call[c].request.op \in Writes
    /\ Contended(c)
    /\ Goto(c, "answered")
    /\ call' = [call EXCEPT ![c].status = 409]
    /\ UNCHANGED <<object, used, late>>

\* A PUT whose caller gave up arrives, or never does.
LateArrival(c) ==
    /\ late[c].op # "none"
    /\ late' = [late EXCEPT ![c] = NoRequest(late[c].at)]
    /\ Put(late[c]) \/ UNCHANGED <<object, used>>
    /\ UNCHANGED <<pc, call>>

\* An operator or an expiry rule deletes the object.
Delete(l) ==
    /\ object[l] # 0
    /\ object' = [object EXCEPT ![l] = 0]
    /\ UNCHANGED <<used, pc, call, late>>

----------------------------------------------------------------------------
(* The adapter *)

Start(c) ==
    /\ pc[c] = "idle"
    /\ \E op \in Writes \cup {"get"}, l \in Locations,
          v \in used \cup {0}, body \in Contents \cup {0} :
         /\ op = "replace" <=> v # 0
         /\ op \in Writes <=> body # 0
         /\ call' = [call EXCEPT ![c] =
                       Idle([op |-> op, at |-> l, expected |-> v,
                             body |-> body])]
    /\ Goto(c, "sent")
    /\ UNCHANGED <<object, used, late>>

\* get: 404 is Ok(None), otherwise the object and its ETag.
Get(c) ==
    /\ pc[c] = "sent"
    /\ call[c].request.op = "get"
    /\ Return(c, "ok", Found(c))
    /\ UNCHANGED <<object, used, late>>

\* The statuses that create and replace take for a failed condition.
ConditionFailed(c) ==
    call[c].status \in IF call[c].request.op = "create" THEN {409, 412}
                                                        ELSE {404, 409, 412}

\* The answer to the PUT arrives.
Receive(c) ==
    /\ pc[c] = "answered"
    /\ \/ /\ call[c].status = 200
          /\ Return(c, "ok", call[c].request.body)
       \/ /\ ConditionFailed(c)
          /\ Goto(c, "inspect")
          /\ call' = call
    /\ UNCHANGED <<object, used, late>>

\* observed(): the GET after a failed condition.  A create that then finds
\* no object returns the service's error.
Inspect(c) ==
    /\ pc[c] = "inspect"
    /\ IF call[c].request.op = "create" /\ Found(c) = 0
         THEN Return(c, "error", 0)
         ELSE Return(c, "refused", Found(c))
    /\ UNCHANGED <<object, used, late>>

\* Any request fails: connection, 5xx, or an answer without an ETag.
Fail(c) ==
    /\ pc[c] \in {"sent", "answered", "inspect"}
    /\ Return(c, "error", 0)
    /\ UNCHANGED <<object, used, late>>

\* Faulty variant: a lost answer is taken for a failed condition.
LoseAnswerAsConflict(c) ==
    /\ pc[c] = "sent"
    /\ call[c].request.op \in Writes
    /\ late[c].op = "none"
    /\ late' = [late EXCEPT ![c] = call[c].request]
    /\ Goto(c, "inspect")
    /\ UNCHANGED <<object, used, call>>

\* The connection breaks while the PUT is on its way.
LoseAnswer(c) ==
    /\ pc[c] = "sent"
    /\ call[c].request.op \in Writes
    /\ late[c].op = "none"
    /\ late' = [late EXCEPT ![c] = call[c].request]
    /\ Return(c, "error", 0)
    /\ UNCHANGED <<object, used>>

\* The caller takes the result, or its process dies.
Leave(c) ==
    /\ pc[c] # "idle"
    /\ Goto(c, "idle")
    /\ call' = [call EXCEPT ![c] = Idle(NoRequest(call[c].request.at))]
    /\ UNCHANGED <<object, used, late>>

Next ==
    \/ \E c \in Clients :
         \/ Start(c) \/ Get(c) \/ Serve(c) \/ Compete(c) \/ Receive(c)
         \/ Inspect(c) \/ Fail(c) \/ LoseAnswer(c) \/ LateArrival(c)
         \/ Leave(c)
    \/ \E l \in Locations : Delete(l)

Spec == Init /\ [][Next]_vars

----------------------------------------------------------------------------
(* Properties *)

\* Types of the adapter's state.
TypeOK ==
    /\ object \in [Locations -> Contents \cup {0}]
    /\ used \subseteq Contents
    /\ pc \in [Clients -> {"idle", "sent", "answered", "inspect", "done"}]
    /\ call \in [Clients -> Calls]
    /\ late \in [Clients -> Requests]

Status(c) ==
    CASE pc[c] = "sent"    -> "pending"
      [] pc[c] = "done"    -> call[c].result
      [] pc[c] = "idle"    -> "idle"
      [] pc[c] = "answered" /\ call[c].status = 200 -> "applied"
      [] OTHER             -> "denied"

\* The call of client c, and its abandoned PUT, as the contract sees them.
View(c) ==
    [op |-> call[c].request.op, at |-> call[c].request.at,
     expected |-> call[c].request.expected, status |-> Status(c),
     seen |-> IF pc[c] = "answered" /\ call[c].status = 200
                THEN call[c].request.body ELSE call[c].seen]

LateView(c) ==
    [op |-> late[c].op, at |-> late[c].at, expected |-> late[c].expected]

Contract == INSTANCE ObjectStore WITH
    Versions <- Contents,
    FreshVersions <- FALSE,
    call <- [c \in Clients |-> View(c)],
    late <- [c \in Clients |-> LateView(c)]

\* The adapter keeps the contract of the ObjectStore trait, but for the answer
\* 409, whose only effect is that the PUT is refused: a write that is reported
\* refused has no effect, then or later, one that is reported Ok had its effect
\* exactly once and under its condition, and only a Store error leaves it open,
\* although the verdict takes two requests between which others write, delete
\* and restore the object.  Without 409 a refusal also means, as the contract
\* says, that the condition did not hold; what 409 does to that is the subject
\* of S3Conflicts.
Linearizable ==
    /\ Contract!Init
    /\ [][Contract!Next \/ \E c \in Clients : Compete(c)]_(Contract!vars)
============================================================================
