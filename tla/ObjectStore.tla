---------------------------- MODULE ObjectStore ----------------------------
(***************************************************************************)
(* The contract of the ObjectStore trait (crates/objsds-store): get,       *)
(* create and replace on complete objects take effect at one instant       *)
(* between call and return.  A call may fail with a store error before or  *)
(* after it took effect, a request whose answer was lost may take effect   *)
(* after the call returned that error, and a caller may disappear.         *)
(*                                                                         *)
(* The in-memory reference adapter is this module without errors: each of  *)
(* its operations runs under one mutex.  An object is known by its         *)
(* version; version 0 stands for an absent object.                         *)
(***************************************************************************)
EXTENDS Naturals

CONSTANTS
    Clients, Locations,
    Versions,        \* version tokens
    FreshVersions    \* TRUE: a write never gives an object a used version

VARIABLES
    object,   \* the version of the object at each location
    used,     \* versions that some object has had
    call,     \* the call of each client; its status is idle, pending, denied,
              \* applied, or a result: ok, refused, error
    late      \* an abandoned write of each client that may still arrive

vars == <<object, used, call, late>>

Ops == {"none", "get", "create", "replace"}

Writes == {"create", "replace"}

Idle(l) == [op |-> "none", at |-> l, expected |-> 0, status |-> "idle",
            seen |-> 0]

Requests == [op : Writes \cup {"none"}, at : Locations,
             expected : Versions \cup {0}]

\* The condition of the create or replace r holds for the current object.
Accepts(r) ==
    \/ r.op = "create" /\ object[r.at] = 0
    \/ r.op = "replace" /\ object[r.at] = r.expected /\ r.expected # 0

\* The write r takes effect and gives the object version v.
Takes(r, v) ==
    /\ Accepts(r)
    /\ v \in IF FreshVersions THEN Versions \ used ELSE Versions
    /\ object' = [object EXCEPT ![r.at] = v]
    /\ used' = used \cup {v}

Moves(c, status, seen) ==
    call' = [call EXCEPT ![c].status = status, ![c].seen = seen]

Init ==
    /\ object = [l \in Locations |-> 0]
    /\ used = {}
    /\ \E at \in [Clients -> Locations] :
         call = [c \in Clients |-> Idle(at[c])]
    /\ late \in [Clients -> {r \in Requests : r.op = "none"}]

Invoke(c) ==
    /\ call[c].status = "idle"
    /\ \E op \in Ops \ {"none"}, l \in Locations,
          v \in Versions \cup {0} :
         call' = [call EXCEPT ![c] =
                    [op |-> op, at |-> l, expected |-> v,
                     status |-> "pending", seen |-> 0]]
    /\ UNCHANGED <<object, used, late>>

Get(c) ==
    /\ call[c].status = "pending"
    /\ call[c].op = "get"
    /\ Moves(c, "ok", object[call[c].at])
    /\ UNCHANGED <<object, used, late>>

Apply(c) ==
    /\ call[c].status = "pending"
    /\ \E v \in Versions : Takes(call[c], v) /\ Moves(c, "applied", v)
    /\ UNCHANGED late

Confirm(c) ==
    /\ call[c].status = "applied"
    /\ Moves(c, "ok", call[c].seen)
    /\ UNCHANGED <<object, used, late>>

\* The condition fails; the version that is reported may be read later.
Deny(c) ==
    /\ call[c].status = "pending"
    /\ call[c].op \in Writes
    /\ ~Accepts(call[c])
    /\ Moves(c, "denied", 0)
    /\ UNCHANGED <<object, used, late>>

Refuse(c) ==
    /\ \/ call[c].status = "denied"
       \/ /\ call[c].status = "pending"
          /\ call[c].op \in Writes
          /\ ~Accepts(call[c])
    /\ Moves(c, "refused", object[call[c].at])
    /\ UNCHANGED <<object, used, late>>

Fail(c) ==
    /\ call[c].status \in {"pending", "denied", "applied"}
    /\ Moves(c, "error", 0)
    /\ UNCHANGED <<object, used, late>>

\* The answer to a write is lost while the request may still arrive.
Lose(c) ==
    /\ call[c].status = "pending"
    /\ call[c].op \in Writes
    /\ late[c].op = "none"
    /\ late' = [late EXCEPT ![c] = [op |-> call[c].op, at |-> call[c].at,
                                    expected |-> call[c].expected]]
    /\ Moves(c, "error", 0)
    /\ UNCHANGED <<object, used>>

Arrive(c) ==
    /\ late[c].op # "none"
    /\ late' = [late EXCEPT ![c].op = "none", ![c].expected = 0]
    /\ \/ \E v \in Versions : Takes(late[c], v)
       \/ UNCHANGED <<object, used>>
    /\ UNCHANGED call

\* The client takes its result, or dies in the middle of its call.
Leave(c) ==
    /\ call[c].status # "idle"
    /\ call' = [call EXCEPT ![c] = Idle(call[c].at)]
    /\ UNCHANGED <<object, used, late>>

\* Somebody who does not use this interface deletes the object.
Delete(l) ==
    /\ object' = [object EXCEPT ![l] = 0]
    /\ UNCHANGED <<used, call, late>>

Next ==
    \/ \E c \in Clients :
         \/ Invoke(c) \/ Get(c) \/ Apply(c) \/ Confirm(c) \/ Deny(c)
         \/ Refuse(c) \/ Fail(c) \/ Lose(c) \/ Arrive(c) \/ Leave(c)
    \/ \E l \in Locations : Delete(l)

Spec == Init /\ [][Next]_vars
============================================================================
