-------------------------------- MODULE Map --------------------------------
(***************************************************************************)
(* The Map of crates/objsds: get, entries, insert, insert_if_absent and    *)
(* remove on one JSON object.  A reading operation answers from the one    *)
(* object it got; a mutation changes the decoded entries and replaces the  *)
(* object if its version is still the one it got.  Nothing is retried.     *)
(*                                                                         *)
(* The object is a map document of this handle's schema (see Lifecycle);   *)
(* NoValue stands for a key that is not in the BTreeMap.                   *)
(***************************************************************************)
EXTENDS Naturals

CONSTANTS
    Workers,          \* threads that call the map
    Keys, Values,     \* keys and values they use
    NoValue,          \* an absent key
    MaxVersion,       \* bound: replaces that are applied
    MaxInFlight       \* bound: abandoned requests that may still arrive

ASSUME MapAssumption ==
    /\ NoValue \notin Values
    /\ MaxVersion \in Nat /\ MaxInFlight \in Nat

VARIABLES
    hashes,    \* whether this store's versions are content hashes (S3 ETags)
    store,     \* the stored object: its version and its decoded entries
    writes,    \* replaces applied to the object
    pc,        \* where each worker stands
    request,   \* its operation and, once it has read, its snapshot
    inflight   \* requests whose caller gave up but which may still arrive,
               \*   each in a slot of its own: two may be alike

vars == <<hashes, store, writes, pc, request, inflight>>

----------------------------------------------------------------------------

Entries == [Keys -> Values \cup {NoValue}]

Empty == [k \in Keys |-> NoValue]

Ops == {"get", "entries", "insert", "insert_if_absent", "remove"}

\* The operations that take a value.
Inserts == {"insert", "insert_if_absent"}

Versions == IF hashes THEN Entries ELSE Nat

\* Faulty variant: a write does not give the object a new version.
StuckVersion(entries, n) == IF hashes THEN entries ELSE 0

VersionOf(entries, n) == IF hashes THEN entries ELSE n

Requests == [op : Ops, key : Keys, value : Values \cup {NoValue},
             version : Versions, entries : Entries,
             outcome : {"none", "pending", "done", "failed"}]

Slots == 1..MaxInFlight

\* The operation goes on to write(): insert always, insert_if_absent on an
\* absent and remove on a present key.
Mutates(r, entries) ==
    \/ r.op = "insert"
    \/ r.op = "insert_if_absent" /\ entries[r.key] = NoValue
    \/ r.op = "remove" /\ entries[r.key] # NoValue

\* The values an operation returns, from the one snapshot it read: get and
\* entries what they were asked for, remove the value it takes out and
\* insert_if_absent the value that occupies the key, if any.
Answer(r) ==
    [k \in CASE r.op = "entries" -> Keys
             [] r.op = "insert"  -> {}
             [] OTHER            -> {r.key} |-> r.entries[k]]

\* Faulty variant: a removed key is written as null.
WrittenNull(r) ==
    [r.entries EXCEPT ![r.key] = IF r.op = "remove" THEN "null" ELSE r.value]

\* The document that write() serializes.
Written(r) ==
    [r.entries EXCEPT ![r.key] = IF r.op = "remove" THEN NoValue ELSE r.value]

\* Faulty variant: replace without the If-Match condition.
Unconditional(r) == TRUE

Current(r) == r.version = store.version

Apply(r) ==
    /\ Current(r)
    /\ writes < MaxVersion
    /\ writes' = writes + 1
    /\ store' = [version |-> VersionOf(Written(r), writes + 1),
                 entries |-> Written(r)]

Done(w) ==
    /\ pc' = [pc EXCEPT ![w] = "idle"]
    /\ request' = [request EXCEPT ![w].outcome = "done"]

\* The call returns an error and its snapshot is dropped.
Failed(w) ==
    /\ pc' = [pc EXCEPT ![w] = "idle"]
    /\ request' = [request EXCEPT ![w].outcome = "failed",
                                  ![w].version = VersionOf(Empty, 0),
                                  ![w].entries = Empty]

Init ==
    /\ hashes \in BOOLEAN
    /\ store = [version |-> VersionOf(Empty, 0), entries |-> Empty]
    /\ writes = 0
    /\ pc = [w \in Workers |-> "idle"]
    /\ \E k \in Keys :
         request = [w \in Workers |->
                      [op |-> "get", key |-> k, value |-> NoValue,
                       version |-> VersionOf(Empty, 0), entries |-> Empty,
                       outcome |-> "none"]]
    /\ inflight = {}

----------------------------------------------------------------------------

Call(w) ==
    /\ pc[w] = "idle"
    /\ \E op \in Ops, k \in Keys, v \in Values \cup {NoValue} :
         /\ op \in Inserts <=> v # NoValue
         /\ request' = [request EXCEPT ![w] =
                          [@ EXCEPT !.op = op, !.key = k, !.value = v,
                                    !.version = VersionOf(Empty, 0),
                                    !.entries = Empty, !.outcome = "pending"]]
    /\ pc' = [pc EXCEPT ![w] = "read"]
    /\ UNCHANGED <<hashes, store, writes, inflight>>

\* read(): one get; the operation answers, or prepares its replace.
Read(w) ==
    /\ pc[w] = "read"
    /\ LET mutates == Mutates(request[w], store.entries) IN
         /\ request' = [request EXCEPT
                          ![w].version = store.version,
                          ![w].entries = store.entries,
                          ![w].outcome = IF mutates THEN "pending" ELSE "done"]
         /\ pc' = [pc EXCEPT ![w] = IF mutates THEN "write" ELSE "idle"]
    /\ UNCHANGED <<hashes, store, writes, inflight>>

\* write(): the replace is applied, refused, or its answer is lost.
Replace(w) ==
    /\ pc[w] = "write"
    /\ Apply(request[w])
    /\ Done(w)
    /\ UNCHANGED <<hashes, inflight>>

Conflict(w) ==
    /\ pc[w] = "write"
    /\ ~Current(request[w])
    /\ Failed(w)
    /\ UNCHANGED <<hashes, store, writes, inflight>>

LoseReply(w) ==
    /\ pc[w] = "write"
    /\ \E n \in Slots :
         /\ \A m \in inflight : m.slot # n
         /\ inflight' = inflight \cup {[slot |-> n, request |-> request[w]]}
    /\ Failed(w)
    /\ UNCHANGED <<hashes, store, writes>>

\* A get fails, or a put that never reaches the store: Error::Store.
StoreFails(w) ==
    /\ pc[w] # "idle"
    /\ Failed(w)
    /\ UNCHANGED <<hashes, store, writes, inflight>>

LateArrival(m) ==
    /\ inflight' = inflight \ {m}
    /\ \/ Apply(m.request)
       \/ ~Current(m.request) /\ UNCHANGED <<store, writes>>
    /\ UNCHANGED <<hashes, pc, request>>

Next ==
    \/ \E w \in Workers :
         \/ Call(w) \/ Read(w) \/ Replace(w) \/ Conflict(w) \/ LoseReply(w)
         \/ StoreFails(w)
    \/ \E m \in inflight : LateArrival(m)

Spec == Init /\ [][Next]_vars

----------------------------------------------------------------------------
(* Properties *)

\* Types of the map's state.
TypeOK ==
    /\ hashes \in BOOLEAN
    /\ store \in [version : Versions, entries : Entries]
    /\ writes \in 0..MaxVersion
    /\ pc \in [Workers -> {"idle", "read", "write"}]
    /\ request \in [Workers -> Requests]
    /\ inflight \subseteq [slot : Slots, request : Requests]

\* A version stands for one content, for counters and content hashes alike:
\* whoever still holds the current version holds the current entries, so a
\* replace that is applied, even a late one, drops nobody's change.
VersionNamesSnapshot ==
    \A r \in {request[w] : w \in {u \in Workers : pc[u] = "write"}}
               \cup {m.request : m \in inflight} :
        r.version = store.version => r.entries = store.entries

----------------------------------------------------------------------------
(* Refinement *)

CallOf(r) == [op |-> r.op, key |-> r.key, value |-> r.value]

\* What a caller sees of its request.
View(r) ==
    [op |-> r.op, key |-> r.key, value |-> r.value, outcome |-> r.outcome,
     answer |-> IF r.outcome = "done" THEN Answer(r) ELSE <<>>]

Atomic == INSTANCE AtomicMap WITH
    map <- store.entries,
    call <- [w \in Workers |-> View(request[w])],
    orphans <- {<<m.slot, CallOf(m.request)>> : m \in inflight}

\* Reads, conditional inserts, removals, conflicts and late requests of any
\* number of workers are those of a map on which each operation happens at
\* once: answers are true when the operation happens, exactly one of several
\* competing insert_if_absent wins, a Conflict had no effect, and a request
\* whose answer was lost has its effect at most once.
Linearizable == Atomic!Spec
============================================================================
