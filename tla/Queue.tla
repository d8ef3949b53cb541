------------------------------- MODULE Queue -------------------------------
(***************************************************************************)
(* The work queue of crates/objsds-queue: publish, claim and ack on one    *)
(* JSON object that is read whole and replaced by compare-and-swap.        *)
(*                                                                         *)
(* A worker is a thread calling the queue.  Every mutation is               *)
(*     [clock] -> get -> change the decoded document -> replace             *)
(* and other workers may step between any two of these.  A mutation that   *)
(* is not applied is never retried here: the worker returns to "idle".     *)
(*                                                                         *)
(* Abstractions.  A message's payload never influences control and never   *)
(* changes, so a message is known by its id.  UUIDv7 ids are natural       *)
(* numbers in their sorting order; lease tokens are only compared for      *)
(* equality.  The object is a queue document written by this code: absent  *)
(* objects and foreign documents belong to module Lifecycle.               *)
(***************************************************************************)
EXTENDS Integers, SequencesExt

CONSTANTS
    Workers,          \* threads that call the queue
    Processes,        \* operating system processes
    ProcessOf,        \* the process of each worker
    Ids,              \* message ids, ordered as UUIDv7 values sort
    Tokens,           \* lease tokens
    NoToken,          \* the token of a message that was never claimed
    Durations,        \* lease durations callers pass, in milliseconds
    ContentVersions,  \* TRUE: versions are content hashes (S3 ETags)
    MaxSkew,          \* how far a clock reading may be from the true time
    MaxMillis,        \* u64::MAX
    MaxAttempts,      \* u32::MAX
    MaxTime,          \* bound: the true time stops here
    MaxInFlight       \* bound: abandoned requests that may still arrive

ASSUME QueueAssumption ==
    /\ ProcessOf \in [Workers -> Processes]
    /\ Ids \subseteq Nat
    /\ NoToken \notin Tokens
    /\ Durations \subseteq Nat
    /\ ContentVersions \in BOOLEAN
    /\ MaxSkew \in Nat /\ MaxMillis \in Nat /\ MaxAttempts \in Nat
    /\ MaxTime \in Nat /\ MaxInFlight \in Nat

VARIABLES
    store,      \* the stored object: its version and its decoded messages
    time,       \* true time in milliseconds; clocks read it with an error
    pc,         \* where each worker stands in its operation
    request,    \* the local variables of each worker's operation
    inflight,   \* requests whose caller gave up but which may still arrive
    drawn,      \* ids drawn by each process' UUIDv7 generator
    tokens,     \* lease tokens drawn so far
    published,  \* history: ids returned by a successful publish
    granted,    \* history: claims that were applied to the object
    removed     \* history: acknowledgements that were applied to the object

vars == <<store, time, pc, request, inflight, drawn, tokens,
          published, granted, removed>>

----------------------------------------------------------------------------
(* Documents *)

Lease == [token : Tokens \cup {NoToken}, expires : 0..MaxMillis]

NoLease == [token |-> NoToken, expires |-> 0]

Message == [id : Ids, attempts : 0..MaxAttempts, lease : Lease]

NewMessage(id) == [id |-> id, attempts |-> 0, lease |-> NoLease]

Documents == Seq(Message)

IdsOf(messages) == {messages[i].id : i \in DOMAIN messages}

StoredIds == IdsOf(store.messages)

\* messages.windows(2) of read(): the document passes the Corrupt check.
StrictlyIncreasing(messages) ==
    \A i, j \in 1..Len(messages) : i < j => messages[i].id < messages[j].id

\* Faulty variant: push() instead of an ordered insert.
PushBack(messages, id, index) == index = Len(messages) + 1

\* index is the place partition_point finds for id: smaller ids come before.
PartitionPoint(messages, id, index) ==
    /\ \A i \in 1..(index - 1) : messages[i].id < id
    /\ \A i \in index..Len(messages) : ~(messages[i].id < id)

\* Faulty variant: leases are ignored.
AvailableAlways(message, now) == TRUE

Available(message, now) ==
    \/ message.lease.token = NoToken
    \/ message.lease.expires <= now

\* Faulty variant: the newest available message is taken.
LastAvailable(messages, now, index) ==
    /\ Available(messages[index], now)
    /\ \A i \in (index + 1)..Len(messages) : ~Available(messages[i], now)

\* index is the first message the position() call of claim accepts.
FirstAvailable(messages, now, index) ==
    /\ Available(messages[index], now)
    /\ \A i \in 1..(index - 1) : ~Available(messages[i], now)

NoneAvailable(messages, now) ==
    \A i \in DOMAIN messages : ~Available(messages[i], now)

----------------------------------------------------------------------------
(* The operation a worker has under way: its arguments, the clock value it *)
(* read, the snapshot it decoded and what it decided to change.            *)

Ops == {"none", "publish", "claim", "ack"}

Versions == IF ContentVersions THEN Documents ELSE Nat

Request ==
    [op : Ops, version : Versions, messages : Documents, index : Nat,
     id : Ids \cup {-1}, token : Tokens \cup {NoToken},
     now : 0..MaxMillis, expires : 0..MaxMillis]

NoVersion == IF ContentVersions THEN <<>> ELSE 0

NoRequest ==
    [op |-> "none", version |-> NoVersion, messages |-> <<>>, index |-> 0,
     id |-> -1, token |-> NoToken, now |-> 0, expires |-> 0]

\* Faulty variant: a reclaim does not count as an attempt.
WrittenUncounted(r) ==
    CASE r.op = "publish" -> InsertAt(r.messages, r.index, NewMessage(r.id))
      [] r.op = "claim"   ->
            ReplaceAt(r.messages, r.index,
                [r.messages[r.index] EXCEPT
                    !.lease = [token |-> r.token, expires |-> r.expires]])
      [] r.op = "ack"     -> RemoveAt(r.messages, r.index)

\* Faulty variant: ack releases the lease but keeps the message.
WrittenKeepsAcked(r) ==
    CASE r.op = "publish" -> InsertAt(r.messages, r.index, NewMessage(r.id))
      [] r.op = "claim"   ->
            ReplaceAt(r.messages, r.index,
                [r.messages[r.index] EXCEPT
                    !.attempts = @ + 1,
                    !.lease = [token |-> r.token, expires |-> r.expires]])
      [] r.op = "ack"     ->
            ReplaceAt(r.messages, r.index, NewMessage(r.id))

\* The document the request's replace carries.
Written(r) ==
    CASE r.op = "publish" -> InsertAt(r.messages, r.index, NewMessage(r.id))
      [] r.op = "claim"   ->
            ReplaceAt(r.messages, r.index,
                [r.messages[r.index] EXCEPT
                    !.attempts = @ + 1,
                    !.lease = [token |-> r.token, expires |-> r.expires]])
      [] r.op = "ack"     -> RemoveAt(r.messages, r.index)

\* The Claim that claim() returns once its replace was applied.
Grant(r) ==
    [id |-> r.messages[r.index].id, token |-> r.token,
     attempt |-> r.messages[r.index].attempts + 1, expires |-> r.expires]

Grants == [id : Ids, token : Tokens, attempt : 1..MaxAttempts,
           expires : 0..MaxMillis]

Removal(w, r) == [id |-> r.id, token |-> r.token, by |-> w]

Removals == [id : Ids, token : Tokens, by : Workers]

----------------------------------------------------------------------------
(* Clock and store *)

\* A reading of SystemClock: the error is at most MaxSkew, a time before the
\* epoch reads 0 and one beyond u64 reads u64::MAX.
NowMillis(t) == IF t < 0 THEN 0 ELSE IF t > MaxMillis THEN MaxMillis ELSE t

Readings == {NowMillis(t) : t \in (time - MaxSkew)..(time + MaxSkew)}

\* Faulty variant: replace without the If-Match condition.
Unconditional(r) == TRUE

Current(r) == r.version = store.version

VersionAfter(messages) ==
    IF ContentVersions THEN messages ELSE store.version + 1

\* A replace whose expected version is current changes the object.
Apply(w, r) ==
    /\ Current(r)
    /\ store' = [version  |-> VersionAfter(Written(r)),
                 messages |-> Written(r)]
    /\ granted' = IF r.op = "claim" THEN granted \cup {Grant(r)} ELSE granted
    /\ removed' = IF r.op = "ack" THEN removed \cup {Removal(w, r)}
                                  ELSE removed

----------------------------------------------------------------------------
(* Steps shared by the operations *)

Init ==
    /\ store = [version |-> NoVersion, messages |-> <<>>]
    /\ time = 0
    /\ pc = [w \in Workers |-> "idle"]
    /\ request = [w \in Workers |-> NoRequest]
    /\ inflight = {}
    /\ drawn = [p \in Processes |-> {}]
    /\ tokens = {}
    /\ published = {}
    /\ granted = {}
    /\ removed = {}

Histories == <<published, granted, removed>>

Goto(w, label, r) ==
    /\ pc' = [pc EXCEPT ![w] = label]
    /\ request' = [request EXCEPT ![w] = r]

Return(w) == Goto(w, "idle", NoRequest)

\* The local variables of w once it has decoded the object it got.
Decoded(w) == [request[w] EXCEPT !.version = store.version,
                                 !.messages = store.messages]

Tick ==
    /\ time < MaxTime
    /\ time' = time + 1
    /\ UNCHANGED <<store, pc, request, inflight, drawn, tokens, Histories>>

----------------------------------------------------------------------------
(* publish *)

\* publish: read().
PublishRead(w) ==
    /\ pc[w] = "idle"
    /\ Goto(w, "prepare", [Decoded(w) EXCEPT !.op = "publish"])
    /\ UNCHANGED <<store, time, inflight, drawn, tokens, Histories>>

\* Faulty variant: an id generator that is not monotonic across threads.
UnorderedIds(p) == {id \in Ids : \A q \in Processes : id \notin drawn[q]}

\* Uuid::now_v7(): never used before, and above every id of this process.
FreshIds(p) ==
    {id \in Ids : /\ \A q \in Processes : id \notin drawn[q]
                  /\ \A old \in drawn[p] : old < id}

\* publish: now_v7, partition_point and insert, after the read.
PublishPrepare(w) ==
    /\ pc[w] = "prepare"
    /\ \E id \in FreshIds(ProcessOf[w]),
          index \in 1..(Len(request[w].messages) + 1) :
         /\ PartitionPoint(request[w].messages, id, index)
         /\ drawn' = [drawn EXCEPT ![ProcessOf[w]] = @ \cup {id}]
         /\ Goto(w, "write",
                 [request[w] EXCEPT !.id = id, !.index = index])
    /\ UNCHANGED <<store, time, inflight, tokens, Histories>>

----------------------------------------------------------------------------
(* claim *)

\* Faulty variant: the deadline is added without checked_add.
UncheckedLease(duration, now) == duration > 0

\* Faulty variant: a zero duration is accepted.
ZeroLease(duration, now) == now + duration <= MaxMillis

\* The lease duration is positive and its deadline fits u64; otherwise claim
\* returns InvalidLeaseDuration.
ValidLease(duration, now) == duration > 0 /\ now + duration <= MaxMillis

\* claim: the duration is checked, the clock is read and the deadline fixed,
\* all before the document is read.
ClaimStart(w) ==
    /\ pc[w] = "idle"
    /\ \E duration \in Durations, now \in Readings :
         /\ ValidLease(duration, now)
         /\ Goto(w, "claim", [NoRequest EXCEPT !.op = "claim", !.now = now,
                                               !.expires = now + duration])
    /\ UNCHANGED <<store, time, inflight, drawn, tokens, Histories>>

\* claim: read(), position(), now_v7 for the token, checked_add on attempts.
ClaimRead(w) ==
    /\ pc[w] = "claim"
    /\ \/ /\ NoneAvailable(store.messages, request[w].now)      \* Ok(None)
          /\ Return(w)
          /\ tokens' = tokens
       \/ \E index \in DOMAIN store.messages :
            /\ FirstAvailable(store.messages, request[w].now, index)
            /\ \/ /\ store.messages[index].attempts = MaxAttempts
                  /\ Return(w)                                  \* AttemptOverflow
                  /\ tokens' = tokens
               \/ /\ store.messages[index].attempts < MaxAttempts
                  /\ \E token \in Tokens \ tokens :
                       /\ tokens' = tokens \cup {token}
                       /\ Goto(w, "write",
                               [Decoded(w) EXCEPT
                                    !.token = token, !.index = index,
                                    !.id = store.messages[index].id])
    /\ UNCHANGED <<store, time, inflight, drawn, Histories>>

----------------------------------------------------------------------------
(* ack *)

\* ack: any id and token a caller can hold; the clock is read first.
AckStart(w) ==
    /\ pc[w] = "idle"
    /\ \E id \in UNION {drawn[p] : p \in Processes}, token \in tokens,
          now \in Readings :
         Goto(w, "ack", [NoRequest EXCEPT !.op = "ack", !.id = id,
                                          !.token = token, !.now = now])
    /\ UNCHANGED <<store, time, inflight, drawn, tokens, Histories>>

\* Faulty variant: ack does not compare the token.
MayRemoveAnyToken(message, token, now) ==
    /\ message.lease.token # NoToken
    /\ ~(message.lease.expires <= now)

\* The lease checks of ack on the message it found.
MayRemove(message, token, now) ==
    /\ message.lease.token = token        \* else LeaseMismatch
    /\ ~(message.lease.expires <= now)    \* else LeaseExpired

\* ack: read(), binary_search and the lease checks.
AckRead(w) ==
    /\ pc[w] = "ack"
    /\ \/ /\ request[w].id \notin StoredIds                     \* NotFound
          /\ Return(w)
       \/ \E index \in DOMAIN store.messages :
            /\ store.messages[index].id = request[w].id
            /\ IF MayRemove(store.messages[index], request[w].token,
                            request[w].now)
                 THEN Goto(w, "write", [Decoded(w) EXCEPT !.index = index])
                 ELSE Return(w)
    /\ UNCHANGED <<store, time, inflight, drawn, tokens, Histories>>

----------------------------------------------------------------------------
(* replace: applied, refused, or lost *)

\* write() returns Ok: the object still had the version that was read.
Replace(w) ==
    /\ pc[w] = "write"
    /\ Apply(w, request[w])
    /\ published' = IF request[w].op = "publish"
                      THEN published \cup {request[w].id} ELSE published
    /\ Return(w)
    /\ UNCHANGED <<time, inflight, drawn, tokens>>

\* write() returns Conflict: another version is current, nothing changes.
Conflict(w) ==
    /\ pc[w] = "write"
    /\ ~Current(request[w])
    /\ Return(w)
    /\ UNCHANGED <<store, time, inflight, drawn, tokens, Histories>>

\* write() returns Error::Store after the request left the process, or the
\* process dies then: the request may be applied later, or never.
LoseReply(w) ==
    /\ pc[w] = "write"
    /\ Cardinality(inflight) < MaxInFlight
    /\ inflight' = inflight \cup {[by |-> w, request |-> request[w]]}
    /\ Return(w)
    /\ UNCHANGED <<store, time, drawn, tokens, Histories>>

\* A request nobody waits for any more reaches the store.
LateArrival(m) ==
    /\ inflight' = inflight \ {m}
    /\ \/ Apply(m.by, m.request)
       \/ /\ ~Current(m.request)
          /\ UNCHANGED <<store, granted, removed>>
    /\ UNCHANGED <<time, pc, request, drawn, tokens, published>>

\* get() returns Error::Store, or the worker's process dies, before any
\* request to change the object left it.
Abandon(w) ==
    /\ pc[w] # "idle"
    /\ Return(w)
    /\ UNCHANGED <<store, time, inflight, drawn, tokens, Histories>>

----------------------------------------------------------------------------

Step(w) ==
    \/ PublishRead(w) \/ PublishPrepare(w)
    \/ ClaimStart(w) \/ ClaimRead(w)
    \/ AckStart(w) \/ AckRead(w)
    \/ Replace(w) \/ Conflict(w) \/ LoseReply(w) \/ Abandon(w)

Next ==
    \/ Tick
    \/ \E w \in Workers : Step(w)
    \/ \E m \in inflight : LateArrival(m)

Spec == Init /\ [][Next]_vars

----------------------------------------------------------------------------
(* Properties *)

\* Types of the queue's state: in particular deadlines fit u64 and attempts
\* fit u32, because claim checks both additions.
TypeOK ==
    /\ store \in [version : Versions, messages : Documents]
    /\ time \in 0..MaxTime
    /\ pc \in [Workers -> {"idle", "prepare", "claim", "ack", "write"}]
    /\ request \in [Workers -> Request]
    /\ inflight \subseteq [by : Workers, request : Request]
    /\ drawn \in [Processes -> SUBSET Ids]
    /\ tokens \subseteq Tokens
    /\ published \subseteq Ids
    /\ granted \subseteq Grants
    /\ removed \subseteq Removals

\* No sequence of operations, conflicts and late requests leaves a document
\* that read() would reject as Corrupt: the ids of the stored messages are
\* strictly increasing, whatever the order in which they were published.
StoredIdsIncrease == StrictlyIncreasing(store.messages)

RemovedIds == {a.id : a \in removed}

\* At-least-once: a message whose publish returned Ok is in the object until
\* an acknowledgement of it has been applied; no write based on an older
\* snapshot drops it.
NoLostMessage == published \subseteq StoredIds \cup RemovedIds

\* An acknowledged message never returns: no late publish, claim or ack that
\* still carries it in its snapshot puts it back, and it is acknowledged once.
AckedStaysGone ==
    /\ StoredIds \cap RemovedIds = {}
    /\ \A a, b \in removed : a.id = b.id => a = b

\* The attempt numbers that claim() returns count the claims of a message
\* that were applied: they run from 1 to the stored count and no two claims
\* share one, also when a claim's caller never got its answer.
AttemptsCountClaims ==
    /\ \A i \in DOMAIN store.messages :
         {c.attempt : c \in {g \in granted : g.id = store.messages[i].id}}
            = 1..store.messages[i].attempts
    /\ \A c, d \in granted :
         c.id = d.id /\ c.attempt = d.attempt => c = d

\* A message is removed only by the token of its last claim: a worker whose
\* lease was taken over cannot acknowledge the newer claim, and nobody claims
\* the message again after its acknowledgement was applied.
OnlyLatestClaimAcks ==
    \A a \in removed :
        /\ \E c \in granted : c.id = a.id /\ c.token = a.token
        /\ \A c, d \in granted :
              c.id = a.id /\ c.token = a.token /\ d.id = a.id
                => d.attempt <= c.attempt

\* Each reclaim of a message has a later deadline than every claim before it,
\* whatever the clocks of the claiming workers say.
DeadlinesGrow ==
    \A c, d \in granted :
        c.id = d.id /\ c.attempt < d.attempt => c.expires < d.expires

\* Mutual exclusion of leases up to the clock error: at any moment at most
\* one claim of a message has a deadline more than MaxSkew ahead of the true
\* time.  With exact clocks two unexpired claims never coexist.
LeaseExclusive ==
    \A c, d \in granted :
        /\ c.id = d.id
        /\ c.expires > time + MaxSkew
        /\ d.expires > time + MaxSkew
        => c = d

\* Messages of one process are claimed in the order they were published:
\* because the id is drawn after the read and the replace is conditional on
\* that read, no publish, however late it arrives, inserts a message below a
\* stored one of its own process.
PublishAppends ==
    [][\A id \in IdsOf(store'.messages) \ StoredIds, p \in Processes :
         id \in drawn[p] =>
            \A old \in StoredIds \cap drawn[p] : old < id]_vars

----------------------------------------------------------------------------
(* Refinement *)

Atomic == INSTANCE AtomicQueue WITH
    queue <- ToSet(store.messages),
    past  <- StoredIds \cup RemovedIds,
    spent <- {c.token : c \in granted}

\* The interleaved, snapshot-based operations look like operations that each
\* take effect at once on the current messages: no update is lost or applied
\* twice, and a claim takes the oldest available message at its replace.
Linearizable == Atomic!Spec
============================================================================
