---------------------------- MODULE QueueProofs ----------------------------
(***************************************************************************)
(* The safety properties of Queue hold for every set of workers,           *)
(* processes, ids, tokens and durations, every clock error and every       *)
(* bound, and the queue implements AtomicQueue.                            *)
(*                                                                         *)
(* None of the invariants is inductive alone: what a replace writes was    *)
(* decided several steps earlier, on a snapshot. The inductive invariant   *)
(* IInv therefore says what every request that may still be applied        *)
(* carries (RequestOK), that no two of them carry the same fresh id or     *)
(* token (StampsUnique), and ties the stored leases to the claims that     *)
(* were granted (MessageOK).                                               *)
(*                                                                         *)
(* That a process's messages are stored in the order of their publication  *)
(* needs a second one, OrderInv: the UUIDv7 generator of a process never   *)
(* goes back, so an id that it draws is above all its ids in a snapshot    *)
(* that was taken before.  The refinement needs IInv only, in which a      *)
(* claim carries the first message that its snapshot offers.               *)
(***************************************************************************)
EXTENDS Queue, SequenceTheorems, TLAPS

----------------------------------------------------------------------------
(* What Vec::insert and Vec::remove do to a sequence *)

\* n is s with e inserted at position k.
Inserted(s, k, e, n) ==
    /\ Len(n) = Len(s) + 1
    /\ \A i \in 1..(k - 1) : n[i] = s[i]
    /\ n[k] = e
    /\ \A i \in (k + 1)..(Len(s) + 1) : n[i] = s[i - 1]

\* n is s without its element at position k.
Removed(s, k, n) ==
    /\ Len(n) = Len(s) - 1
    /\ \A i \in 1..(k - 1) : n[i] = s[i]
    /\ \A i \in k..(Len(s) - 1) : n[i] = s[i + 1]

\* Inserting at position k shifts the elements from k on by one place.
LEMMA InsertAtProperties ==
    ASSUME NEW S, NEW s \in Seq(S), NEW e \in S, NEW k \in 1..(Len(s) + 1)
    PROVE  /\ InsertAt(s, k, e) \in Seq(S)
           /\ Inserted(s, k, e, InsertAt(s, k, e))
<1>1. PICK a : a = SubSeq(s, 1, k - 1)
  OBVIOUS
<1>2. PICK c : c = SubSeq(s, k, Len(s))
  OBVIOUS
<1>3. /\ Len(s) \in Nat /\ k \in Nat
      /\ a \in Seq(S) /\ Len(a) = k - 1
      /\ \A i \in 1..(k - 1) : a[i] = s[i]
  BY <1>1
<1>4. /\ c \in Seq(S) /\ Len(c) = Len(s) - k + 1
      /\ \A i \in 1..(Len(s) - k + 1) : c[i] = s[k + i - 1]
  BY <1>2
<1>5. PICK b : b = a \o <<e>>
  OBVIOUS
<1>6. /\ b \in Seq(S) /\ Len(b) = k
      /\ \A i \in 1..(k - 1) : b[i] = s[i]
      /\ b[k] = e
  BY <1>3, <1>5
<1>7. /\ b \o c \in Seq(S)
      /\ Len(b \o c) = Len(s) + 1
      /\ \A i \in 1..(Len(s) + 1) :
            (b \o c)[i] = IF i <= k THEN b[i] ELSE c[i - k]
  <2>1. /\ b \o c \in Seq(S)
        /\ Len(b \o c) = Len(b) + Len(c)
        /\ \A i \in 1..(Len(b) + Len(c)) :
              (b \o c)[i] = IF i <= Len(b) THEN b[i] ELSE c[i - Len(b)]
    BY <1>4, <1>6, ConcatProperties, Zenon
  <2>2. Len(b) = k /\ Len(b) + Len(c) = Len(s) + 1
    BY <1>3, <1>4, <1>6
  <2> QED
    BY <2>1, <2>2, Zenon
<1>8. InsertAt(s, k, e) = b \o c
  BY <1>1, <1>2, <1>5 DEF InsertAt
<1>9. \A i \in 1..(k - 1) : (b \o c)[i] = s[i]
  BY <1>3, <1>6, <1>7
<1>10. (b \o c)[k] = e
  BY <1>3, <1>6, <1>7
<1>11. ASSUME NEW i \in (k + 1)..(Len(s) + 1)
       PROVE  (b \o c)[i] = s[i - 1]
  <2>1. (b \o c)[i] = c[i - k]
    BY <1>3, <1>7
  <2> QED
    BY <1>3, <1>4, <2>1
<1> QED
  BY <1>7, <1>8, <1>9, <1>10, <1>11 DEF Inserted

\* Removing at position k shifts the elements behind k back by one place.
LEMMA RemoveAtProperties ==
    ASSUME NEW S, NEW s \in Seq(S), NEW k \in 1..Len(s)
    PROVE  /\ RemoveAt(s, k) \in Seq(S)
           /\ Removed(s, k, RemoveAt(s, k))
<1>1. PICK a : a = SubSeq(s, 1, k - 1)
  OBVIOUS
<1>2. PICK c : c = SubSeq(s, k + 1, Len(s))
  OBVIOUS
<1>3. /\ Len(s) \in Nat /\ k \in Nat
      /\ a \in Seq(S) /\ Len(a) = k - 1
      /\ \A i \in 1..(k - 1) : a[i] = s[i]
  BY <1>1
<1>4. /\ c \in Seq(S) /\ Len(c) = Len(s) - k
      /\ \A i \in 1..(Len(s) - k) : c[i] = s[k + i]
  BY <1>2
<1>5. /\ a \o c \in Seq(S)
      /\ Len(a \o c) = Len(s) - 1
      /\ \A i \in 1..(Len(s) - 1) :
            (a \o c)[i] = IF i <= k - 1 THEN a[i] ELSE c[i - (k - 1)]
  <2>1. /\ a \o c \in Seq(S)
        /\ Len(a \o c) = Len(a) + Len(c)
        /\ \A i \in 1..(Len(a) + Len(c)) :
              (a \o c)[i] = IF i <= Len(a) THEN a[i] ELSE c[i - Len(a)]
    BY <1>3, <1>4, ConcatProperties, Zenon
  <2>2. Len(a) = k - 1 /\ Len(a) + Len(c) = Len(s) - 1
    BY <1>3, <1>4
  <2> QED
    BY <2>1, <2>2, Zenon
<1>6. RemoveAt(s, k) = a \o c
  BY <1>1, <1>2 DEF RemoveAt
<1>7. \A i \in 1..(k - 1) : (a \o c)[i] = s[i]
  BY <1>3, <1>5
<1>8. ASSUME NEW i \in k..(Len(s) - 1)
      PROVE  (a \o c)[i] = s[i + 1]
  <2>1. (a \o c)[i] = c[i - (k - 1)]
    BY <1>3, <1>5
  <2> QED
    BY <1>3, <1>4, <2>1
<1> QED
  BY <1>5, <1>6, <1>7, <1>8 DEF Removed

----------------------------------------------------------------------------
(* The inductive invariant *)

AllDrawn == UNION {drawn[p] : p \in Processes}

\* A snapshot whose version is still current is the current document.
SnapshotOK(r) ==
    IF ContentVersions THEN r.version = r.messages
    ELSE /\ r.version <= store.version
         /\ r.version = store.version => r.messages = store.messages

PublishOK(r) ==
    /\ r.index \in 1..(Len(r.messages) + 1)
    /\ PartitionPoint(r.messages, r.id, r.index)
    /\ r.id \in AllDrawn
    /\ r.id \notin StoredIds \cup RemovedIds

ClaimOK(r) ==
    /\ r.index \in 1..Len(r.messages)
    /\ FirstAvailable(r.messages, r.now, r.index)
    /\ r.messages[r.index].attempts < MaxAttempts
    /\ r.token \in tokens
    /\ \A c \in granted : c.token # r.token
    /\ r.now <= time + MaxSkew
    /\ r.now < r.expires

AckOK(r) ==
    /\ r.index \in 1..Len(r.messages)
    /\ r.messages[r.index].id = r.id
    /\ r.messages[r.index].lease.token = r.token
    /\ r.token \in Tokens

\* A request that a replace may still apply.
RequestOK(r) ==
    /\ SnapshotOK(r)
    /\ r.op \in {"publish", "claim", "ack"}
    /\ r.op = "publish" => PublishOK(r)
    /\ r.op = "claim" => ClaimOK(r)
    /\ r.op = "ack" => AckOK(r)

LocalOK(w) ==
    /\ pc[w] = "prepare" => request[w].op = "publish" /\ SnapshotOK(request[w])
    /\ pc[w] = "claim" => /\ request[w].op = "claim"
                          /\ request[w].now <= time + MaxSkew
                          /\ request[w].now < request[w].expires
    /\ pc[w] = "ack" => /\ request[w].op = "ack"
                        /\ request[w].id \in Ids
                        /\ request[w].token \in Tokens
    /\ pc[w] = "write" => RequestOK(request[w])

StampsDiffer(q, r) ==
    /\ q.op = "publish" /\ r.op = "publish" => q.id # r.id
    /\ q.op = "claim" /\ r.op = "claim" => q.token # r.token

StampsUnique ==
    /\ \A v, w \in Workers : v # w /\ pc[v] = "write" /\ pc[w] = "write"
                               => StampsDiffer(request[v], request[w])
    /\ \A w \in Workers, m \in inflight :
         pc[w] = "write" => StampsDiffer(m.request, request[w])
    /\ \A m, n \in inflight : m # n => StampsDiffer(m.request, n.request)

\* What the lease and the attempt count of a stored message say about the
\* claims that were granted.
MessageOK(m) ==
    /\ m.attempts = 0 <=> m.lease.token = NoToken
    /\ m.attempts > 0 => [id |-> m.id, token |-> m.lease.token,
                          attempt |-> m.attempts,
                          expires |-> m.lease.expires] \in granted
    /\ {c.attempt : c \in {g \in granted : g.id = m.id}} = 1..m.attempts

MessagesOK == \A i \in DOMAIN store.messages : MessageOK(store.messages[i])

VersionOK == ContentVersions => store.version = store.messages

IdsDrawn == StoredIds \cup RemovedIds \subseteq AllDrawn

GrantsKnown == \A c \in granted : /\ c.id \in StoredIds \cup RemovedIds
                                  /\ c.token \in tokens

TokensUnique == \A c, d \in granted : c.token = d.token => c = d

AttemptsDistinct ==
    \A c, d \in granted : c.id = d.id /\ c.attempt = d.attempt => c = d

Superseded ==
    \A c, d \in granted :
        c.id = d.id /\ c.attempt < d.attempt
          => c.expires < d.expires /\ c.expires <= time + MaxSkew

StoreInv ==
    /\ VersionOK
    /\ StoredIdsIncrease
    /\ NoLostMessage
    /\ AckedStaysGone
    /\ IdsDrawn
    /\ GrantsKnown
    /\ TokensUnique
    /\ MessagesOK
    /\ AttemptsDistinct
    /\ Superseded
    /\ OnlyLatestClaimAcks

IInv ==
    /\ TypeOK
    /\ StoreInv
    /\ \A w \in Workers : LocalOK(w)
    /\ \A m \in inflight : RequestOK(m.request)
    /\ StampsUnique

----------------------------------------------------------------------------
(* What the three changes do to a document. *)

\* The shape of a document and of its messages.
LEMMA DocumentFacts ==
    ASSUME NEW ms \in Documents
    PROVE  /\ Len(ms) \in Nat
           /\ DOMAIN ms = 1..Len(ms)
           /\ \A i \in 1..Len(ms) : ms[i] \in Message
           /\ \A i \in 1..Len(ms) : ms[i].id \in Ids /\ ms[i].id \in Nat
<1>1. ms \in Seq(Message)
  BY DEF Documents
<1>2. /\ Len(ms) \in Nat
      /\ DOMAIN ms = 1..Len(ms)
      /\ \A i \in 1..Len(ms) : ms[i] \in Message
  BY <1>1
<1>3. \A m \in Message : m.id \in Ids /\ m.id \in Nat
  BY QueueAssumption DEF Message
<1> QED
  BY <1>2, <1>3

\* Inserting a fresh id at its partition point keeps the ids increasing.
LEMMA InsertDocument ==
    ASSUME NEW ms \in Documents, StrictlyIncreasing(ms),
           NEW id \in Ids, id \notin IdsOf(ms),
           NEW k \in 1..(Len(ms) + 1), PartitionPoint(ms, id, k)
    PROVE  /\ InsertAt(ms, k, NewMessage(id)) \in Documents
           /\ StrictlyIncreasing(InsertAt(ms, k, NewMessage(id)))
           /\ IdsOf(InsertAt(ms, k, NewMessage(id))) = IdsOf(ms) \cup {id}
           /\ \A i \in DOMAIN InsertAt(ms, k, NewMessage(id)) :
                \/ InsertAt(ms, k, NewMessage(id))[i] = NewMessage(id)
                \/ \E j \in DOMAIN ms :
                     InsertAt(ms, k, NewMessage(id))[i] = ms[j]
           /\ ToSet(InsertAt(ms, k, NewMessage(id)))
                = ToSet(ms) \cup {NewMessage(id)}
<1>1. PICK n : n = InsertAt(ms, k, NewMessage(id))
  OBVIOUS
<1>2. NewMessage(id) \in Message /\ NewMessage(id).id = id
  BY QueueAssumption DEF NewMessage, Message, Lease, NoLease
<1>3. /\ n \in Documents
      /\ Len(n) = Len(ms) + 1
      /\ \A i \in 1..(k - 1) : n[i] = ms[i]
      /\ n[k] = NewMessage(id)
      /\ \A i \in (k + 1)..(Len(ms) + 1) : n[i] = ms[i - 1]
  <2>1. n \in Seq(Message) /\ Inserted(ms, k, NewMessage(id), n)
    BY <1>1, <1>2, InsertAtProperties DEF Documents
  <2> QED
    BY <2>1 DEF Inserted, Documents
<1>4. /\ Len(ms) \in Nat /\ k \in Nat /\ k <= Len(ms) + 1
      /\ DOMAIN ms = 1..Len(ms) /\ DOMAIN n = 1..(Len(ms) + 1)
      /\ \A i \in 1..Len(ms) : ms[i].id \in Nat
  <2>1. /\ Len(ms) \in Nat /\ DOMAIN ms = 1..Len(ms)
        /\ \A i \in 1..Len(ms) : ms[i].id \in Nat
    BY DocumentFacts
  <2>2. DOMAIN n = 1..Len(n)
    BY <1>3, DocumentFacts
  <2> QED
    BY <1>3, <2>1, <2>2
<1>5. /\ \A i \in 1..(k - 1) : ms[i].id < id
      /\ \A i \in k..Len(ms) : id < ms[i].id
  <2>1. id \in Nat /\ \A i \in 1..Len(ms) : ms[i].id # id
    BY <1>4, QueueAssumption DEF IdsOf
  <2> QED
    BY <1>4, <2>1 DEF PartitionPoint
<1>6. StrictlyIncreasing(n)
  <2> SUFFICES ASSUME NEW i \in 1..(Len(ms) + 1), NEW j \in 1..(Len(ms) + 1),
                      i < j
               PROVE  n[i].id < n[j].id
    BY <1>3 DEF StrictlyIncreasing
  <2>1. \A a, b \in 1..Len(ms) : a < b => ms[a].id < ms[b].id
    BY DEF StrictlyIncreasing
  <2>2. CASE j < k
    BY <1>3, <1>4, <2>1, <2>2
  <2>3. CASE j = k
    BY <1>2, <1>3, <1>4, <1>5, <2>3
  <2>4. CASE j > k /\ i = k
    BY <1>2, <1>3, <1>4, <1>5, <2>4
  <2>5. CASE j > k /\ i < k
    <3>1. ms[i].id < ms[j - 1].id
      BY <1>4, <2>1, <2>5
    <3> QED
      BY <1>3, <1>4, <2>5, <3>1
  <2>6. CASE j > k /\ i > k
    <3>1. ms[i - 1].id < ms[j - 1].id
      BY <1>4, <2>1, <2>6
    <3> QED
      BY <1>3, <1>4, <2>6, <3>1
  <2> QED
    BY <1>4, <2>2, <2>3, <2>4, <2>5, <2>6
<1>7. \A i \in DOMAIN n : n[i] = NewMessage(id) \/ \E j \in DOMAIN ms : n[i] = ms[j]
  BY <1>3, <1>4
<1>8. IdsOf(n) \subseteq IdsOf(ms) \cup {id}
  BY <1>2, <1>7 DEF IdsOf
<1>9. id \in IdsOf(n)
  BY <1>2, <1>3, <1>4 DEF IdsOf
<1>10. ASSUME NEW j \in DOMAIN ms
       PROVE  \E i \in DOMAIN n : n[i] = ms[j]
  <2>1. CASE j < k
    BY <2>1, <1>3, <1>4
  <2>2. CASE ~(j < k)
    <3>1. j + 1 \in DOMAIN n /\ n[j + 1] = ms[j]
      BY <2>2, <1>3, <1>4
    <3> QED
      BY <3>1
  <2> QED
    BY <2>1, <2>2
<1>11. IdsOf(n) = IdsOf(ms) \cup {id}
  <2>1. IdsOf(ms) \subseteq IdsOf(n)
    BY <1>10 DEF IdsOf
  <2> QED
    BY <1>8, <1>9, <2>1
<1>12. ToSet(n) = ToSet(ms) \cup {NewMessage(id)}
  <2>1. k \in DOMAIN n /\ n[k] = NewMessage(id)
    BY <1>3, <1>4
  <2> QED
    BY <1>7, <1>10, <2>1 DEF ToSet
<1> QED
  BY <1>1, <1>3, <1>6, <1>7, <1>11, <1>12

\* A document whose ids increase holds no message twice.
LEMMA PositionsDiffer ==
    ASSUME NEW ms \in Documents, StrictlyIncreasing(ms)
    PROVE  \A i, j \in DOMAIN ms : i # j => ms[i].id # ms[j].id /\ ms[i] # ms[j]
BY DocumentFacts DEF StrictlyIncreasing

\* Changing a message without changing its id keeps the ids as they are.
LEMMA ReplaceDocument ==
    ASSUME NEW ms \in Documents, StrictlyIncreasing(ms),
           NEW k \in 1..Len(ms), NEW m \in Message, m.id = ms[k].id
    PROVE  /\ ReplaceAt(ms, k, m) \in Documents
           /\ DOMAIN ReplaceAt(ms, k, m) = DOMAIN ms
           /\ StrictlyIncreasing(ReplaceAt(ms, k, m))
           /\ IdsOf(ReplaceAt(ms, k, m)) = IdsOf(ms)
           /\ ReplaceAt(ms, k, m)[k] = m
           /\ \A i \in DOMAIN ms : i # k => ReplaceAt(ms, k, m)[i] = ms[i]
           /\ ToSet(ReplaceAt(ms, k, m)) = (ToSet(ms) \ {ms[k]}) \cup {m}
<1>1. PICK n : n = ReplaceAt(ms, k, m)
  OBVIOUS
<1>2. /\ n \in Documents /\ Len(n) = Len(ms)
      /\ DOMAIN n = DOMAIN ms /\ DOMAIN ms = 1..Len(ms)
      /\ n[k] = m
      /\ \A i \in DOMAIN ms : i # k => n[i] = ms[i]
  BY <1>1 DEF ReplaceAt, Documents
<1>3. \A i \in DOMAIN ms : n[i].id = ms[i].id
  BY <1>2
<1>4. StrictlyIncreasing(n)
  BY <1>2, <1>3 DEF StrictlyIncreasing
<1>5. IdsOf(n) = IdsOf(ms)
  BY <1>2, <1>3 DEF IdsOf
<1>6. ToSet(n) = (ToSet(ms) \ {ms[k]}) \cup {m}
  <2>1. \A i \in DOMAIN ms : i # k => ms[i] # ms[k]
    BY PositionsDiffer
  <2> QED
    BY <1>2, <2>1 DEF ToSet
<1> QED
  BY <1>1, <1>2, <1>4, <1>5, <1>6

\* Removing a message removes its id and nothing else.
LEMMA RemoveDocument ==
    ASSUME NEW ms \in Documents, StrictlyIncreasing(ms), NEW k \in 1..Len(ms)
    PROVE  /\ RemoveAt(ms, k) \in Documents
           /\ StrictlyIncreasing(RemoveAt(ms, k))
           /\ IdsOf(RemoveAt(ms, k)) = IdsOf(ms) \ {ms[k].id}
           /\ \A i \in DOMAIN RemoveAt(ms, k) :
                \E j \in DOMAIN ms : RemoveAt(ms, k)[i] = ms[j]
           /\ ToSet(RemoveAt(ms, k)) = ToSet(ms) \ {ms[k]}
<1>1. PICK n : n = RemoveAt(ms, k)
  OBVIOUS
<1>2. /\ n \in Documents
      /\ Len(n) = Len(ms) - 1
      /\ \A i \in 1..(k - 1) : n[i] = ms[i]
      /\ \A i \in k..(Len(ms) - 1) : n[i] = ms[i + 1]
  <2>1. n \in Seq(Message) /\ Removed(ms, k, n)
    BY <1>1, RemoveAtProperties DEF Documents
  <2> QED
    BY <2>1 DEF Removed, Documents
<1>3. /\ Len(ms) \in Nat /\ k \in Nat /\ k <= Len(ms)
      /\ DOMAIN ms = 1..Len(ms) /\ DOMAIN n = 1..(Len(ms) - 1)
      /\ \A i \in 1..Len(ms) : ms[i].id \in Nat
  BY <1>2, DocumentFacts
<1>4. StrictlyIncreasing(n)
  <2> SUFFICES ASSUME NEW i \in 1..(Len(ms) - 1), NEW j \in 1..(Len(ms) - 1),
                      i < j
               PROVE  n[i].id < n[j].id
    BY <1>2 DEF StrictlyIncreasing
  <2>1. \A a, b \in 1..Len(ms) : a < b => ms[a].id < ms[b].id
    BY DEF StrictlyIncreasing
  <2>2. CASE j < k
    BY <1>2, <1>3, <2>1, <2>2
  <2>3. CASE ~(j < k) /\ i < k
    <3>1. ms[i].id < ms[j + 1].id
      BY <1>3, <2>1, <2>3
    <3>2. n[i] = ms[i] /\ n[j] = ms[j + 1]
      BY <1>2, <1>3, <2>3
    <3> QED
      BY <3>1, <3>2
  <2>4. CASE ~(i < k)
    <3>1. ms[i + 1].id < ms[j + 1].id
      BY <1>3, <2>1, <2>4
    <3> QED
      BY <1>2, <1>3, <2>4, <3>1
  <2> QED
    BY <1>3, <2>2, <2>3, <2>4
<1>5. ASSUME NEW i \in DOMAIN n
      PROVE  \E j \in DOMAIN ms : j # k /\ n[i] = ms[j]
  <2>1. CASE i < k
    BY <1>2, <1>3, <2>1
  <2>2. CASE ~(i < k)
    <3>1. i + 1 \in DOMAIN ms /\ i + 1 # k /\ n[i] = ms[i + 1]
      BY <1>2, <1>3, <2>2
    <3> QED
      BY <3>1
  <2> QED
    BY <2>1, <2>2
<1>6. \A i, j \in DOMAIN ms : i # j => ms[i].id # ms[j].id /\ ms[i] # ms[j]
  BY PositionsDiffer
<1>7. IdsOf(n) \subseteq IdsOf(ms) \ {ms[k].id}
  BY <1>3, <1>5, <1>6 DEF IdsOf
<1>8. ASSUME NEW j \in DOMAIN ms, j # k
      PROVE  \E i \in DOMAIN n : n[i] = ms[j]
  <2>1. CASE j < k
    <3>1. j \in DOMAIN n /\ n[j] = ms[j]
      BY <2>1, <1>2, <1>3
    <3> QED
      BY <3>1
  <2>2. CASE ~(j < k)
    <3>1. j - 1 \in DOMAIN n /\ n[j - 1] = ms[j]
      BY <2>2, <1>2, <1>3, <1>8
    <3> QED
      BY <3>1
  <2> QED
    BY <2>1, <2>2
<1>9. IdsOf(ms) \ {ms[k].id} \subseteq IdsOf(n)
  BY <1>8 DEF IdsOf
<1>10. ToSet(n) = ToSet(ms) \ {ms[k]}
  <2>1. k \in DOMAIN ms
    BY <1>3
  <2> QED
    BY <1>5, <1>6, <1>8, <2>1 DEF ToSet
<1> QED
  BY <1>1, <1>2, <1>4, <1>5, <1>7, <1>9, <1>10

----------------------------------------------------------------------------
(* Steps that leave the object alone. *)

\* Drawing ids and tokens and the passing of time keep what is known of the
\* object and of every request.
LEMMA Frame ==
    ASSUME TypeOK, StoreInv,
           UNCHANGED <<store, published, granted, removed>>,
           AllDrawn \subseteq AllDrawn', tokens \subseteq tokens',
           time' \in Nat, time <= time'
    PROVE  /\ StoreInv'
           /\ \A r \in Request : RequestOK(r) => RequestOK(r)'
           /\ \A r \in Request : SnapshotOK(r) => SnapshotOK(r)'
<1>1. /\ store' = store /\ published' = published
      /\ granted' = granted /\ removed' = removed
  OBVIOUS
<1>2. time \in Nat /\ MaxSkew \in Nat /\ granted \subseteq Grants
  BY QueueAssumption DEF TypeOK
<1>3. /\ StoredIds' = StoredIds /\ RemovedIds' = RemovedIds
  BY <1>1 DEF StoredIds, RemovedIds
<1>4. /\ VersionOK' /\ StoredIdsIncrease' /\ NoLostMessage' /\ AckedStaysGone'
  BY <1>1, <1>3 DEF StoreInv, VersionOK, StoredIdsIncrease, NoLostMessage,
                    AckedStaysGone
<1>5. IdsDrawn' /\ GrantsKnown'
  BY <1>1, <1>3 DEF StoreInv, IdsDrawn, GrantsKnown
<1>6. TokensUnique' /\ AttemptsDistinct' /\ OnlyLatestClaimAcks'
  BY <1>1 DEF StoreInv, TokensUnique, AttemptsDistinct, OnlyLatestClaimAcks
<1>7. MessagesOK'
  BY <1>1 DEF StoreInv, MessagesOK, MessageOK
<1>8. Superseded'
  <2> SUFFICES ASSUME NEW c \in granted, NEW d \in granted,
                      c.id = d.id, c.attempt < d.attempt
               PROVE  c.expires < d.expires /\ c.expires <= time' + MaxSkew
    BY <1>1 DEF Superseded
  <2>1. c.expires < d.expires /\ c.expires <= time + MaxSkew
    BY DEF StoreInv, Superseded
  <2>2. c.expires \in Nat
    BY <1>2, QueueAssumption DEF Grants
  <2> QED
    BY <1>2, <2>1, <2>2
<1>9. StoreInv'
  BY <1>4, <1>5, <1>6, <1>7, <1>8 DEF StoreInv
<1>10. \A r \in Request : SnapshotOK(r) => SnapshotOK(r)'
  BY <1>1 DEF SnapshotOK
<1>11. \A r \in Request : PublishOK(r) => PublishOK(r)'
  BY <1>3 DEF PublishOK
<1>12. \A r \in Request : ClaimOK(r) => ClaimOK(r)'
  <2> SUFFICES ASSUME NEW r \in Request, ClaimOK(r)
               PROVE  ClaimOK(r)'
    OBVIOUS
  <2>1. r.now \in Nat
    BY QueueAssumption DEF Request
  <2> QED
    BY <1>1, <1>2, <2>1 DEF ClaimOK
<1>13. \A r \in Request : AckOK(r) => AckOK(r)'
  BY DEF AckOK
<1>14. \A r \in Request : RequestOK(r) => RequestOK(r)'
  BY <1>10, <1>11, <1>12, <1>13 DEF RequestOK
<1> QED
  BY <1>9, <1>10, <1>14

----------------------------------------------------------------------------
(* The step in which a request is applied. *)

\* A request whose version is current was computed from the current document.
LEMMA CurrentSnapshot ==
    ASSUME NEW r, SnapshotOK(r), VersionOK, Current(r)
    PROVE  r.messages = store.messages
BY QueueAssumption DEF SnapshotOK, VersionOK, Current

\* The version after a replace: it differs from every version read before, or
\* it identifies the new content.
LEMMA NewVersion ==
    ASSUME TypeOK, NEW w \in Workers, NEW r \in Request, Apply(w, r)
    PROVE  /\ VersionOK'
           /\ \A q \in Request : SnapshotOK(q) => SnapshotOK(q)'
<1>1. store' = [version  |-> VersionAfter(Written(r)), messages |-> Written(r)]
  BY DEF Apply
<1>2. CASE ContentVersions
  <2>1. store'.version = Written(r) /\ store'.messages = Written(r)
    BY <1>1, <1>2 DEF VersionAfter
  <2> QED
    BY <1>2, <2>1 DEF VersionOK, SnapshotOK
<1>3. CASE ~ContentVersions
  <2>1. store'.version = store.version + 1 /\ store.version \in Nat
    BY <1>1, <1>3 DEF VersionAfter, TypeOK, Versions
  <2>2. \A q \in Request : q.version \in Nat
    BY <1>3 DEF Request, Versions
  <2> QED
    BY <1>3, <2>1, <2>2 DEF VersionOK, SnapshotOK
<1> QED
  BY <1>2, <1>3

\* The type of the object after a replace.
LEMMA NewObject ==
    ASSUME TypeOK, NEW w \in Workers, NEW r \in Request, Apply(w, r),
           Written(r) \in Documents
    PROVE  /\ store' \in [version : Versions, messages : Documents]
           /\ store'.messages = Written(r)
BY DEF Apply, VersionAfter, TypeOK, Versions

\* A publish that is applied.
LEMMA ApplyPublish ==
    ASSUME TypeOK, StoreInv, NEW w \in Workers, NEW r \in Request,
           RequestOK(r), r.op = "publish", Apply(w, r),
           UNCHANGED <<time, drawn, tokens>>,
           published' \subseteq published \cup {r.id}
    PROVE  /\ StoreInv'
           /\ store' \in [version : Versions, messages : Documents]
           /\ granted' \subseteq Grants /\ removed' \subseteq Removals
           /\ \A q \in Request : RequestOK(q) /\ StampsDiffer(q, r)
                                   => RequestOK(q)'
<1> DEFINE ms == store.messages
           n  == InsertAt(ms, r.index, NewMessage(r.id))
<1>1. /\ PublishOK(r) /\ SnapshotOK(r) /\ Current(r) /\ r.messages = ms
  BY CurrentSnapshot DEF RequestOK, StoreInv, Apply
<1>2. ms \in Documents /\ StrictlyIncreasing(ms)
  BY DEF TypeOK, StoreInv, StoredIdsIncrease
<1>3. r.id \in Ids /\ r.id \in AllDrawn /\ r.id \notin StoredIds \cup RemovedIds
  BY <1>1 DEF PublishOK, AllDrawn, TypeOK
<1>4. /\ n \in Documents /\ StrictlyIncreasing(n)
      /\ IdsOf(n) = IdsOf(ms) \cup {r.id}
      /\ \A i \in DOMAIN n : n[i] = NewMessage(r.id)
                               \/ \E j \in DOMAIN ms : n[i] = ms[j]
  <2>1. /\ r.index \in 1..(Len(ms) + 1) /\ PartitionPoint(ms, r.id, r.index)
        /\ r.id \notin IdsOf(ms)
    BY <1>1, <1>3 DEF PublishOK, StoredIds
  <2> QED
    BY <1>2, <1>3, <2>1, InsertDocument
<1>5. Written(r) = n
  BY <1>1 DEF Written
<1>6. /\ store' \in [version : Versions, messages : Documents]
      /\ store'.messages = n /\ granted' = granted /\ removed' = removed
      /\ time' = time /\ tokens' = tokens /\ AllDrawn' = AllDrawn
  BY <1>4, <1>5, NewObject DEF Apply, AllDrawn
<1>7. /\ VersionOK' /\ \A q \in Request : SnapshotOK(q) => SnapshotOK(q)'
  BY NewVersion
<1> HIDE DEF n, ms
<1>8. /\ StoredIds' = StoredIds \cup {r.id} /\ RemovedIds' = RemovedIds
  BY <1>4, <1>6 DEF StoredIds, RemovedIds, ms
<1>9. StoredIdsIncrease' /\ NoLostMessage' /\ AckedStaysGone' /\ IdsDrawn'
  BY <1>3, <1>4, <1>6, <1>8 DEF StoreInv, StoredIdsIncrease, NoLostMessage,
     AckedStaysGone, IdsDrawn
<1>10. GrantsKnown' /\ TokensUnique' /\ AttemptsDistinct' /\ Superseded'
       /\ OnlyLatestClaimAcks'
  BY <1>6, <1>8 DEF StoreInv, GrantsKnown, TokensUnique, AttemptsDistinct,
     Superseded, OnlyLatestClaimAcks
<1>11. MessagesOK'
  <2>1. \A c \in granted : c.id # r.id
    BY <1>3 DEF StoreInv, GrantsKnown
  <2>2. NewMessage(r.id).id = r.id /\ NewMessage(r.id).attempts = 0
        /\ NewMessage(r.id).lease.token = NoToken
    BY DEF NewMessage, NoLease
  <2>3. MessageOK(NewMessage(r.id))
    <3>1. {c.attempt : c \in {g \in granted : g.id = r.id}} = {}
      BY <2>1
    <3>2. 1..0 = {}
      OBVIOUS
    <3> QED
      BY <2>2, <3>1, <3>2 DEF MessageOK
  <2>4. \A j \in DOMAIN ms : MessageOK(ms[j])
    BY DEF StoreInv, MessagesOK, ms
  <2>5. \A i \in DOMAIN n : MessageOK(n[i])
    BY <1>4, <2>3, <2>4
  <2>6. \A m : MessageOK(m) => MessageOK(m)'
    BY <1>6 DEF MessageOK
  <2> QED
    BY <1>6, <2>5, <2>6 DEF MessagesOK
<1>12. ASSUME NEW q \in Request, RequestOK(q), StampsDiffer(q, r)
       PROVE  RequestOK(q)'
  <2>1. SnapshotOK(q)'
    BY <1>7, <1>12 DEF RequestOK
  <2>2. q.op = "publish" => PublishOK(q)'
    BY <1>6, <1>8, <1>12 DEF RequestOK, PublishOK, StampsDiffer
  <2>3. q.op = "claim" => ClaimOK(q)'
    BY <1>6, <1>12 DEF RequestOK, ClaimOK
  <2>4. q.op = "ack" => AckOK(q)'
    BY <1>12 DEF RequestOK, AckOK
  <2> QED
    BY <1>12, <2>1, <2>2, <2>3, <2>4 DEF RequestOK
<1> QED
  BY <1>6, <1>7, <1>9, <1>10, <1>11, <1>12 DEF StoreInv, TypeOK

\* An acknowledgement that is applied.
LEMMA ApplyAck ==
    ASSUME TypeOK, StoreInv, NEW w \in Workers, NEW r \in Request,
           RequestOK(r), r.op = "ack", Apply(w, r),
           UNCHANGED <<time, drawn, tokens>>, published' \subseteq published
    PROVE  /\ StoreInv'
           /\ store' \in [version : Versions, messages : Documents]
           /\ granted' \subseteq Grants /\ removed' \subseteq Removals
           /\ \A q \in Request : RequestOK(q) => RequestOK(q)'
<1> DEFINE ms == store.messages
           n  == RemoveAt(ms, r.index)
           k  == r.index
           a  == Removal(w, r)
<1>1. /\ AckOK(r) /\ SnapshotOK(r) /\ Current(r) /\ r.messages = ms
  BY CurrentSnapshot DEF RequestOK, StoreInv, Apply
<1>2. ms \in Documents /\ StrictlyIncreasing(ms)
  BY DEF TypeOK, StoreInv, StoredIdsIncrease
<1>3. /\ k \in 1..Len(ms) /\ k \in DOMAIN ms /\ ms[k] \in Message
      /\ ms[k].id = r.id /\ ms[k].lease.token = r.token
      /\ r.token \in Tokens /\ r.token # NoToken /\ r.id \in Ids
  BY <1>1, <1>2, DocumentFacts, QueueAssumption DEF AckOK
<1>4. /\ n \in Documents /\ StrictlyIncreasing(n)
      /\ IdsOf(n) = IdsOf(ms) \ {r.id}
      /\ \A i \in DOMAIN n : \E j \in DOMAIN ms : n[i] = ms[j]
  BY <1>2, <1>3, RemoveDocument
<1>5. Written(r) = n
  BY <1>1 DEF Written
<1>6. /\ store' \in [version : Versions, messages : Documents]
      /\ store'.messages = n /\ granted' = granted /\ removed' = removed \cup {a}
      /\ time' = time /\ tokens' = tokens /\ AllDrawn' = AllDrawn
  BY <1>4, <1>5, NewObject DEF Apply, AllDrawn
<1>7. /\ VersionOK' /\ \A q \in Request : SnapshotOK(q) => SnapshotOK(q)'
  BY NewVersion
<1>8. a.id = r.id /\ a.token = r.token /\ a \in Removals
  BY <1>3 DEF Removal, Removals
<1>9. r.id \in StoredIds
  BY <1>3 DEF StoredIds, IdsOf
<1> HIDE DEF n, ms, k, a
<1>10. /\ StoredIds' = StoredIds \ {r.id} /\ RemovedIds' = RemovedIds \cup {r.id}
  BY <1>4, <1>6, <1>8 DEF StoredIds, RemovedIds, ms
<1>11. StoredIdsIncrease' /\ NoLostMessage' /\ IdsDrawn'
  BY <1>4, <1>6, <1>9, <1>10 DEF StoreInv, StoredIdsIncrease, NoLostMessage, IdsDrawn
<1>12. AckedStaysGone'
  <2>1. \A b \in removed : b.id # a.id
    BY <1>8, <1>9 DEF StoreInv, AckedStaysGone, RemovedIds
  <2>2. \A b, c \in removed : b.id = c.id => b = c
    BY DEF StoreInv, AckedStaysGone
  <2>3. StoredIds' \cap RemovedIds' = {}
    BY <1>10 DEF StoreInv, AckedStaysGone
  <2> QED
    BY <1>6, <2>1, <2>2, <2>3 DEF AckedStaysGone
<1>13. GrantsKnown' /\ TokensUnique' /\ AttemptsDistinct' /\ Superseded'
  BY <1>6, <1>10 DEF StoreInv, GrantsKnown, TokensUnique, AttemptsDistinct,
     Superseded
<1>14. MessagesOK'
  <2>1. \A i \in DOMAIN n : MessageOK(n[i])
    BY <1>4 DEF StoreInv, MessagesOK, ms
  <2>2. \A m : MessageOK(m) => MessageOK(m)'
    BY <1>6 DEF MessageOK
  <2> QED
    BY <1>6, <2>1, <2>2 DEF MessagesOK
<1>15. OnlyLatestClaimAcks'
  <2>1. MessageOK(ms[k])
    BY <1>3 DEF StoreInv, MessagesOK, ms
  <2>2. ms[k].attempts \in Nat /\ ms[k].attempts > 0
    BY <1>3, <2>1, QueueAssumption DEF MessageOK, Message
  <2>3. PICK g \in granted : /\ g.id = r.id /\ g.token = r.token
                             /\ g.attempt = ms[k].attempts
    BY <1>3, <2>1, <2>2 DEF MessageOK
  <2>4. \A d \in granted : d.id = r.id => d.attempt \in 1..ms[k].attempts
    BY <1>3, <2>1 DEF MessageOK
  <2>5. \A d \in granted : d.id = r.id => d.attempt <= g.attempt
    BY <2>2, <2>3, <2>4
  <2>6. \A c \in granted : c.token = r.token => c = g
    BY <2>3 DEF StoreInv, TokensUnique
  <2> QED
    BY <1>6, <1>8, <2>3, <2>5, <2>6 DEF StoreInv, OnlyLatestClaimAcks
<1>16. ASSUME NEW q \in Request, RequestOK(q)
       PROVE  RequestOK(q)'
  <2>1. SnapshotOK(q)'
    BY <1>7, <1>16 DEF RequestOK
  <2>2. q.op = "publish" => PublishOK(q)'
    BY <1>6, <1>9, <1>10, <1>16 DEF RequestOK, PublishOK
  <2>3. q.op = "claim" => ClaimOK(q)'
    BY <1>6, <1>16 DEF RequestOK, ClaimOK
  <2>4. q.op = "ack" => AckOK(q)'
    BY <1>16 DEF RequestOK, AckOK
  <2> QED
    BY <1>16, <2>1, <2>2, <2>3, <2>4 DEF RequestOK
<1> QED
  BY <1>6, <1>7, <1>8, <1>11, <1>12, <1>13, <1>14, <1>15, <1>16
     DEF StoreInv, TypeOK

\* A claim that is applied.
LEMMA ApplyClaim ==
    ASSUME TypeOK, StoreInv, NEW w \in Workers, NEW r \in Request,
           RequestOK(r), r.op = "claim", Apply(w, r),
           UNCHANGED <<time, drawn, tokens>>, published' \subseteq published
    PROVE  /\ StoreInv'
           /\ store' \in [version : Versions, messages : Documents]
           /\ granted' \subseteq Grants /\ removed' \subseteq Removals
           /\ \A q \in Request : RequestOK(q) /\ StampsDiffer(q, r)
                                   => RequestOK(q)'
<1> DEFINE ms == store.messages
           k  == r.index
           m  == [ms[k] EXCEPT !.attempts = @ + 1,
                               !.lease = [token |-> r.token,
                                          expires |-> r.expires]]
           n  == ReplaceAt(ms, k, m)
           g  == Grant(r)
<1>1. /\ ClaimOK(r) /\ SnapshotOK(r) /\ Current(r) /\ r.messages = ms
  BY CurrentSnapshot DEF RequestOK, StoreInv, Apply
<1>2. ms \in Documents /\ StrictlyIncreasing(ms)
  BY DEF TypeOK, StoreInv, StoredIdsIncrease
<1>3. /\ k \in 1..Len(ms) /\ k \in DOMAIN ms /\ ms[k] \in Message
      /\ ms[k].attempts < MaxAttempts
      /\ r.token \in tokens /\ r.token \in Tokens /\ r.token # NoToken
      /\ \A c \in granted : c.token # r.token
  BY <1>1, <1>2, DocumentFacts, QueueAssumption DEF ClaimOK, TypeOK
<1>4. /\ m \in Message /\ m.id = ms[k].id
      /\ m.attempts = ms[k].attempts + 1 /\ ms[k].attempts \in Nat
      /\ ms[k].attempts + 1 \in 1..MaxAttempts
      /\ m.lease.token = r.token /\ m.lease.expires = r.expires
      /\ r.expires \in 0..MaxMillis /\ ms[k].id \in Ids
  <2>1. r.expires \in 0..MaxMillis
    BY DEF Request
  <2>2. ms[k] \in [id : Ids, attempts : 0..MaxAttempts, lease : Lease]
    BY <1>3 DEF Message
  <2>3. /\ ms[k].attempts + 1 \in 0..MaxAttempts /\ ms[k].attempts \in Nat
        /\ ms[k].attempts + 1 \in 1..MaxAttempts
    BY <1>3, <2>2, QueueAssumption
  <2>4. [token |-> r.token, expires |-> r.expires] \in Lease
    BY <1>3, <2>1 DEF Lease
  <2> QED
    BY <2>1, <2>2, <2>3, <2>4 DEF Message
<1>5. /\ n \in Documents /\ DOMAIN n = DOMAIN ms /\ StrictlyIncreasing(n)
      /\ IdsOf(n) = IdsOf(ms) /\ n[k] = m
      /\ \A i \in DOMAIN ms : i # k => n[i] = ms[i]
  <2> HIDE DEF m
  <2> QED
    BY <1>2, <1>3, <1>4, ReplaceDocument
<1>6. Written(r) = n
  BY <1>1 DEF Written
<1>7. /\ store' \in [version : Versions, messages : Documents]
      /\ store'.messages = n /\ granted' = granted \cup {g} /\ removed' = removed
      /\ time' = time /\ tokens' = tokens /\ AllDrawn' = AllDrawn
  BY <1>5, <1>6, NewObject DEF Apply, AllDrawn
<1>8. /\ VersionOK' /\ \A q \in Request : SnapshotOK(q) => SnapshotOK(q)'
  BY NewVersion
<1>9. /\ g.id = ms[k].id /\ g.token = r.token
      /\ g.attempt = ms[k].attempts + 1 /\ g.expires = r.expires
      /\ g = [id |-> m.id, token |-> m.lease.token, attempt |-> m.attempts,
              expires |-> m.lease.expires]
  BY <1>1, <1>4 DEF Grant
<1>10. g \in Grants
  BY <1>1, <1>3, <1>4 DEF Grant, Grants
<1>11. g.id \in StoredIds
  BY <1>3, <1>9 DEF StoredIds, IdsOf
<1> HIDE DEF n, ms, k, m, g
<1>12. StoredIds' = StoredIds /\ RemovedIds' = RemovedIds
  BY <1>5, <1>7 DEF StoredIds, RemovedIds, ms
<1>13. StoredIdsIncrease' /\ NoLostMessage' /\ IdsDrawn' /\ AckedStaysGone'
  BY <1>5, <1>7, <1>12 DEF StoreInv, StoredIdsIncrease, NoLostMessage,
     IdsDrawn, AckedStaysGone
<1>14. GrantsKnown' /\ TokensUnique'
  BY <1>3, <1>7, <1>9, <1>11, <1>12 DEF StoreInv, GrantsKnown, TokensUnique
\* The claims of this message that were granted before.
<1>15. MessageOK(ms[k])
  BY <1>3 DEF StoreInv, MessagesOK, ms
<1>16. \A c \in granted : c.id = g.id
         => c.attempt \in 1..ms[k].attempts /\ c.attempt < g.attempt
  <2>1. \A c \in granted : c.id = g.id => c.attempt \in 1..ms[k].attempts
    BY <1>9, <1>15 DEF MessageOK
  <2> QED
    BY <1>4, <1>9, <2>1
<1>17. AttemptsDistinct'
  <2>1. \A c \in granted : c.id = g.id => c.attempt # g.attempt
    BY <1>4, <1>9, <1>16
  <2> QED
    BY <1>7, <2>1 DEF StoreInv, AttemptsDistinct
<1>18. ASSUME NEW c \in granted, c.id = g.id
       PROVE  c.expires < g.expires /\ c.expires <= time + MaxSkew
  <2>1. ms[k].attempts > 0
    BY <1>4, <1>16, <1>18
  <2>2. PICK d \in granted : /\ d.id = g.id /\ d.attempt = ms[k].attempts
                             /\ d.expires = ms[k].lease.expires
    BY <1>9, <1>15, <2>1 DEF MessageOK
  <2>3. ms[k].lease.token # NoToken
    BY <1>15, <2>1, <1>4 DEF MessageOK
  <2>4. /\ ms[k].lease.expires <= r.now /\ r.now <= time + MaxSkew
        /\ r.now < r.expires
    BY <1>1, <2>3 DEF ClaimOK, FirstAvailable, Available, k
  <2>5. /\ time \in Nat /\ MaxSkew \in Nat /\ r.now \in Nat /\ r.expires \in Nat
        /\ c.expires \in Nat /\ d.expires \in Nat
        /\ c.attempt \in Nat /\ d.attempt \in Nat
    BY <1>18, <2>2, QueueAssumption DEF TypeOK, Request, Grants
  <2>6. d.expires < g.expires /\ d.expires <= time + MaxSkew
    BY <1>9, <2>2, <2>4, <2>5
  <2>7. CASE c.attempt = d.attempt
    BY <1>18, <2>2, <2>6, <2>7 DEF StoreInv, AttemptsDistinct
  <2>8. CASE c.attempt < d.attempt
    <3>1. c.expires < d.expires
      BY <1>18, <2>2, <2>8 DEF StoreInv, Superseded
    <3>2. g.expires \in Nat
      BY <1>9, <2>5
    <3> QED
      BY <2>5, <2>6, <3>1, <3>2
  <2> QED
    BY <1>16, <1>18, <2>2, <2>5, <2>7, <2>8, <1>4
<1>19. Superseded'
  <2> SUFFICES ASSUME NEW c \in granted \cup {g}, NEW d \in granted \cup {g},
                      c.id = d.id, c.attempt < d.attempt
               PROVE  c.expires < d.expires /\ c.expires <= time + MaxSkew
    BY <1>7 DEF Superseded
  <2>1. CASE c \in granted /\ d \in granted
    BY <2>1 DEF StoreInv, Superseded
  <2>2. CASE c \in granted /\ d = g
    BY <1>18, <2>2
  <2>3. CASE c = g
    <3>1. g.attempt \in Nat
      BY <1>4, <1>9
    <3>2. d \in granted /\ d.attempt < g.attempt
      BY <1>16, <2>3, <3>1
    <3>3. d.attempt \in Nat
      BY <3>2, QueueAssumption DEF TypeOK, Grants
    <3> QED
      BY <2>3, <3>1, <3>2, <3>3
  <2> QED
    BY <2>1, <2>2, <2>3
<1>20. OnlyLatestClaimAcks'
  <2>1. \A a \in removed : a.id # g.id
    BY <1>11 DEF StoreInv, AckedStaysGone, RemovedIds
  <2> QED
    BY <1>7, <2>1 DEF StoreInv, OnlyLatestClaimAcks
<1>21. MessagesOK'
  <2> SUFFICES ASSUME NEW i \in DOMAIN n, NEW x, x = n[i]
               PROVE  MessageOK(x)'
    BY <1>7 DEF MessagesOK
  <2>1. CASE i = k
    <3>1. {c.attempt : c \in {h \in granted : h.id = g.id}} = 1..ms[k].attempts
      BY <1>9, <1>15 DEF MessageOK
    <3>2. {c.attempt : c \in {h \in granted' : h.id = g.id}}
            = {c.attempt : c \in {h \in granted : h.id = g.id}} \cup {g.attempt}
      BY <1>7
    <3>3. {c.attempt : c \in {h \in granted' : h.id = g.id}} = 1..m.attempts
      BY <1>4, <1>9, <3>1, <3>2
    <3>4. x = m /\ m.id = g.id
      BY <1>4, <1>5, <1>9, <2>1
    <3>5. m.attempts > 0 /\ m.lease.token # NoToken /\ m.attempts # 0
      BY <1>3, <1>4
    <3>6. [id |-> m.id, token |-> m.lease.token, attempt |-> m.attempts,
           expires |-> m.lease.expires] \in granted'
      BY <1>7, <1>9
    <3> QED
      BY <3>3, <3>4, <3>5, <3>6 DEF MessageOK
  <2>2. CASE i # k
    <3>1. x = ms[i] /\ i \in DOMAIN ms
      BY <1>5, <2>2
    <3>2. MessageOK(ms[i])
      BY <3>1 DEF StoreInv, MessagesOK, ms
    <3>3. ms[i].id # g.id
      <4>1. /\ DOMAIN ms = 1..Len(ms) /\ Len(ms) \in Nat
            /\ \A j \in 1..Len(ms) : ms[j].id \in Nat
        BY <1>2, DocumentFacts
      <4> QED
        BY <1>2, <1>3, <1>9, <2>2, <3>1, <4>1 DEF StrictlyIncreasing
    <3>4. {h \in granted' : h.id = ms[i].id} = {h \in granted : h.id = ms[i].id}
      BY <1>7, <3>3
    <3> QED
      BY <1>7, <3>1, <3>2, <3>4 DEF MessageOK
  <2> QED
    BY <2>1, <2>2
<1>22. ASSUME NEW q \in Request, RequestOK(q), StampsDiffer(q, r)
       PROVE  RequestOK(q)'
  <2>1. SnapshotOK(q)'
    BY <1>8, <1>22 DEF RequestOK
  <2>2. q.op = "publish" => PublishOK(q)'
    BY <1>7, <1>12, <1>22 DEF RequestOK, PublishOK
  <2>3. q.op = "claim" => ClaimOK(q)'
    BY <1>7, <1>9, <1>22 DEF RequestOK, ClaimOK, StampsDiffer
  <2>4. q.op = "ack" => AckOK(q)'
    BY <1>22 DEF RequestOK, AckOK
  <2> QED
    BY <1>22, <2>1, <2>2, <2>3, <2>4 DEF RequestOK
<1>23. granted' \subseteq Grants /\ removed' \subseteq Removals
  BY <1>7, <1>10 DEF TypeOK
<1> QED
  BY <1>7, <1>8, <1>13, <1>14, <1>17, <1>19, <1>20, <1>21, <1>22, <1>23
     DEF StoreInv

----------------------------------------------------------------------------
(* Every step keeps the invariant. *)

Labels == {"idle", "prepare", "claim", "ack", "write"}

\* The empty local variables of an idle worker are well typed.
LEMMA NoRequestType == NoRequest \in Request
<1>1. <<>> \in Documents
  BY DEF Documents
<1> QED
  BY <1>1, QueueAssumption DEF NoRequest, Request, NoVersion, Versions, Ops

\* A step of one worker that leaves the object and the requests of the others
\* alone keeps the invariant when it establishes what its new label promises.
LEMMA LocalStep ==
    ASSUME IInv, NEW w \in Workers, NEW l \in Labels, NEW r \in Request,
           Goto(w, l, r),
           UNCHANGED <<store, time, inflight, published, granted, removed>>,
           drawn' \in [Processes -> SUBSET Ids], AllDrawn \subseteq AllDrawn',
           tokens' \subseteq Tokens, tokens \subseteq tokens',
           LocalOK(w)',
           l = "write" =>
             /\ \A v \in Workers : v # w /\ pc[v] = "write"
                                     => StampsDiffer(request[v], r)
             /\ \A m \in inflight : StampsDiffer(m.request, r)
    PROVE  IInv'
<1>1. /\ pc' = [pc EXCEPT ![w] = l] /\ request' = [request EXCEPT ![w] = r]
      /\ pc' \in [Workers -> Labels] /\ request' \in [Workers -> Request]
      /\ pc \in [Workers -> Labels] /\ request \in [Workers -> Request]
      /\ inflight' = inflight
      /\ inflight \subseteq [by : Workers, request : Request]
  BY DEF Goto, IInv, TypeOK, Labels
<1>2. TypeOK'
  BY <1>1 DEF IInv, TypeOK, Labels
<1>3. /\ StoreInv'
      /\ \A q \in Request : RequestOK(q) => RequestOK(q)'
      /\ \A q \in Request : SnapshotOK(q) => SnapshotOK(q)'
  <2>1. TypeOK /\ StoreInv /\ time' \in Nat /\ time <= time'
    BY QueueAssumption DEF IInv, TypeOK
  <2> QED
    BY <2>1, Frame
<1>4. ASSUME NEW v \in Workers
      PROVE  LocalOK(v)'
  <2>1. CASE v = w
    BY <2>1
  <2>2. CASE v # w
    <3>1. pc'[v] = pc[v] /\ request'[v] = request[v] /\ request[v] \in Request
      BY <1>1, <2>2
    <3>2. LocalOK(v) /\ time' = time
      BY DEF IInv
    <3> QED
      BY <1>3, <3>1, <3>2 DEF LocalOK
  <2> QED
    BY <2>1, <2>2
<1>5. \A m \in inflight' : RequestOK(m.request)'
  BY <1>1, <1>3 DEF IInv
<1>6. StampsUnique'
  <2>1. /\ \A v \in Workers : v # w => pc'[v] = pc[v] /\ request'[v] = request[v]
        /\ pc'[w] = l /\ request'[w] = r
    BY <1>1
  <2>2. \A p, q : StampsDiffer(p, q) => StampsDiffer(q, p)
    BY DEF StampsDiffer
  <2>3. \A u, v \in Workers : u # v /\ pc'[u] = "write" /\ pc'[v] = "write"
                               => StampsDiffer(request'[u], request'[v])
    BY <2>1, <2>2 DEF IInv, StampsUnique
  <2>4. \A v \in Workers, m \in inflight' :
           pc'[v] = "write" => StampsDiffer(m.request, request'[v])
    BY <1>1, <2>1 DEF IInv, StampsUnique
  <2>5. \A m, n \in inflight' : m # n => StampsDiffer(m.request, n.request)
    BY <1>1 DEF IInv, StampsUnique
  <2> QED
    BY <2>3, <2>4, <2>5 DEF StampsUnique, StampsDiffer
<1> QED
  BY <1>2, <1>3, <1>4, <1>5, <1>6 DEF IInv

\* Returning to the caller without a change of the object.
LEMMA ReturnStep ==
    ASSUME IInv, NEW w \in Workers, Return(w),
           UNCHANGED <<store, time, inflight, drawn, tokens,
                       published, granted, removed>>
    PROVE  IInv'
<1>1. NoRequest \in Request /\ Goto(w, "idle", NoRequest)
  BY NoRequestType DEF Return
<1>2. pc'[w] = "idle"
  BY <1>1 DEF Goto, IInv, TypeOK
<1>3. LocalOK(w)'
  BY <1>2 DEF LocalOK
<1>4. /\ drawn' \in [Processes -> SUBSET Ids] /\ AllDrawn' = AllDrawn
      /\ tokens' = tokens /\ tokens \subseteq Tokens /\ "idle" \in Labels
  BY DEF IInv, TypeOK, AllDrawn, Labels
<1> QED
  BY <1>1, <1>3, <1>4, LocalStep

\* What a worker knows of a request it has just decoded the object for.
LEMMA DecodedFacts ==
    ASSUME IInv, NEW w \in Workers
    PROVE  /\ Decoded(w) \in Request
           /\ Decoded(w).messages = store.messages
           /\ Decoded(w).version = store.version
           /\ Decoded(w).op = request[w].op /\ Decoded(w).id = request[w].id
           /\ Decoded(w).token = request[w].token
           /\ Decoded(w).now = request[w].now
           /\ Decoded(w).expires = request[w].expires
           /\ Decoded(w).index = request[w].index
<1>1. /\ request[w] \in Request /\ store.version \in Versions
      /\ store.messages \in Documents
  BY DEF IInv, TypeOK
<1> QED
  BY <1>1 DEF Decoded, Request

\* A request built from the object as it is now has a valid snapshot.
LEMMA FreshSnapshot ==
    ASSUME IInv, UNCHANGED store,
           NEW r, r.version = store.version, r.messages = store.messages
    PROVE  SnapshotOK(r)'
<1>1. ~ContentVersions => store.version \in Nat
  BY DEF IInv, TypeOK, Versions
<1>2. ContentVersions => store.version = store.messages
  BY DEF IInv, StoreInv, VersionOK
<1> QED
  BY <1>1, <1>2 DEF SnapshotOK

\* The passing of time, and nothing at all.
LEMMA QuietStep ==
    ASSUME IInv, time' \in 0..MaxTime, time <= time',
           UNCHANGED <<store, pc, request, inflight, drawn, tokens,
                       published, granted, removed>>
    PROVE  IInv'
<1>1. /\ UNCHANGED <<store, pc, request, inflight, drawn, tokens,
                     published, granted, removed>>
      /\ time \in Nat /\ time' \in 0..MaxTime /\ time' \in Nat /\ time <= time'
  BY QueueAssumption DEF IInv, TypeOK
<1>2. TypeOK'
  BY <1>1 DEF IInv, TypeOK
<1>3. AllDrawn' = AllDrawn /\ tokens' = tokens
  BY <1>1 DEF AllDrawn
<1>4. /\ StoreInv'
      /\ \A q \in Request : RequestOK(q) => RequestOK(q)'
      /\ \A q \in Request : SnapshotOK(q) => SnapshotOK(q)'
  BY <1>1, <1>3, Frame DEF IInv
<1>5. ASSUME NEW v \in Workers
      PROVE  LocalOK(v)'
  <2>1. request[v] \in Request /\ LocalOK(v) /\ request[v].now \in Nat
    BY QueueAssumption DEF IInv, TypeOK, Request
  <2> QED
    BY <1>1, <1>4, <2>1, QueueAssumption DEF LocalOK
<1>6. \A m \in inflight' : RequestOK(m.request)'
  BY <1>1, <1>4 DEF IInv, TypeOK
<1>7. StampsUnique'
  BY <1>1 DEF IInv, StampsUnique, StampsDiffer
<1> QED
  BY <1>2, <1>4, <1>5, <1>6, <1>7 DEF IInv

\* publish's read keeps the invariant: the snapshot is the stored document.
LEMMA PublishReadStep ==
    ASSUME IInv, NEW w \in Workers, PublishRead(w)
    PROVE  IInv'
<1>1. PICK r : r = [Decoded(w) EXCEPT !.op = "publish"]
  OBVIOUS
<1>2. /\ Goto(w, "prepare", r)
      /\ UNCHANGED <<store, time, inflight, drawn, tokens,
                     published, granted, removed>>
  BY <1>1 DEF PublishRead, Histories
<1>3. /\ r \in Request /\ r.op = "publish"
      /\ r.version = store.version /\ r.messages = store.messages
  BY <1>1, DecodedFacts DEF Request, Ops
<1>4. pc'[w] = "prepare" /\ request'[w] = r
  BY <1>2 DEF Goto, IInv, TypeOK
<1>5. SnapshotOK(r)'
  BY <1>2, <1>3, FreshSnapshot
<1>6. LocalOK(w)'
  BY <1>3, <1>4, <1>5 DEF LocalOK
<1>7. /\ drawn' \in [Processes -> SUBSET Ids] /\ AllDrawn' = AllDrawn
      /\ tokens' = tokens /\ tokens \subseteq Tokens /\ "prepare" \in Labels
  BY <1>2 DEF IInv, TypeOK, AllDrawn, Labels
<1> QED
  BY <1>2, <1>3, <1>6, <1>7, LocalStep

\* publish's preparation keeps the invariant: the drawn id is nobody else's
\* and its place keeps the snapshot sorted.
LEMMA PublishPrepareStep ==
    ASSUME IInv, NEW w \in Workers, PublishPrepare(w)
    PROVE  IInv'
<1>1. PICK id \in FreshIds(ProcessOf[w]),
           index \in 1..(Len(request[w].messages) + 1) :
         /\ PartitionPoint(request[w].messages, id, index)
         /\ drawn' = [drawn EXCEPT ![ProcessOf[w]] = @ \cup {id}]
         /\ Goto(w, "write", [request[w] EXCEPT !.id = id, !.index = index])
  BY DEF PublishPrepare
<1>2. PICK r : r = [request[w] EXCEPT !.id = id, !.index = index]
  OBVIOUS
<1>3. /\ pc[w] = "prepare"
      /\ UNCHANGED <<store, time, inflight, tokens, published, granted, removed>>
  BY DEF PublishPrepare, Histories
<1>4. /\ request[w] \in Request /\ request[w].messages \in Documents
      /\ request[w].op = "publish" /\ SnapshotOK(request[w]) /\ LocalOK(w)
  BY <1>3 DEF IInv, TypeOK, Request, LocalOK
<1>5. /\ id \in Ids /\ id \notin AllDrawn
  BY DEF FreshIds, AllDrawn
<1>6. /\ r \in Request /\ r.op = "publish" /\ r.id = id /\ r.index = index
      /\ r.messages = request[w].messages /\ r.version = request[w].version
  <2>1. index \in Nat
    BY <1>4, DocumentFacts
  <2> QED
    BY <1>2, <1>4, <1>5, <2>1 DEF Request
<1>7. /\ drawn \in [Processes -> SUBSET Ids] /\ ProcessOf[w] \in Processes
      /\ drawn' \in [Processes -> SUBSET Ids]
  BY <1>1, <1>5, QueueAssumption DEF IInv, TypeOK
<1>8. AllDrawn' = AllDrawn \cup {id}
  BY <1>1, <1>7 DEF AllDrawn
<1>9. pc'[w] = "write" /\ request'[w] = r
  BY <1>1, <1>2 DEF Goto, IInv, TypeOK
<1>10. SnapshotOK(r)'
  BY <1>3, <1>4, <1>6 DEF SnapshotOK
<1>11. PublishOK(r)'
  <2>1. id \notin StoredIds \cup RemovedIds
    BY <1>5 DEF IInv, StoreInv, IdsDrawn
  <2>2. StoredIds' = StoredIds /\ RemovedIds' = RemovedIds
    BY <1>3 DEF StoredIds, RemovedIds
  <2> QED
    BY <1>1, <1>6, <1>8, <2>1, <2>2 DEF PublishOK
<1>12. LocalOK(w)'
  BY <1>6, <1>9, <1>10, <1>11 DEF LocalOK, RequestOK
<1>13. \A q : RequestOK(q) => StampsDiffer(q, r)
  BY <1>5, <1>6 DEF RequestOK, PublishOK, StampsDiffer
<1>14. /\ \A v \in Workers : v # w /\ pc[v] = "write" => StampsDiffer(request[v], r)
       /\ \A m \in inflight : StampsDiffer(m.request, r)
  BY <1>13 DEF IInv, LocalOK
<1>15. tokens' = tokens /\ tokens \subseteq Tokens /\ "write" \in Labels
  BY <1>3 DEF IInv, TypeOK, Labels
<1> QED
  BY <1>1, <1>2, <1>3, <1>6, <1>7, <1>8, <1>12, <1>14, <1>15, LocalStep

\* A clock reading is never more than MaxSkew ahead of the true time.
LEMMA ReadingBound ==
    ASSUME TypeOK, NEW now \in Readings
    PROVE  now \in 0..MaxMillis /\ now <= time + MaxSkew
<1>1. PICK t \in (time - MaxSkew)..(time + MaxSkew) : now = NowMillis(t)
  BY DEF Readings
<1>2. time \in Nat
  BY QueueAssumption DEF TypeOK
<1> QED
  BY <1>1, <1>2, QueueAssumption DEF NowMillis

\* The start of claim keeps the invariant: the deadline lies after the reading.
LEMMA ClaimStartStep ==
    ASSUME IInv, NEW w \in Workers, ClaimStart(w)
    PROVE  IInv'
<1>1. PICK duration \in Durations, now \in Readings :
         /\ duration > 0 /\ now + duration <= MaxMillis
         /\ Goto(w, "claim", [NoRequest EXCEPT !.op = "claim", !.now = now,
                                               !.expires = now + duration])
  BY DEF ClaimStart, ValidLease
<1>2. PICK r : r = [NoRequest EXCEPT !.op = "claim", !.now = now,
                                     !.expires = now + duration]
  OBVIOUS
<1>3. UNCHANGED <<store, time, inflight, drawn, tokens,
                  published, granted, removed>>
  BY DEF ClaimStart, Histories
<1>4. /\ now \in 0..MaxMillis /\ now <= time + MaxSkew /\ time' = time
      /\ now < now + duration /\ now + duration \in 0..MaxMillis
  <2>1. now \in 0..MaxMillis /\ now <= time + MaxSkew
    BY ReadingBound DEF IInv
  <2> QED
    BY <1>1, <1>3, <2>1, QueueAssumption
<1>5. /\ r \in Request /\ r.op = "claim" /\ r.now = now
      /\ r.expires = now + duration
  BY <1>2, <1>4, NoRequestType DEF Request, Ops
<1>6. pc'[w] = "claim" /\ request'[w] = r
  BY <1>1, <1>2 DEF Goto, IInv, TypeOK
<1>7. LocalOK(w)'
  BY <1>4, <1>5, <1>6 DEF LocalOK
<1>8. /\ drawn' \in [Processes -> SUBSET Ids] /\ AllDrawn' = AllDrawn
      /\ tokens' = tokens /\ tokens \subseteq Tokens /\ "claim" \in Labels
  BY <1>3 DEF IInv, TypeOK, AllDrawn, Labels
<1> QED
  BY <1>1, <1>2, <1>3, <1>5, <1>7, <1>8, LocalStep

\* The start of ack keeps the invariant: its id and token were drawn before.
LEMMA AckStartStep ==
    ASSUME IInv, NEW w \in Workers, AckStart(w)
    PROVE  IInv'
<1>1. PICK id \in UNION {drawn[p] : p \in Processes}, token \in tokens,
           now \in Readings :
         Goto(w, "ack", [NoRequest EXCEPT !.op = "ack", !.id = id,
                                          !.token = token, !.now = now])
  BY DEF AckStart
<1>2. PICK r : r = [NoRequest EXCEPT !.op = "ack", !.id = id,
                                     !.token = token, !.now = now]
  OBVIOUS
<1>3. UNCHANGED <<store, time, inflight, drawn, tokens,
                  published, granted, removed>>
  BY DEF AckStart, Histories
<1>4. id \in Ids /\ token \in Tokens /\ now \in 0..MaxMillis
  BY ReadingBound DEF IInv, TypeOK
<1>5. r \in Request /\ r.op = "ack" /\ r.id = id /\ r.token = token
  BY <1>2, <1>4, NoRequestType DEF Request, Ops
<1>6. pc'[w] = "ack" /\ request'[w] = r
  BY <1>1, <1>2 DEF Goto, IInv, TypeOK
<1>7. LocalOK(w)'
  BY <1>4, <1>5, <1>6 DEF LocalOK
<1>8. /\ drawn' \in [Processes -> SUBSET Ids] /\ AllDrawn' = AllDrawn
      /\ tokens' = tokens /\ tokens \subseteq Tokens /\ "ack" \in Labels
  BY <1>3 DEF IInv, TypeOK, AllDrawn, Labels
<1> QED
  BY <1>1, <1>2, <1>3, <1>5, <1>7, <1>8, LocalStep

\* claim's read keeps the invariant: the lease token is nobody else's and the
\* chosen message was available at the reading.
LEMMA ClaimReadStep ==
    ASSUME IInv, NEW w \in Workers, ClaimRead(w)
    PROVE  IInv'
<1>1. /\ pc[w] = "claim"
      /\ UNCHANGED <<store, time, inflight, drawn, published, granted, removed>>
  BY DEF ClaimRead, Histories
<1>2. CASE Return(w) /\ tokens' = tokens
  BY <1>1, <1>2, ReturnStep
<1>3. ASSUME NEW index \in DOMAIN store.messages, NEW token \in Tokens \ tokens,
             FirstAvailable(store.messages, request[w].now, index),
             store.messages[index].attempts < MaxAttempts,
             tokens' = tokens \cup {token},
             Goto(w, "write", [Decoded(w) EXCEPT
                                 !.token = token, !.index = index,
                                 !.id = store.messages[index].id])
      PROVE  IInv'
  <2>1. PICK r : r = [Decoded(w) EXCEPT !.token = token, !.index = index,
                                        !.id = store.messages[index].id]
    OBVIOUS
  <2>2. /\ request[w].op = "claim" /\ request[w].now <= time + MaxSkew
        /\ request[w].now < request[w].expires
    BY <1>1 DEF IInv, LocalOK
  <2>3. /\ store.messages \in Documents /\ index \in 1..Len(store.messages)
        /\ store.messages[index].id \in Ids /\ index \in Nat
    <3>1. store.messages \in Documents
      BY DEF IInv, TypeOK
    <3> QED
      BY <3>1, DocumentFacts
  <2>4. /\ r \in Request /\ r.op = "claim" /\ r.token = token /\ r.index = index
        /\ r.messages = store.messages /\ r.version = store.version
        /\ r.now = request[w].now /\ r.expires = request[w].expires
    BY <2>1, <2>2, <2>3, DecodedFacts DEF Request
  <2>5. pc'[w] = "write" /\ request'[w] = r
    BY <1>3, <2>1 DEF Goto, IInv, TypeOK
  <2>6. SnapshotOK(r)'
    BY <1>1, <2>4, FreshSnapshot
  <2>7. \A c \in granted : c.token # token
    BY DEF IInv, StoreInv, GrantsKnown
  <2>8. ClaimOK(r)'
    BY <1>1, <1>3, <2>2, <2>3, <2>4, <2>7 DEF ClaimOK
  <2>9. LocalOK(w)'
    BY <2>4, <2>5, <2>6, <2>8 DEF LocalOK, RequestOK
  <2>10. \A q : RequestOK(q) => StampsDiffer(q, r)
    BY <2>4 DEF RequestOK, ClaimOK, StampsDiffer
  <2>11. /\ \A v \in Workers : v # w /\ pc[v] = "write" => StampsDiffer(request[v], r)
         /\ \A m \in inflight : StampsDiffer(m.request, r)
    BY <2>10 DEF IInv, LocalOK
  <2>12. /\ drawn' \in [Processes -> SUBSET Ids] /\ AllDrawn' = AllDrawn
         /\ tokens \subseteq tokens' /\ tokens' \subseteq Tokens
         /\ "write" \in Labels
    BY <1>1, <1>3 DEF IInv, TypeOK, AllDrawn, Labels
  <2> QED
    BY <1>1, <1>3, <2>1, <2>4, <2>9, <2>11, <2>12, LocalStep
<1> QED
  BY <1>2, <1>3 DEF ClaimRead

\* ack's read keeps the invariant: the message it goes on to remove carries
\* its token in the snapshot.
LEMMA AckReadStep ==
    ASSUME IInv, NEW w \in Workers, AckRead(w)
    PROVE  IInv'
<1>1. /\ pc[w] = "ack"
      /\ UNCHANGED <<store, time, inflight, drawn, tokens,
                     published, granted, removed>>
  BY DEF AckRead, Histories
<1>2. CASE Return(w)
  BY <1>1, <1>2, ReturnStep
<1>3. ASSUME NEW index \in DOMAIN store.messages,
             store.messages[index].id = request[w].id,
             MayRemove(store.messages[index], request[w].token, request[w].now),
             Goto(w, "write", [Decoded(w) EXCEPT !.index = index])
      PROVE  IInv'
  <2>1. PICK r : r = [Decoded(w) EXCEPT !.index = index]
    OBVIOUS
  <2>2. request[w].op = "ack" /\ request[w].token \in Tokens
    BY <1>1 DEF IInv, LocalOK
  <2>3. /\ store.messages \in Documents /\ index \in 1..Len(store.messages)
        /\ index \in Nat
    <3>1. store.messages \in Documents
      BY DEF IInv, TypeOK
    <3> QED
      BY <3>1, DocumentFacts
  <2>4. /\ r \in Request /\ r.op = "ack" /\ r.index = index
        /\ r.messages = store.messages /\ r.version = store.version
        /\ r.id = request[w].id /\ r.token = request[w].token
    BY <2>1, <2>2, <2>3, DecodedFacts DEF Request
  <2>5. pc'[w] = "write" /\ request'[w] = r
    BY <1>3, <2>1 DEF Goto, IInv, TypeOK
  <2>6. SnapshotOK(r)'
    BY <1>1, <2>4, FreshSnapshot
  <2>7. AckOK(r)'
    BY <1>3, <2>2, <2>3, <2>4 DEF AckOK, MayRemove
  <2>8. LocalOK(w)'
    BY <2>4, <2>5, <2>6, <2>7 DEF LocalOK, RequestOK
  <2>9. \A q : StampsDiffer(q, r)
    BY <2>4 DEF StampsDiffer
  <2>10. /\ drawn' \in [Processes -> SUBSET Ids] /\ AllDrawn' = AllDrawn
         /\ tokens' = tokens /\ tokens \subseteq Tokens /\ "write" \in Labels
    BY <1>1 DEF IInv, TypeOK, AllDrawn, Labels
  <2> QED
    BY <1>1, <1>3, <2>1, <2>4, <2>8, <2>9, <2>10, LocalStep
<1> QED
  BY <1>2, <1>3 DEF AckRead

\* Applying any request: the object's part of the invariant holds again and
\* every request with a different stamp stays good.
LEMMA Applied ==
    ASSUME TypeOK, StoreInv, NEW w \in Workers, NEW r \in Request,
           RequestOK(r), Apply(w, r), UNCHANGED <<time, drawn, tokens>>,
           published' \subseteq
             published \cup (IF r.op = "publish" THEN {r.id} ELSE {})
    PROVE  /\ StoreInv'
           /\ store' \in [version : Versions, messages : Documents]
           /\ granted' \subseteq Grants /\ removed' \subseteq Removals
           /\ \A q \in Request : RequestOK(q) /\ StampsDiffer(q, r)
                                   => RequestOK(q)'
           /\ \A q \in Request : SnapshotOK(q) => SnapshotOK(q)'
<1>1. \A q \in Request : SnapshotOK(q) => SnapshotOK(q)'
  BY NewVersion
<1>2. CASE r.op = "publish"
  <2>1. published' \subseteq published \cup {r.id}
    BY <1>2
  <2> QED
    BY <1>1, <1>2, <2>1, ApplyPublish
<1>3. CASE r.op = "claim"
  <2>1. published' \subseteq published
    BY <1>3
  <2> QED
    BY <1>1, <1>3, <2>1, ApplyClaim
<1>4. CASE r.op = "ack"
  <2>1. published' \subseteq published
    BY <1>4
  <2> QED
    BY <1>1, <1>4, <2>1, ApplyAck
<1> QED
  BY <1>2, <1>3, <1>4 DEF RequestOK

\* An applied replace keeps the invariant: its snapshot is the stored document.
LEMMA ReplaceStep ==
    ASSUME IInv, NEW w \in Workers, Replace(w)
    PROVE  IInv'
<1>1. PICK r : r = request[w]
  OBVIOUS
<1>2. /\ pc[w] = "write" /\ Apply(w, r) /\ Goto(w, "idle", NoRequest)
      /\ published' = IF r.op = "publish" THEN published \cup {r.id} ELSE published
      /\ time' = time /\ inflight' = inflight /\ drawn' = drawn /\ tokens' = tokens
  BY <1>1 DEF Replace, Return
<1>3. /\ TypeOK /\ StoreInv /\ r \in Request /\ RequestOK(r)
  BY <1>1, <1>2 DEF IInv, TypeOK, LocalOK
<1>4. /\ StoreInv'
      /\ store' \in [version : Versions, messages : Documents]
      /\ granted' \subseteq Grants /\ removed' \subseteq Removals
      /\ \A q \in Request : RequestOK(q) /\ StampsDiffer(q, r) => RequestOK(q)'
      /\ \A q \in Request : SnapshotOK(q) => SnapshotOK(q)'
  <2>1. published' \subseteq
             published \cup (IF r.op = "publish" THEN {r.id} ELSE {})
    BY <1>2
  <2> QED
    BY <1>2, <1>3, <2>1, Applied
<1>5. /\ pc' = [pc EXCEPT ![w] = "idle"]
      /\ request' = [request EXCEPT ![w] = NoRequest]
      /\ pc \in [Workers -> Labels] /\ request \in [Workers -> Request]
      /\ inflight \subseteq [by : Workers, request : Request]
  BY <1>2 DEF Goto, IInv, TypeOK, Labels
<1>6. published' \subseteq Ids
  <2>1. r.op = "publish" => r.id \in Ids
    BY <1>3 DEF RequestOK, PublishOK, AllDrawn, TypeOK
  <2> QED
    BY <1>2, <1>3, <2>1 DEF TypeOK
<1>7. TypeOK'
  BY <1>2, <1>3, <1>4, <1>5, <1>6, NoRequestType DEF TypeOK, Labels
<1>8. ASSUME NEW v \in Workers
      PROVE  LocalOK(v)'
  <2>1. CASE v = w
    <3>1. pc'[v] = "idle"
      BY <1>5, <2>1
    <3> QED
      BY <3>1 DEF LocalOK
  <2>2. CASE v # w
    <3>1. pc'[v] = pc[v] /\ request'[v] = request[v] /\ request[v] \in Request
      BY <1>5, <2>2
    <3>2. LocalOK(v) /\ (pc[v] = "write" => StampsDiffer(request[v], r))
      BY <1>1, <1>2, <2>2 DEF IInv, StampsUnique
    <3> QED
      BY <1>2, <1>4, <3>1, <3>2 DEF LocalOK
  <2> QED
    BY <2>1, <2>2
<1>9. \A m \in inflight' : RequestOK(m.request)'
  <2>1. \A m \in inflight : /\ m.request \in Request /\ RequestOK(m.request)
                            /\ StampsDiffer(m.request, r)
    BY <1>1, <1>2, <1>5 DEF IInv, StampsUnique
  <2> QED
    BY <1>2, <1>4, <2>1
<1>10. StampsUnique'
  <2>1. /\ pc'[w] = "idle"
        /\ \A v \in Workers : v # w => pc'[v] = pc[v] /\ request'[v] = request[v]
    BY <1>5
  <2> QED
    BY <1>2, <2>1 DEF IInv, StampsUnique, StampsDiffer
<1> QED
  BY <1>4, <1>7, <1>8, <1>9, <1>10 DEF IInv

\* A request without a caller keeps the invariant, applied or refused.
LEMMA LateArrivalStep ==
    ASSUME IInv, NEW m \in inflight, LateArrival(m)
    PROVE  IInv'
<1>1. PICK r : r = m.request
  OBVIOUS
<1>2. /\ inflight' = inflight \ {m}
      /\ time' = time /\ pc' = pc /\ request' = request /\ drawn' = drawn
      /\ tokens' = tokens /\ published' = published
  BY DEF LateArrival
<1>3. /\ TypeOK /\ StoreInv /\ r \in Request /\ RequestOK(r) /\ m.by \in Workers
      /\ inflight \subseteq [by : Workers, request : Request]
      /\ request \in [Workers -> Request]
  BY <1>1 DEF IInv, TypeOK
<1>4. /\ StoreInv'
      /\ store' \in [version : Versions, messages : Documents]
      /\ granted' \subseteq Grants /\ removed' \subseteq Removals
      /\ \A q \in Request : RequestOK(q) /\ StampsDiffer(q, r) => RequestOK(q)'
      /\ \A q \in Request : SnapshotOK(q) => SnapshotOK(q)'
  <2>1. CASE Apply(m.by, r)
    <3>1. published' \subseteq
             published \cup (IF r.op = "publish" THEN {r.id} ELSE {})
      BY <1>2
    <3> QED
      BY <1>2, <1>3, <2>1, <3>1, Applied
  <2>2. CASE UNCHANGED <<store, granted, removed>>
    <3>1. AllDrawn' = AllDrawn /\ time' \in Nat /\ time <= time'
      BY <1>2, <1>3, QueueAssumption DEF AllDrawn, TypeOK
    <3> QED
      BY <1>2, <1>3, <2>2, <3>1, Frame DEF TypeOK
  <2> QED
    BY <1>1, <2>1, <2>2 DEF LateArrival
<1>5. TypeOK'
  BY <1>2, <1>3, <1>4 DEF TypeOK
<1>6. \A p, q : StampsDiffer(p, q) => StampsDiffer(q, p)
  BY DEF StampsDiffer
<1>7. ASSUME NEW v \in Workers
      PROVE  LocalOK(v)'
  <2>1. /\ LocalOK(v) /\ request[v] \in Request
        /\ pc[v] = "write" => StampsDiffer(request[v], r)
    BY <1>1, <1>3, <1>6 DEF IInv, StampsUnique
  <2> QED
    BY <1>2, <1>4, <2>1 DEF LocalOK
<1>8. \A n \in inflight' : RequestOK(n.request)'
  <2>1. \A n \in inflight' : /\ n.request \in Request /\ RequestOK(n.request)
                             /\ StampsDiffer(n.request, r)
    BY <1>1, <1>2, <1>3 DEF IInv, StampsUnique
  <2> QED
    BY <1>4, <2>1
<1>9. StampsUnique'
  BY <1>2 DEF IInv, StampsUnique, StampsDiffer
<1> QED
  BY <1>4, <1>5, <1>7, <1>8, <1>9 DEF IInv

\* Giving up on a request keeps the invariant: its stamps move with it.
LEMMA LoseReplyStep ==
    ASSUME IInv, NEW w \in Workers, LoseReply(w)
    PROVE  IInv'
<1>1. PICK n : n = [by |-> w, request |-> request[w]]
  OBVIOUS
<1>2. /\ pc[w] = "write" /\ Goto(w, "idle", NoRequest)
      /\ inflight' = inflight \cup {n}
      /\ UNCHANGED <<store, time, drawn, tokens, published, granted, removed>>
  BY <1>1 DEF LoseReply, Return, Histories
<1>3. /\ pc' = [pc EXCEPT ![w] = "idle"]
      /\ request' = [request EXCEPT ![w] = NoRequest]
      /\ pc \in [Workers -> Labels] /\ request \in [Workers -> Request]
      /\ inflight \subseteq [by : Workers, request : Request]
      /\ n.request = request[w] /\ n \in [by : Workers, request : Request]
  BY <1>1, <1>2 DEF Goto, IInv, TypeOK, Labels
<1>4. TypeOK'
  BY <1>2, <1>3, NoRequestType DEF IInv, TypeOK, Labels
<1>5. /\ StoreInv'
      /\ \A q \in Request : RequestOK(q) => RequestOK(q)'
      /\ \A q \in Request : SnapshotOK(q) => SnapshotOK(q)'
  <2>1. /\ TypeOK /\ StoreInv /\ time' \in Nat /\ time <= time'
        /\ AllDrawn' = AllDrawn /\ tokens' = tokens
    BY <1>2, QueueAssumption DEF IInv, TypeOK, AllDrawn
  <2> QED
    BY <1>2, <2>1, Frame
<1>6. ASSUME NEW v \in Workers
      PROVE  LocalOK(v)'
  <2>1. CASE v = w
    <3>1. pc'[v] = "idle"
      BY <1>3, <2>1
    <3> QED
      BY <3>1 DEF LocalOK
  <2>2. CASE v # w
    <3>1. pc'[v] = pc[v] /\ request'[v] = request[v] /\ request[v] \in Request
      BY <1>3, <2>2
    <3>2. LocalOK(v) /\ time' = time
      BY <1>2 DEF IInv
    <3> QED
      BY <1>5, <3>1, <3>2 DEF LocalOK
  <2> QED
    BY <2>1, <2>2
<1>7. RequestOK(request[w])
  BY <1>2 DEF IInv, LocalOK
<1>8. \A m \in inflight' : RequestOK(m.request)'
  <2>1. \A m \in inflight' : m.request \in Request /\ RequestOK(m.request)
    BY <1>2, <1>3, <1>7 DEF IInv
  <2> QED
    BY <1>5, <2>1
<1>9. StampsUnique'
  <2>1. /\ pc'[w] = "idle"
        /\ \A v \in Workers : v # w => pc'[v] = pc[v] /\ request'[v] = request[v]
    BY <1>3
  <2>2. /\ \A m \in inflight : /\ StampsDiffer(m.request, n.request)
                               /\ StampsDiffer(n.request, m.request)
        /\ \A v \in Workers : v # w /\ pc[v] = "write"
                               => StampsDiffer(n.request, request[v])
    BY <1>2, <1>3 DEF IInv, StampsUnique, StampsDiffer
  <2>3. \A m, k \in inflight' : m # k => StampsDiffer(m.request, k.request)
    BY <1>2, <2>2 DEF IInv, StampsUnique
  <2>4. \A v \in Workers, m \in inflight' :
           pc'[v] = "write" => StampsDiffer(m.request, request'[v])
    BY <1>2, <2>1, <2>2 DEF IInv, StampsUnique
  <2>5. \A u, v \in Workers : u # v /\ pc'[u] = "write" /\ pc'[v] = "write"
                               => StampsDiffer(request'[u], request'[v])
    BY <2>1 DEF IInv, StampsUnique
  <2> QED
    BY <2>3, <2>4, <2>5 DEF StampsUnique, StampsDiffer
<1> QED
  BY <1>4, <1>5, <1>6, <1>8, <1>9 DEF IInv

----------------------------------------------------------------------------
(* The theorems *)

\* The empty queue satisfies the invariant.
LEMMA InitIInv == Init => IInv
<1> SUFFICES ASSUME Init
             PROVE  IInv
  OBVIOUS
<1>1. <<>> \in Documents /\ Len(<<>>) = 0 /\ DOMAIN <<>> = {}
  BY DEF Documents
<1>2. TypeOK
  BY <1>1, NoRequestType, QueueAssumption DEF Init, TypeOK, NoVersion, Versions
<1>3. StoredIds = {} /\ RemovedIds = {}
  BY <1>1 DEF Init, StoredIds, IdsOf, RemovedIds
<1>4. StoreInv
  <2>1. VersionOK /\ StoredIdsIncrease
    BY <1>1 DEF Init, VersionOK, NoVersion, StoredIdsIncrease, StrictlyIncreasing
  <2>2. MessagesOK
    BY <1>1 DEF Init, MessagesOK
  <2> QED
    BY <1>3, <2>1, <2>2 DEF Init, StoreInv, NoLostMessage, AckedStaysGone,
       IdsDrawn, GrantsKnown, TokensUnique, AttemptsDistinct, Superseded,
       OnlyLatestClaimAcks
<1>5. \A w \in Workers : LocalOK(w)
  BY DEF Init, LocalOK
<1>6. StampsUnique /\ \A m \in inflight : RequestOK(m.request)
  BY DEF Init, StampsUnique
<1> QED
  BY <1>2, <1>4, <1>5, <1>6 DEF IInv

\* Every step keeps the invariant: one case per action of the queue.
LEMMA NextIInv == IInv /\ [Next]_vars => IInv'
<1> SUFFICES ASSUME IInv, [Next]_vars
             PROVE  IInv'
  OBVIOUS
<1>1. CASE Tick
  BY <1>1, QuietStep, QueueAssumption DEF Tick, Histories, IInv, TypeOK
<1>2. ASSUME NEW w \in Workers, PublishRead(w)
      PROVE  IInv'
  BY <1>2, PublishReadStep
<1>3. ASSUME NEW w \in Workers, PublishPrepare(w)
      PROVE  IInv'
  BY <1>3, PublishPrepareStep
<1>4. ASSUME NEW w \in Workers, ClaimStart(w)
      PROVE  IInv'
  BY <1>4, ClaimStartStep
<1>5. ASSUME NEW w \in Workers, ClaimRead(w)
      PROVE  IInv'
  BY <1>5, ClaimReadStep
<1>6. ASSUME NEW w \in Workers, AckStart(w)
      PROVE  IInv'
  BY <1>6, AckStartStep
<1>7. ASSUME NEW w \in Workers, AckRead(w)
      PROVE  IInv'
  BY <1>7, AckReadStep
<1>8. ASSUME NEW w \in Workers, Replace(w)
      PROVE  IInv'
  BY <1>8, ReplaceStep
<1>9. ASSUME NEW w \in Workers, Conflict(w)
      PROVE  IInv'
  BY <1>9, ReturnStep DEF Conflict, Histories
<1>10. ASSUME NEW w \in Workers, LoseReply(w)
       PROVE  IInv'
  BY <1>10, LoseReplyStep
<1>11. ASSUME NEW w \in Workers, Abandon(w)
       PROVE  IInv'
  BY <1>11, ReturnStep DEF Abandon, Histories
<1>12. ASSUME NEW m \in inflight, LateArrival(m)
       PROVE  IInv'
  BY <1>12, LateArrivalStep
<1>13. CASE UNCHANGED vars
  BY <1>13, QuietStep, QueueAssumption DEF vars, IInv, TypeOK
<1> QED
  BY <1>1, <1>2, <1>3, <1>4, <1>5, <1>6, <1>7, <1>8, <1>9, <1>10, <1>11,
     <1>12, <1>13 DEF Next, Step

\* The inductive invariant holds in every reachable state.
THEOREM Invariance == Spec => []IInv
<1>1. Init => IInv
  BY InitIInv
<1>2. IInv /\ [Next]_vars => IInv'
  BY NextIInv
<1> QED
  BY <1>1, <1>2, PTL DEF Spec

\* Type correctness of the queue for every value of the constants.
THEOREM TypeCorrect == Spec => []TypeOK
<1>1. IInv => TypeOK
  BY DEF IInv
<1> QED
  BY <1>1, Invariance, PTL

\* read() never reports a document this code wrote as Corrupt: StoredIdsIncrease.
THEOREM DocumentsStaySorted == Spec => []StoredIdsIncrease
<1>1. IInv => StoredIdsIncrease
  BY DEF IInv, StoreInv
<1> QED
  BY <1>1, Invariance, PTL

\* No published message is lost before an acknowledgement of it is applied.
THEOREM AtLeastOnce == Spec => []NoLostMessage
<1>1. IInv => NoLostMessage
  BY DEF IInv, StoreInv
<1> QED
  BY <1>1, Invariance, PTL

\* An acknowledged message never returns, whatever is applied late.
THEOREM AckedNeverReturns == Spec => []AckedStaysGone
<1>1. IInv => AckedStaysGone
  BY DEF IInv, StoreInv
<1> QED
  BY <1>1, Invariance, PTL

\* Attempt numbers count the applied claims of a message without gap or reuse.
THEOREM AttemptsExact == Spec => []AttemptsCountClaims
<1>1. IInv => AttemptsCountClaims
  BY DEF IInv, StoreInv, MessagesOK, MessageOK, AttemptsDistinct,
         AttemptsCountClaims
<1> QED
  BY <1>1, Invariance, PTL

\* Only the token of the latest claim of a message removes it.
THEOREM StaleTokensPowerless == Spec => []OnlyLatestClaimAcks
<1>1. IInv => OnlyLatestClaimAcks
  BY DEF IInv, StoreInv
<1> QED
  BY <1>1, Invariance, PTL

\* Every reclaim has a later deadline than all earlier claims of the message.
THEOREM DeadlinesIncrease == Spec => []DeadlinesGrow
<1>1. IInv => DeadlinesGrow
  BY DEF IInv, StoreInv, Superseded, DeadlinesGrow
<1> QED
  BY <1>1, Invariance, PTL

\* Two claims of a message never both have a deadline beyond the clock error,
\* for every bound MaxSkew on that error.
THEOREM LeasesExclude == Spec => []LeaseExclusive
<1>1. IInv => LeaseExclusive
  <2> SUFFICES ASSUME IInv, NEW c \in granted, NEW d \in granted, c.id = d.id,
                      c.expires > time + MaxSkew, d.expires > time + MaxSkew
               PROVE  c = d
    BY DEF LeaseExclusive
  <2>1. /\ c.attempt \in Nat /\ d.attempt \in Nat /\ c.expires \in Nat
        /\ d.expires \in Nat /\ time \in Nat /\ MaxSkew \in Nat
    BY QueueAssumption DEF IInv, TypeOK, Grants
  <2>2. CASE c.attempt = d.attempt
    BY <2>2 DEF IInv, StoreInv, AttemptsDistinct
  <2>3. CASE c.attempt < d.attempt
    BY <2>1, <2>3 DEF IInv, StoreInv, Superseded
  <2>4. CASE d.attempt < c.attempt
    BY <2>1, <2>4 DEF IInv, StoreInv, Superseded
  <2> QED
    BY <2>1, <2>2, <2>3, <2>4
<1> QED
  BY <1>1, Invariance, PTL

----------------------------------------------------------------------------
(* The order of publication.  A publish inserts above every message of its *)
(* own process that its snapshot shows: the snapshot held only ids that    *)
(* were drawn before it was read, and its own id was drawn after.          *)

\* r's id is above every id its process has in r's snapshot.
AppendsOK(r) ==
    /\ r.id \in AllDrawn
    /\ IdsOf(r.messages) \subseteq AllDrawn
    /\ \A p \in Processes : r.id \in drawn[p] =>
          \A old \in IdsOf(r.messages) \cap drawn[p] : old < r.id

OrderOK(w) ==
    /\ pc[w] = "prepare" => IdsOf(request[w].messages) \subseteq AllDrawn
    /\ pc[w] = "write" /\ request[w].op = "publish" => AppendsOK(request[w])

OrderInv ==
    /\ \A w \in Workers : OrderOK(w)
    /\ \A m \in inflight : m.request.op = "publish" => AppendsOK(m.request)

\* A step of one worker keeps the order when the ids drawn stay the same and
\* it establishes what its new label promises.
LEMMA LocalOrder ==
    ASSUME IInv, OrderInv, NEW w \in Workers, NEW l, NEW r, Goto(w, l, r),
           inflight' = inflight, AllDrawn \subseteq AllDrawn',
           \A q : AppendsOK(q) => AppendsOK(q)',
           l = "prepare" => IdsOf(r.messages) \subseteq AllDrawn',
           l = "write" /\ r.op = "publish" => AppendsOK(r)'
    PROVE  OrderInv'
<1>1. /\ pc'[w] = l /\ request'[w] = r
      /\ \A v \in Workers : v # w => pc'[v] = pc[v] /\ request'[v] = request[v]
  BY DEF Goto, IInv, TypeOK
<1>2. ASSUME NEW v \in Workers
      PROVE  OrderOK(v)'
  <2>1. CASE v = w
    BY <1>1, <2>1 DEF OrderOK
  <2>2. CASE v # w
    <3>1. PICK q : q = request[v]
      OBVIOUS
    <3>2. /\ pc[v] = "prepare" => IdsOf(q.messages) \subseteq AllDrawn
          /\ pc[v] = "write" /\ q.op = "publish" => AppendsOK(q)
      BY <3>1 DEF OrderInv, OrderOK
    <3> QED
      BY <1>1, <2>2, <3>1, <3>2 DEF OrderOK
  <2> QED
    BY <2>1, <2>2
<1>3. \A m \in inflight' : m.request.op = "publish" => AppendsOK(m.request)'
  BY DEF OrderInv
<1> QED
  BY <1>2, <1>3 DEF OrderInv

\* Returning to the caller keeps the order.
LEMMA ReturnOrder ==
    ASSUME IInv, OrderInv, NEW w \in Workers, Return(w),
           UNCHANGED <<inflight, drawn>>
    PROVE  OrderInv'
<1>1. AllDrawn' = AllDrawn /\ \A q : AppendsOK(q) => AppendsOK(q)'
  BY DEF AllDrawn, AppendsOK
<1> QED
  BY <1>1, LocalOrder DEF Return

\* The preparation of a publish keeps the order: no id of the snapshot, and no
\* id of a request under way, is the one drawn now.
LEMMA PrepareOrder ==
    ASSUME IInv, OrderInv, NEW w \in Workers, PublishPrepare(w)
    PROVE  OrderInv'
<1>1. PICK id \in FreshIds(ProcessOf[w]),
           index \in 1..(Len(request[w].messages) + 1) :
         /\ drawn' = [drawn EXCEPT ![ProcessOf[w]] = @ \cup {id}]
         /\ Goto(w, "write", [request[w] EXCEPT !.id = id, !.index = index])
  BY DEF PublishPrepare
<1>2. PICK r : r = [request[w] EXCEPT !.id = id, !.index = index]
  OBVIOUS
<1>3. PICK p \in Processes : p = ProcessOf[w]
  BY QueueAssumption
<1>4. /\ id \notin AllDrawn /\ \A old \in drawn[p] : old < id
      /\ \A q \in Processes : id \notin drawn[q]
  BY <1>3 DEF FreshIds, AllDrawn
<1>5. /\ drawn'[p] = drawn[p] \cup {id}
      /\ \A q \in Processes : q # p => drawn'[q] = drawn[q]
  BY <1>1, <1>3 DEF IInv, TypeOK
<1>6. AllDrawn' = AllDrawn \cup {id}
  BY <1>5 DEF AllDrawn
<1>7. /\ r.id = id /\ r.messages = request[w].messages
      /\ IdsOf(r.messages) \subseteq AllDrawn
  <2>1. request[w] \in Request /\ pc[w] = "prepare"
    BY DEF IInv, TypeOK, PublishPrepare
  <2>2. r.id = id /\ r.messages = request[w].messages
    BY <1>2, <2>1 DEF Request
  <2> QED
    BY <2>1, <2>2 DEF OrderInv, OrderOK
<1>8. AppendsOK(r)'
  <2>1. \A q \in Processes : id \in drawn'[q] => q = p
    BY <1>4, <1>5
  <2>2. \A old \in IdsOf(r.messages) \cap drawn'[p] : old < id
    BY <1>4, <1>5, <1>7
  <2> QED
    BY <1>6, <1>7, <2>1, <2>2 DEF AppendsOK
<1>9. ASSUME NEW q, AppendsOK(q)
      PROVE  AppendsOK(q)'
  <2>1. q.id # id /\ id \notin IdsOf(q.messages)
    BY <1>4, <1>9 DEF AppendsOK
  <2> QED
    BY <1>5, <1>6, <1>9, <2>1 DEF AppendsOK
<1> QED
  BY <1>1, <1>2, <1>6, <1>8, <1>9, LocalOrder DEF PublishPrepare

\* The empty queue is in order.
LEMMA InitOrder == Init => OrderInv
BY DEF Init, OrderInv, OrderOK

\* Every step keeps the order of publication.
LEMMA NextOrder == IInv /\ OrderInv /\ [Next]_vars => OrderInv'
<1> SUFFICES ASSUME IInv, OrderInv, [Next]_vars
             PROVE  OrderInv'
  OBVIOUS
<1>1. ASSUME drawn' = drawn
      PROVE  AllDrawn' = AllDrawn /\ \A q : AppendsOK(q) => AppendsOK(q)'
  BY <1>1 DEF AllDrawn, AppendsOK
<1>2. CASE UNCHANGED <<pc, request, inflight, drawn>>
  BY <1>1, <1>2 DEF OrderInv, OrderOK
<1>3. ASSUME NEW w \in Workers, PublishRead(w)
      PROVE  OrderInv'
  <2>1. PICK r : r = [Decoded(w) EXCEPT !.op = "publish"]
    OBVIOUS
  <2>2. Goto(w, "prepare", r) /\ inflight' = inflight /\ drawn' = drawn
    BY <1>3, <2>1 DEF PublishRead
  <2>3. IdsOf(r.messages) \subseteq AllDrawn
    <3>1. r.messages = store.messages
      BY <2>1, DecodedFacts DEF Request
    <3> QED
      BY <3>1 DEF IInv, StoreInv, IdsDrawn, StoredIds
  <2> QED
    BY <1>1, <2>2, <2>3, LocalOrder
<1>4. ASSUME NEW w \in Workers, PublishPrepare(w)
      PROVE  OrderInv'
  BY <1>4, PrepareOrder
<1>5. ASSUME NEW w \in Workers, ClaimStart(w)
      PROVE  OrderInv'
  <2>1. PICK r : Goto(w, "claim", r)
    BY <1>5 DEF ClaimStart
  <2> QED
    BY <1>1, <1>5, <2>1, LocalOrder DEF ClaimStart
<1>6. ASSUME NEW w \in Workers, ClaimRead(w)
      PROVE  OrderInv'
  <2>1. inflight' = inflight /\ drawn' = drawn /\ request[w].op = "claim"
    BY <1>6 DEF ClaimRead, IInv, LocalOK
  <2>2. CASE Return(w)
    BY <2>1, <2>2, ReturnOrder
  <2>3. ASSUME NEW index, NEW token,
               Goto(w, "write", [Decoded(w) EXCEPT
                                   !.token = token, !.index = index,
                                   !.id = store.messages[index].id])
        PROVE  OrderInv'
    <3>1. PICK r : r = [Decoded(w) EXCEPT !.token = token, !.index = index,
                                          !.id = store.messages[index].id]
      OBVIOUS
    <3>2. r.op = "claim"
      BY <2>1, <3>1, DecodedFacts DEF Request
    <3> QED
      BY <1>1, <2>1, <2>3, <3>1, <3>2, LocalOrder
  <2> QED
    BY <1>6, <2>2, <2>3 DEF ClaimRead
<1>7. ASSUME NEW w \in Workers, AckStart(w)
      PROVE  OrderInv'
  <2>1. PICK r : Goto(w, "ack", r)
    BY <1>7 DEF AckStart
  <2> QED
    BY <1>1, <1>7, <2>1, LocalOrder DEF AckStart
<1>8. ASSUME NEW w \in Workers, AckRead(w)
      PROVE  OrderInv'
  <2>1. inflight' = inflight /\ drawn' = drawn /\ request[w].op = "ack"
    BY <1>8 DEF AckRead, IInv, LocalOK
  <2>2. CASE Return(w)
    BY <2>1, <2>2, ReturnOrder
  <2>3. ASSUME NEW index, Goto(w, "write", [Decoded(w) EXCEPT !.index = index])
        PROVE  OrderInv'
    <3>1. PICK r : r = [Decoded(w) EXCEPT !.index = index]
      OBVIOUS
    <3>2. r.op = "ack"
      BY <2>1, <3>1, DecodedFacts DEF Request
    <3> QED
      BY <1>1, <2>1, <2>3, <3>1, <3>2, LocalOrder
  <2> QED
    BY <1>8, <2>2, <2>3 DEF AckRead
<1>9. ASSUME NEW w \in Workers, Replace(w) \/ Conflict(w) \/ Abandon(w)
      PROVE  OrderInv'
  BY <1>9, ReturnOrder DEF Replace, Conflict, Abandon
<1>10. ASSUME NEW w \in Workers, LoseReply(w)
       PROVE  OrderInv'
  <2>1. PICK n : n = [by |-> w, request |-> request[w]]
    OBVIOUS
  <2>2. /\ n.request = request[w] /\ inflight' = inflight \cup {n}
        /\ pc[w] = "write" /\ Goto(w, "idle", NoRequest) /\ drawn' = drawn
    BY <1>10, <2>1 DEF LoseReply, Return
  <2>3. n.request.op = "publish" => AppendsOK(n.request)
    BY <2>2 DEF OrderInv, OrderOK
  <2>4. \A m \in inflight' : m.request.op = "publish" => AppendsOK(m.request)'
    BY <1>1, <2>2, <2>3 DEF OrderInv
  <2>5. ASSUME NEW v \in Workers
        PROVE  OrderOK(v)'
    <3>1. /\ pc'[w] = "idle"
          /\ v # w => pc'[v] = pc[v] /\ request'[v] = request[v]
      BY <2>2 DEF Goto, IInv, TypeOK
    <3>2. PICK q : q = request[v]
      OBVIOUS
    <3>3. /\ pc[v] = "prepare" => IdsOf(q.messages) \subseteq AllDrawn
          /\ pc[v] = "write" /\ q.op = "publish" => AppendsOK(q)
      BY <3>2 DEF OrderInv, OrderOK
    <3> QED
      BY <1>1, <2>2, <3>1, <3>2, <3>3 DEF OrderOK
  <2> QED
    BY <2>4, <2>5 DEF OrderInv
<1>11. ASSUME NEW m \in inflight, LateArrival(m)
       PROVE  OrderInv'
  <2>1. /\ inflight' \subseteq inflight /\ pc' = pc /\ request' = request
        /\ drawn' = drawn
    BY <1>11 DEF LateArrival
  <2> QED
    BY <1>1, <2>1 DEF OrderInv, OrderOK
<1>12. CASE Tick
  BY <1>2, <1>12 DEF Tick
<1>13. CASE UNCHANGED vars
  BY <1>2, <1>13 DEF vars
<1> QED
  BY <1>3, <1>4, <1>5, <1>6, <1>7, <1>8, <1>9, <1>10, <1>11, <1>12, <1>13
     DEF Next, Step

\* The object changes only when a request that satisfies the invariant is
\* applied.
LEMMA ChangesApply ==
    ASSUME IInv, [Next]_vars
    PROVE  \/ /\ UNCHANGED <<store, granted, removed>>
              /\ time' = time \/ time' = time + 1
           \/ \E w \in Workers, r \in Request :
                /\ RequestOK(r) /\ Apply(w, r) /\ time' = time
                /\ \/ \E v \in Workers : pc[v] = "write" /\ r = request[v]
                   \/ \E m \in inflight : r = m.request
<1>1. ASSUME NEW w \in Workers, Replace(w)
      PROVE  /\ request[w] \in Request /\ RequestOK(request[w])
             /\ pc[w] = "write" /\ Apply(w, request[w]) /\ time' = time
  BY <1>1 DEF Replace, IInv, LocalOK, TypeOK
<1>2. ASSUME NEW m \in inflight, LateArrival(m)
      PROVE  /\ m.request \in Request /\ RequestOK(m.request)
             /\ m.by \in Workers /\ time' = time
             /\ \/ Apply(m.by, m.request)
                \/ UNCHANGED <<store, granted, removed>>
  BY <1>2 DEF LateArrival, IInv, TypeOK
<1>3. ASSUME NEW w \in Workers, Step(w), ~Replace(w)
      PROVE  UNCHANGED <<store, granted, removed, time>>
  BY <1>3 DEF Step, PublishRead, PublishPrepare, ClaimStart, ClaimRead, AckStart,
     AckRead, Conflict, LoseReply, Abandon, Histories
<1>4. CASE Tick
  BY <1>4 DEF Tick, Histories
<1>5. CASE UNCHANGED vars
  BY <1>5 DEF vars
<1> QED
  BY <1>1, <1>2, <1>3, <1>4, <1>5 DEF Next

\* What the ids and messages of the object become when a request is applied.
LEMMA Effect ==
    ASSUME TypeOK, StoreInv, NEW w \in Workers, NEW r \in Request,
           RequestOK(r), Apply(w, r)
    PROVE  /\ r.messages = store.messages
           /\ r.op = "publish" =>
                /\ ToSet(store'.messages)
                     = ToSet(store.messages) \cup {NewMessage(r.id)}
                /\ StoredIds' = StoredIds \cup {r.id}
           /\ r.op = "claim" =>
                /\ ToSet(store'.messages)
                     = (ToSet(store.messages) \ {store.messages[r.index]})
                         \cup {[store.messages[r.index] EXCEPT
                                  !.attempts = @ + 1,
                                  !.lease = [token |-> r.token,
                                             expires |-> r.expires]]}
                /\ StoredIds' = StoredIds
           /\ r.op = "ack" =>
                /\ ToSet(store'.messages)
                     = ToSet(store.messages) \ {store.messages[r.index]}
                /\ StoredIds' = StoredIds \ {r.id}
<1>1. PICK ms : ms = store.messages
  OBVIOUS
<1>2. /\ ms \in Documents /\ StrictlyIncreasing(ms) /\ r.messages = ms
      /\ store'.messages = Written(r)
  BY <1>1, CurrentSnapshot DEF TypeOK, StoreInv, StoredIdsIncrease, RequestOK, Apply
<1>3. ASSUME r.op = "publish"
      PROVE  /\ ToSet(Written(r)) = ToSet(ms) \cup {NewMessage(r.id)}
             /\ IdsOf(Written(r)) = IdsOf(ms) \cup {r.id}
  <2>1. Written(r) = InsertAt(ms, r.index, NewMessage(r.id))
    BY <1>2, <1>3 DEF Written
  <2>2. /\ r.index \in 1..(Len(ms) + 1) /\ PartitionPoint(ms, r.id, r.index)
        /\ r.id \in Ids /\ r.id \notin IdsOf(ms)
    BY <1>1, <1>2, <1>3 DEF RequestOK, PublishOK, StoredIds, AllDrawn, TypeOK
  <2> QED
    BY <1>2, <2>1, <2>2, InsertDocument
<1>4. ASSUME r.op = "claim"
      PROVE  /\ ToSet(Written(r)) = (ToSet(ms) \ {ms[r.index]})
                  \cup {[ms[r.index] EXCEPT
                           !.attempts = @ + 1,
                           !.lease = [token |-> r.token,
                                      expires |-> r.expires]]}
             /\ IdsOf(Written(r)) = IdsOf(ms)
  <2>1. PICK m : m = [ms[r.index] EXCEPT
                        !.attempts = @ + 1,
                        !.lease = [token |-> r.token, expires |-> r.expires]]
    OBVIOUS
  <2>2. Written(r) = ReplaceAt(ms, r.index, m)
    BY <1>2, <1>4, <2>1 DEF Written
  <2>3. /\ r.index \in 1..Len(ms) /\ ms[r.index] \in Message
        /\ ms[r.index].attempts < MaxAttempts /\ r.token \in Tokens
        /\ r.expires \in 0..MaxMillis
    BY <1>2, <1>4, DocumentFacts DEF RequestOK, ClaimOK, TypeOK, Request
  <2>4. ms[r.index].attempts + 1 \in 0..MaxAttempts
    BY <2>3, QueueAssumption DEF Message
  <2>5. [token |-> r.token, expires |-> r.expires] \in Lease
    BY <2>3 DEF Lease
  <2>6. m \in Message /\ m.id = ms[r.index].id
    BY <2>1, <2>3, <2>4, <2>5 DEF Message
  <2>7. /\ ToSet(Written(r)) = (ToSet(ms) \ {ms[r.index]}) \cup {m}
        /\ IdsOf(Written(r)) = IdsOf(ms)
    BY <1>2, <2>2, <2>3, <2>6, ReplaceDocument
  <2> QED
    BY <2>1, <2>7
<1>5. ASSUME r.op = "ack"
      PROVE  /\ ToSet(Written(r)) = ToSet(ms) \ {ms[r.index]}
             /\ IdsOf(Written(r)) = IdsOf(ms) \ {r.id}
  <2>1. Written(r) = RemoveAt(ms, r.index)
    BY <1>2, <1>5 DEF Written
  <2>2. r.index \in 1..Len(ms) /\ ms[r.index].id = r.id
    BY <1>2, <1>5 DEF RequestOK, AckOK
  <2> QED
    BY <1>2, <2>1, <2>2, RemoveDocument
<1> QED
  BY <1>1, <1>2, <1>3, <1>4, <1>5 DEF StoredIds

\* Messages of one process are stored in the order they were published, for
\* every interleaving and every late arrival: PublishAppends.
THEOREM PublicationOrder == Spec => PublishAppends
<1>1. ASSUME IInv, OrderInv, [Next]_vars,
             NEW id \in IdsOf(store'.messages) \ StoredIds, NEW p \in Processes,
             id \in drawn[p], NEW old \in StoredIds \cap drawn[p]
      PROVE  old < id
  <2>1. CASE UNCHANGED store
    BY <1>1, <2>1 DEF StoredIds
  <2>2. ASSUME NEW w \in Workers, NEW r \in Request, RequestOK(r), Apply(w, r),
               \/ \E v \in Workers : pc[v] = "write" /\ r = request[v]
               \/ \E m \in inflight : r = m.request
        PROVE  old < id
    <3>1. /\ r.messages = store.messages
          /\ r.op = "publish" => StoredIds' = StoredIds \cup {r.id}
          /\ r.op = "claim" => StoredIds' = StoredIds
          /\ r.op = "ack" => StoredIds' = StoredIds \ {r.id}
      BY <1>1, <2>2, Effect DEF IInv
    <3>2. id \in StoredIds' /\ id \notin StoredIds
      BY <1>1 DEF StoredIds
    <3>3. r.op = "publish" /\ id = r.id
      BY <2>2, <3>1, <3>2 DEF RequestOK
    <3>4. AppendsOK(r)
      BY <1>1, <2>2, <3>3 DEF OrderInv, OrderOK
    <3> QED
      BY <1>1, <3>1, <3>3, <3>4 DEF AppendsOK, StoredIds
  <2> QED
    BY <1>1, <2>1, <2>2, ChangesApply
<1>2. IInv /\ OrderInv /\ [Next]_vars =>
        [\A id \in IdsOf(store'.messages) \ StoredIds, p \in Processes :
           id \in drawn[p] =>
             \A old \in StoredIds \cap drawn[p] : old < id]_vars
  BY <1>1
<1> QED
  BY <1>2, InitOrder, NextOrder, Invariance, PTL DEF Spec, PublishAppends

----------------------------------------------------------------------------
(* The queue implements AtomicQueue: a replace that is applied is one of   *)
(* the atomic operations, every other step but the clock's changes nothing.*)

\* The empty queue is the initial state of AtomicQueue.
LEMMA InitRefines == Init => Atomic!Init
<1> SUFFICES ASSUME Init
             PROVE  Atomic!Init
  OBVIOUS
<1>1. DOMAIN <<>> = {}
  OBVIOUS
<1>2. /\ ToSet(store.messages) = {} /\ StoredIds = {} /\ RemovedIds = {}
      /\ {c.token : c \in granted} = {}
  BY <1>1 DEF Init, ToSet, StoredIds, IdsOf, RemovedIds
<1> QED
  BY <1>2 DEF Init, Atomic!Init

\* An applied publish is a Publish of an id never published before.
LEMMA PublishRefines ==
    ASSUME TypeOK, StoreInv, NEW w \in Workers, NEW r \in Request,
           RequestOK(r), r.op = "publish", Apply(w, r), time' = time
    PROVE  Atomic!Publish
<1>1. /\ ToSet(store'.messages) = ToSet(store.messages) \cup {NewMessage(r.id)}
      /\ StoredIds' = StoredIds \cup {r.id}
  BY Effect
<1>2. granted' = granted /\ removed' = removed /\ RemovedIds' = RemovedIds
  BY DEF Apply, RemovedIds
<1>3. r.id \in Ids \ (StoredIds \cup RemovedIds)
  BY DEF RequestOK, PublishOK, AllDrawn, TypeOK
<1> QED
  BY <1>1, <1>2, <1>3 DEF Atomic!Publish, NewMessage, NoLease

\* An applied claim is a Claim of the oldest message available at its reading.
LEMMA ClaimRefines ==
    ASSUME TypeOK, StoreInv, NEW w \in Workers, NEW r \in Request,
           RequestOK(r), r.op = "claim", Apply(w, r), time' = time
    PROVE  Atomic!Claim
<1>1. PICK ms : ms = store.messages
  OBVIOUS
<1>2. PICK m : m = ms[r.index]
  OBVIOUS
<1>3. /\ r.messages = ms
      /\ ToSet(store'.messages) = (ToSet(ms) \ {m})
            \cup {[m EXCEPT !.attempts = @ + 1,
                            !.lease = [token |-> r.token,
                                       expires |-> r.expires]]}
      /\ StoredIds' = StoredIds
  BY <1>1, <1>2, Effect
<1>4. /\ granted' = granted \cup {Grant(r)} /\ removed' = removed
      /\ RemovedIds' = RemovedIds /\ Grant(r).token = r.token
  BY DEF Apply, RemovedIds, Grant
<1>5. /\ ms \in Documents /\ StrictlyIncreasing(ms)
      /\ DOMAIN ms = 1..Len(ms) /\ Len(ms) \in Nat
      /\ \A i \in 1..Len(ms) : ms[i].id \in Nat
  <2>1. ms \in Documents /\ StrictlyIncreasing(ms)
    BY <1>1 DEF TypeOK, StoreInv, StoredIdsIncrease
  <2> QED
    BY <2>1, DocumentFacts
<1>6. /\ r.index \in DOMAIN ms /\ m \in ToSet(ms)
      /\ FirstAvailable(ms, r.now, r.index) /\ m.attempts < MaxAttempts
      /\ r.token \in Tokens /\ \A c \in granted : c.token # r.token
      /\ r.now <= time + MaxSkew /\ r.now < r.expires
      /\ r.now \in 0..MaxMillis /\ r.expires \in 0..MaxMillis
  BY <1>2, <1>3, <1>5 DEF RequestOK, ClaimOK, TypeOK, Request, ToSet
<1>7. ASSUME NEW n \in ToSet(ms), n.id < m.id
      PROVE  ~Available(n, r.now)
  <2>1. PICK j \in DOMAIN ms : n = ms[j]
    BY <1>7 DEF ToSet
  <2>2. j < r.index
    BY <1>2, <1>5, <1>6, <1>7, <2>1 DEF StrictlyIncreasing
  <2>3. j \in 1..(r.index - 1)
    BY <1>5, <1>6, <2>2
  <2> QED
    BY <1>6, <2>1, <2>3 DEF FirstAvailable
<1>8. Available(m, r.now)
  BY <1>2, <1>6 DEF FirstAvailable
<1>9. /\ Atomic!Available(m, r.now)
      /\ \A n \in ToSet(ms) : n.id < m.id => ~Atomic!Available(n, r.now)
  BY <1>7, <1>8 DEF Available, Atomic!Available
<1>10. /\ {c.token : c \in granted'} = {c.token : c \in granted} \cup {r.token}
       /\ r.token \in Tokens \ {c.token : c \in granted}
  BY <1>4, <1>6
<1> QED
  BY <1>1, <1>3, <1>4, <1>6, <1>9, <1>10 DEF Atomic!Claim

\* An applied ack is an Ack of the message whose lease carries its token.
LEMMA AckRefines ==
    ASSUME TypeOK, StoreInv, NEW w \in Workers, NEW r \in Request,
           RequestOK(r), r.op = "ack", Apply(w, r), time' = time
    PROVE  Atomic!Ack
<1>1. PICK ms : ms = store.messages
  OBVIOUS
<1>2. /\ r.messages = ms /\ ToSet(store'.messages) = ToSet(ms) \ {ms[r.index]}
      /\ StoredIds' = StoredIds \ {r.id}
  BY <1>1, Effect
<1>3. /\ granted' = granted /\ removed' = removed \cup {Removal(w, r)}
      /\ Removal(w, r).id = r.id
  BY DEF Apply, Removal
<1>4. ms \in Documents
  BY <1>1 DEF TypeOK
<1>5. /\ r.index \in DOMAIN ms /\ ms[r.index].id = r.id
      /\ ms[r.index].lease.token # NoToken
  BY <1>2, <1>4, DocumentFacts, QueueAssumption DEF RequestOK, AckOK
<1>6. r.id \in StoredIds /\ RemovedIds' = RemovedIds \cup {r.id}
  BY <1>1, <1>3, <1>5 DEF StoredIds, IdsOf, RemovedIds
<1>7. (StoredIds \cup RemovedIds)' = StoredIds \cup RemovedIds
  BY <1>2, <1>6
<1>8. ms[r.index] \in ToSet(ms)
  BY <1>5 DEF ToSet
<1> QED
  BY <1>1, <1>2, <1>3, <1>5, <1>7, <1>8 DEF Atomic!Ack

\* Every step of the queue is a step of AtomicQueue or changes nothing there.
LEMMA NextRefines == IInv /\ [Next]_vars => [Atomic!Next]_Atomic!vars
<1> SUFFICES ASSUME IInv, [Next]_vars
             PROVE  [Atomic!Next]_Atomic!vars
  OBVIOUS
<1>1. CASE UNCHANGED <<store, granted, removed>> /\ (time' = time \/ time' = time + 1)
  <2>1. /\ UNCHANGED <<ToSet(store.messages), StoredIds \cup RemovedIds,
                       {c.token : c \in granted}>>
    BY <1>1 DEF StoredIds, RemovedIds
  <2> QED
    BY <1>1, <2>1 DEF Atomic!Next, Atomic!Tick, Atomic!vars
<1>2. ASSUME NEW w \in Workers, NEW r \in Request, RequestOK(r), Apply(w, r),
             time' = time
      PROVE  Atomic!Next
  <2>1. r.op \in {"publish", "claim", "ack"} /\ TypeOK /\ StoreInv
    BY <1>2 DEF RequestOK, IInv
  <2> QED
    BY <1>2, <2>1, PublishRefines, ClaimRefines, AckRefines DEF Atomic!Next
<1> QED
  BY <1>1, <1>2, ChangesApply

\* The interleaved operations on snapshots look like operations that take
\* effect one at a time on the messages as they are: Linearizable.
THEOREM QueueLinearizable == Spec => Linearizable
<1>1. Init => Atomic!Init
  BY InitRefines
<1>2. IInv /\ [Next]_vars => [Atomic!Next]_Atomic!vars
  BY NextRefines
<1> QED
  BY <1>1, <1>2, Invariance, PTL DEF Spec, Linearizable, Atomic!Spec
============================================================================
