------------------------------ MODULE MapProofs ------------------------------
(***************************************************************************)
(* The map's requests never overwrite what they have not read, and the map *)
(* implements AtomicMap, for any number of workers, keys, values, writes   *)
(* and late requests, with counters or content hashes as versions.         *)
(*                                                                         *)
(* The inductive invariant says of the object and of every request that    *)
(* may still be applied how its version relates to its content: a content  *)
(* hash is the content, a counter is the number of writes before it.       *)
(***************************************************************************)
EXTENDS Map, TLAPS

\* The version of the stored object.
StoreOK == store.version = VersionOf(store.entries, writes)

\* A request that has read and is going to write, or has no caller any more.
PendingWrite(r) ==
    /\ r.outcome = "pending"
    /\ Mutates(r, r.entries)
    /\ r.version = store.version => r.entries = store.entries
    /\ IF hashes THEN r.version = r.entries ELSE r.version <= writes

WorkerOK(w) ==
    /\ pc[w] = "write" => PendingWrite(request[w])
    /\ pc[w] = "idle" <=> request[w].outcome # "pending"

LateOK ==
    /\ \A m \in inflight : PendingWrite(m.request)
    /\ \A m, n \in inflight : m.slot = n.slot => m = n

MapInv ==
    /\ TypeOK
    /\ StoreOK
    /\ \A w \in Workers : WorkerOK(w)
    /\ LateOK

----------------------------------------------------------------------------

\* The empty map is a map.
LEMMA EmptyEntries == Empty \in Entries
  BY DEF Empty, Entries

\* A version of a content is a version.
LEMMA VersionTyped ==
    ASSUME hashes \in BOOLEAN, NEW e \in Entries, NEW n \in Nat
    PROVE  VersionOf(e, n) \in Versions
  BY DEF VersionOf, Versions

\* What is serialized is a map again.
LEMMA WrittenTyped ==
    ASSUME NEW r \in Requests
    PROVE  Written(r) \in Entries
  BY DEF Requests, Written, Entries

\* The invariant holds initially.
LEMMA InitMapInv == Init => MapInv
<1> SUFFICES ASSUME Init PROVE MapInv
  OBVIOUS
<1>1. VersionOf(Empty, 0) \in Versions
  BY EmptyEntries, VersionTyped DEF Init
<1>2. PICK k \in Keys :
         request = [w \in Workers |->
                      [op |-> "get", key |-> k, value |-> NoValue,
                       version |-> VersionOf(Empty, 0), entries |-> Empty,
                       outcome |-> "none"]]
  BY DEF Init
<1>3. TypeOK
  <2>1. request \in [Workers -> Requests]
    BY <1>1, <1>2, EmptyEntries DEF Requests, Ops
  <2>2. store \in [version : Versions, entries : Entries]
    BY <1>1, EmptyEntries DEF Init
  <2>3. writes \in 0..MaxVersion
    BY MapAssumption DEF Init, MapAssumption
  <2> QED
    BY <2>1, <2>2, <2>3 DEF Init, TypeOK
<1>4. StoreOK
  BY DEF Init, StoreOK
<1>5. \A w \in Workers : WorkerOK(w)
  BY <1>2 DEF Init, WorkerOK
<1>6. LateOK
  BY DEF Init, LateOK
<1> QED
  BY <1>3, <1>4, <1>5, <1>6 DEF MapInv


\* While the object stays as it is, the requests that do not change keep what
\* they know of it.
LEMMA WorkerStays ==
    ASSUME NEW w \in Workers, WorkerOK(w), UNCHANGED <<hashes, store, writes>>,
           pc'[w] = pc[w], request'[w] = request[w]
    PROVE  WorkerOK(w)'
  BY DEF WorkerOK, PendingWrite, Mutates

LEMMA LateStays ==
    ASSUME LateOK, UNCHANGED <<hashes, store, writes>>,
           inflight' \subseteq inflight
    PROVE  LateOK'
  BY DEF LateOK, PendingWrite, Mutates

\* A call is made.
LEMMA CallStep ==
    ASSUME MapInv, NEW w \in Workers, Call(w)
    PROVE  MapInv'
<1>1. PICK op \in Ops, k \in Keys, v \in Values \cup {NoValue} :
        request' = [request EXCEPT ![w] =
                      [@ EXCEPT !.op = op, !.key = k, !.value = v,
                                !.version = VersionOf(Empty, 0),
                                !.entries = Empty, !.outcome = "pending"]]
  BY DEF Call
<1>2. VersionOf(Empty, 0) \in Versions
  BY EmptyEntries, VersionTyped DEF MapInv, TypeOK
<1>3. /\ request[w] \in Requests /\ request \in [Workers -> Requests]
      /\ pc \in [Workers -> {"idle", "read", "write"}]
  BY DEF MapInv, TypeOK
<1>4. /\ request'[w] \in Requests /\ request'[w].outcome = "pending"
      /\ request' \in [Workers -> Requests]
      /\ \A u \in Workers \ {w} : request'[u] = request[u]
  BY <1>1, <1>2, <1>3, EmptyEntries DEF Requests
<1>5. /\ pc' \in [Workers -> {"idle", "read", "write"}] /\ pc'[w] = "read"
      /\ \A u \in Workers \ {w} : pc'[u] = pc[u]
  BY <1>3 DEF Call
<1>6. UNCHANGED <<hashes, store, writes, inflight>>
  BY DEF Call
<1>7. TypeOK'
  BY <1>4, <1>5, <1>6 DEF MapInv, TypeOK, Requests, Versions
<1>8. \A u \in Workers : WorkerOK(u)'
  <2>1. WorkerOK(w)'
    BY <1>4, <1>5 DEF WorkerOK
  <2> QED
    BY <1>4, <1>5, <1>6, <2>1, WorkerStays DEF MapInv
<1> QED
  BY <1>6, <1>7, <1>8, LateStays DEF MapInv, StoreOK, VersionOf

\* The one get of an operation.
LEMMA ReadStep ==
    ASSUME MapInv, NEW w \in Workers, Read(w)
    PROVE  MapInv'
<1> DEFINE mutates == Mutates(request[w], store.entries)
<1>1. /\ request[w] \in Requests /\ request \in [Workers -> Requests]
      /\ pc \in [Workers -> {"idle", "read", "write"}]
      /\ store \in [version : Versions, entries : Entries]
  BY DEF MapInv, TypeOK
<1>2. /\ request' = [request EXCEPT
                       ![w].version = store.version,
                       ![w].entries = store.entries,
                       ![w].outcome = IF mutates THEN "pending" ELSE "done"]
      /\ pc' = [pc EXCEPT ![w] = IF mutates THEN "write" ELSE "idle"]
      /\ UNCHANGED <<hashes, store, writes, inflight>>
  BY DEF Read
<1>3. /\ request'[w].version = store.version
      /\ request'[w].entries = store.entries
      /\ request'[w].outcome = IF mutates THEN "pending" ELSE "done"
      /\ request'[w].op = request[w].op /\ request'[w].key = request[w].key
      /\ request'[w] \in Requests
      /\ request' \in [Workers -> Requests]
      /\ \A u \in Workers \ {w} : request'[u] = request[u]
  <2> HIDE DEF mutates
  <2> QED
    BY <1>1, <1>2 DEF Requests
<1>4. /\ pc' \in [Workers -> {"idle", "read", "write"}]
      /\ pc'[w] = IF mutates THEN "write" ELSE "idle"
      /\ \A u \in Workers \ {w} : pc'[u] = pc[u]
  <2> HIDE DEF mutates
  <2> QED
    BY <1>1, <1>2
<1>5. TypeOK'
  BY <1>2, <1>3, <1>4 DEF MapInv, TypeOK, Requests, Versions
<1>6. mutates => Mutates(request'[w], store.entries)
  BY <1>3 DEF Mutates
<1>7. IF hashes THEN store.version = store.entries ELSE store.version <= writes
  BY DEF MapInv, StoreOK, VersionOf, TypeOK
<1>8. WorkerOK(w)'
  <2> HIDE DEF mutates
  <2>1. pc'[w] = "write" => PendingWrite(request[w])'
    BY <1>2, <1>3, <1>4, <1>6, <1>7 DEF PendingWrite, Mutates
  <2> QED
    BY <1>3, <1>4, <2>1 DEF WorkerOK
<1>9. \A u \in Workers : WorkerOK(u)'
  BY <1>2, <1>3, <1>4, <1>8, WorkerStays DEF MapInv
<1> QED
  BY <1>2, <1>5, <1>9, LateStays DEF MapInv, StoreOK, VersionOf

\* The worker's part of a call that returns an error.
LEMMA FailedStep ==
    ASSUME MapInv, NEW w \in Workers, Failed(w),
           UNCHANGED <<hashes, store, writes>>
    PROVE  /\ request' \in [Workers -> Requests]
           /\ pc' \in [Workers -> {"idle", "read", "write"}]
           /\ \A u \in Workers : WorkerOK(u)'
<1>1. VersionOf(Empty, 0) \in Versions
  BY EmptyEntries, VersionTyped DEF MapInv, TypeOK
<1>2. /\ request[w] \in Requests /\ request \in [Workers -> Requests]
      /\ pc \in [Workers -> {"idle", "read", "write"}]
  BY DEF MapInv, TypeOK
<1>3. /\ request'[w].outcome = "failed"
      /\ request' \in [Workers -> Requests]
      /\ \A u \in Workers \ {w} : request'[u] = request[u]
  BY <1>1, <1>2, EmptyEntries DEF Failed, Requests
<1>4. /\ pc' \in [Workers -> {"idle", "read", "write"}] /\ pc'[w] = "idle"
      /\ \A u \in Workers \ {w} : pc'[u] = pc[u]
  BY <1>2 DEF Failed
<1>5. WorkerOK(w)'
  BY <1>3, <1>4 DEF WorkerOK
<1> QED
  BY <1>3, <1>4, <1>5, WorkerStays DEF MapInv

\* Errors without a request that may still arrive.
LEMMA ErrorStep ==
    ASSUME MapInv, NEW w \in Workers, Conflict(w) \/ StoreFails(w)
    PROVE  MapInv'
<1>1. Failed(w) /\ UNCHANGED <<hashes, store, writes, inflight>>
  BY DEF Conflict, StoreFails
<1>2. TypeOK'
  BY <1>1, FailedStep DEF MapInv, TypeOK, Requests, Versions
<1> QED
  BY <1>1, <1>2, FailedStep, LateStays DEF MapInv, StoreOK, VersionOf

\* An error whose request may still arrive, in a slot that was free.
LEMMA LoseReplyStep ==
    ASSUME MapInv, NEW w \in Workers, LoseReply(w)
    PROVE  MapInv'
<1>1. Failed(w) /\ UNCHANGED <<hashes, store, writes>>
  BY DEF LoseReply
<1>2. PICK n \in Slots :
        /\ \A m \in inflight : m.slot # n
        /\ inflight' = inflight \cup {[slot |-> n, request |-> request[w]]}
  BY DEF LoseReply
<1>3. PICK r \in Requests : r = request[w] /\ PendingWrite(r)
  BY DEF LoseReply, MapInv, TypeOK, WorkerOK
<1>4. inflight' = inflight \cup {[slot |-> n, request |-> r]}
  BY <1>2, <1>3
<1>5. TypeOK'
  BY <1>1, <1>3, <1>4, FailedStep DEF MapInv, TypeOK, Requests, Versions
<1>6. PendingWrite(r)'
  BY <1>1, <1>3 DEF PendingWrite, Mutates
<1>7. \A m \in inflight : PendingWrite(m.request)'
  BY <1>1 DEF MapInv, LateOK, PendingWrite, Mutates
<1>8. LateOK'
  BY <1>2, <1>4, <1>6, <1>7 DEF MapInv, LateOK, PendingWrite
<1> QED
  BY <1>1, <1>5, <1>8, FailedStep DEF MapInv, StoreOK, VersionOf

\* A replace is applied: what others know of the object stays true, since the
\* new version is new or names the same content.
LEMMA ApplyStep ==
    ASSUME MapInv, NEW r \in Requests, Apply(r), hashes' = hashes
    PROVE  /\ store' \in [version : Versions, entries : Entries]
           /\ writes' \in 0..MaxVersion
           /\ StoreOK'
           /\ \A q \in Requests : PendingWrite(q) => PendingWrite(q)'
<1>1. /\ writes < MaxVersion /\ writes' = writes + 1
      /\ writes \in 0..MaxVersion /\ MaxVersion \in Nat
      /\ hashes \in BOOLEAN
  BY MapAssumption DEF Apply, MapInv, TypeOK, MapAssumption
<1>2. writes' \in 0..MaxVersion /\ writes' \in Nat /\ writes \in Nat
  BY <1>1
<1>3. Written(r) \in Entries /\ VersionOf(Written(r), writes + 1) \in Versions
  BY <1>1, <1>2, WrittenTyped, VersionTyped
<1>4. /\ store'.version = VersionOf(Written(r), writes + 1)
      /\ store'.entries = Written(r)
      /\ store' \in [version : Versions, entries : Entries]
  BY <1>3 DEF Apply
<1>5. StoreOK'
  BY <1>1, <1>4 DEF StoreOK, VersionOf
<1>6. ASSUME NEW q \in Requests, PendingWrite(q)
      PROVE  PendingWrite(q)'
  <2>1. CASE hashes
    BY <1>4, <1>6, <2>1 DEF PendingWrite, Mutates, VersionOf
  <2>2. CASE ~hashes
    <3>1. q.version \in Nat /\ q.version <= writes
      BY <1>6, <2>2 DEF PendingWrite, Requests, Versions
    <3>2. store'.version = writes + 1
      BY <1>4, <2>2 DEF VersionOf
    <3>3. q.version # store'.version /\ q.version <= writes'
      BY <1>1, <1>2, <3>1, <3>2
    <3> QED
      BY <1>6, <2>2, <3>3 DEF PendingWrite, Mutates
  <2> QED
    BY <2>1, <2>2
<1> QED
  BY <1>2, <1>4, <1>5, <1>6

\* The replace of a worker that waits for it.
LEMMA ReplaceStep ==
    ASSUME MapInv, NEW w \in Workers, Replace(w)
    PROVE  MapInv'
<1>1. PICK r \in Requests : r = request[w] /\ Apply(r)
  BY DEF Replace, MapInv, TypeOK
<1>2. /\ hashes' = hashes /\ inflight' = inflight
      /\ request \in [Workers -> Requests]
      /\ pc \in [Workers -> {"idle", "read", "write"}]
  BY DEF Replace, MapInv, TypeOK
<1>3. /\ request'[w].outcome = "done" /\ request' \in [Workers -> Requests]
      /\ \A u \in Workers \ {w} : request'[u] = request[u]
  BY <1>2 DEF Replace, Done, Requests
<1>4. /\ pc' \in [Workers -> {"idle", "read", "write"}] /\ pc'[w] = "idle"
      /\ \A u \in Workers \ {w} : pc'[u] = pc[u]
  BY <1>2 DEF Replace, Done
<1>5. /\ store' \in [version : Versions, entries : Entries]
      /\ writes' \in 0..MaxVersion /\ StoreOK'
      /\ \A q \in Requests : PendingWrite(q) => PendingWrite(q)'
  BY <1>1, <1>2, ApplyStep
<1>6. TypeOK'
  BY <1>2, <1>3, <1>4, <1>5 DEF MapInv, TypeOK, Requests, Versions
<1>7. ASSUME NEW u \in Workers
      PROVE  WorkerOK(u)'
  <2>1. CASE u = w
    BY <1>3, <1>4, <2>1 DEF WorkerOK
  <2>2. CASE u # w
    <3>1. PICK q \in Requests : q = request[u] /\ q = request'[u]
      BY <1>2, <1>3, <2>2
    <3>2. pc[u] = "write" => PendingWrite(q)'
      BY <1>5, <3>1 DEF MapInv, WorkerOK
    <3> QED
      BY <1>4, <2>2, <3>1, <3>2 DEF MapInv, WorkerOK, PendingWrite
  <2> QED
    BY <2>1, <2>2
<1>8. LateOK'
  BY <1>2, <1>5 DEF MapInv, TypeOK, LateOK, PendingWrite
<1> QED
  BY <1>5, <1>6, <1>7, <1>8 DEF MapInv

\* A request without a caller reaches the store.
LEMMA LateArrivalStep ==
    ASSUME MapInv, NEW m \in inflight, LateArrival(m)
    PROVE  MapInv'
<1>1. /\ UNCHANGED <<hashes, pc, request>> /\ inflight' \subseteq inflight
      /\ inflight \subseteq [slot : Slots, request : Requests]
  BY DEF LateArrival, MapInv, TypeOK
<1>2. CASE UNCHANGED <<store, writes>>
  <2>1. TypeOK'
    BY <1>1, <1>2 DEF MapInv, TypeOK, Requests, Versions
  <2> QED
    BY <1>1, <1>2, <2>1, WorkerStays, LateStays DEF MapInv, StoreOK, VersionOf
<1>3. CASE Apply(m.request)
  <2>1. PICK r \in Requests : r = m.request /\ Apply(r)
    BY <1>1, <1>3
  <2>2. /\ store' \in [version : Versions, entries : Entries]
        /\ writes' \in 0..MaxVersion /\ StoreOK'
        /\ \A q \in Requests : PendingWrite(q) => PendingWrite(q)'
    BY <1>1, <2>1, ApplyStep
  <2>3. TypeOK'
    BY <1>1, <2>2 DEF MapInv, TypeOK, Requests, Versions
  <2>4. ASSUME NEW u \in Workers
        PROVE  WorkerOK(u)'
    <3>1. PICK q \in Requests : q = request[u] /\ q = request'[u]
      BY <1>1 DEF MapInv, TypeOK
    <3>2. pc[u] = "write" => PendingWrite(q)'
      BY <2>2, <3>1 DEF MapInv, WorkerOK
    <3> QED
      BY <1>1, <3>1, <3>2 DEF MapInv, WorkerOK, PendingWrite
  <2>5. LateOK'
    BY <1>1, <2>2 DEF MapInv, LateOK, PendingWrite
  <2> QED
    BY <2>2, <2>3, <2>4, <2>5 DEF MapInv
<1> QED
  BY <1>2, <1>3 DEF LateArrival

\* Every step preserves the invariant.
LEMMA NextMapInv == MapInv /\ [Next]_vars => MapInv'
<1> SUFFICES ASSUME MapInv, [Next]_vars PROVE MapInv'
  OBVIOUS
<1>1. CASE UNCHANGED vars
  BY <1>1 DEF vars, MapInv, TypeOK, StoreOK, WorkerOK, LateOK, PendingWrite,
              Mutates, VersionOf, Versions, Requests
<1>2. ASSUME NEW w \in Workers,
             \/ Call(w) \/ Read(w) \/ Replace(w) \/ Conflict(w)
             \/ LoseReply(w) \/ StoreFails(w)
      PROVE  MapInv'
  BY <1>2, CallStep, ReadStep, ReplaceStep, ErrorStep, LoseReplyStep
<1>3. ASSUME NEW m \in inflight, LateArrival(m)
      PROVE  MapInv'
  BY <1>3, LateArrivalStep
<1> QED
  BY <1>1, <1>2, <1>3 DEF Next

\* The invariant holds in every reachable state.
THEOREM MapInvariance == Spec => []MapInv
  BY InitMapInv, NextMapInv, PTL DEF Spec

\* Types of the map's state; in particular a map document never holds anything
\* but the values of the configured type.
THEOREM MapTyped == Spec => []TypeOK
<1>1. MapInv => TypeOK
  BY DEF MapInv
<1> QED
  BY <1>1, MapInvariance, PTL

\* Who holds the current version holds the current entries.
THEOREM VersionsNameSnapshots == Spec => []VersionNamesSnapshot
<1>1. MapInv => VersionNamesSnapshot
  BY DEF MapInv, WorkerOK, LateOK, PendingWrite, VersionNamesSnapshot
<1> QED
  BY <1>1, MapInvariance, PTL

----------------------------------------------------------------------------
(* Refinement *)

\* The answer is the abstract one.
LEMMA AnswerAgrees ==
    ASSUME NEW r \in Requests
    PROVE  Answer(r) = Atomic!Answer(CallOf(r), r.entries)
  BY DEF Answer, Atomic!Answer, Atomic!Asked, CallOf

\* A request that goes on to write has the abstract effect on what it read ...
LEMMA WrittenAgrees ==
    ASSUME NEW r \in Requests, Mutates(r, r.entries)
    PROVE  Written(r) = Atomic!Effect(CallOf(r), r.entries)
  BY DEF Requests, Ops, Mutates, Written, Atomic!Effect, CallOf

\* ... and one that does not has none.
LEMMA NoEffectAgrees ==
    ASSUME NEW r \in Requests, NEW e \in Entries, ~Mutates(r, e)
    PROVE  Atomic!Effect(CallOf(r), e) = e
  BY DEF Requests, Ops, Entries, Mutates, Atomic!Effect, CallOf

\* The abstract operation of a worker is the one it was called with.
LEMMA OperationAgrees ==
    ASSUME NEW w \in Workers
    PROVE  Atomic!Operation(w) = CallOf(request[w])
  BY DEF Atomic!Operation, CallOf, View

\* The initial state is abstractly initial.
LEMMA InitRefines == Init => Atomic!Init
  BY DEF Init, Empty, Atomic!Init, View

\* A call begins.
LEMMA CallRefines ==
    ASSUME MapInv, NEW w \in Workers, Call(w)
    PROVE  Atomic!Begin(w)
<1> DEFINE call == [u \in Workers |-> View(request[u])]
<1>1. /\ request[w] \in Requests /\ request \in [Workers -> Requests]
      /\ pc[w] = "idle" /\ request[w].outcome # "pending"
  BY DEF Call, MapInv, TypeOK, WorkerOK
<1>2. /\ request'[w].outcome = "pending"
      /\ \A u \in Workers \ {w} : request'[u] = request[u]
  BY <1>1 DEF Call, Requests
<1>3. call[w].outcome # "pending" /\ call'[w].outcome = "pending"
  BY <1>1, <1>2 DEF View
<1>4. call' = [call EXCEPT ![w] = call'[w]]
  BY <1>2 DEF View, Answer
<1> QED
  BY <1>3, <1>4 DEF Call, Atomic!Begin

\* Changing the outcome and the answer of a view, field by field.
LEMMA ViewExcept ==
    ASSUME NEW V, NEW C, NEW A, NEW y \in C, NEW b \in A,
           NEW c \in [op : Ops, key : Keys, value : V,
                      outcome : C, answer : A],
           NEW d \in [op : Ops, key : Keys, value : V,
                      outcome : C, answer : A],
           d.op = c.op, d.key = c.key, d.value = c.value,
           d.outcome = y, d.answer = b
    PROVE  d = [c EXCEPT !.outcome = y, !.answer = b]
  OBVIOUS

\* A worker's view after its call has finished, those of the others unchanged.
LEMMA FinishAgrees ==
    ASSUME NEW w \in Workers, NEW outcome, NEW answer,
           request \in [Workers -> Requests],
           request' \in [Workers -> Requests],
           \A u \in Workers \ {w} : request'[u] = request[u],
           CallOf(request'[w]) = CallOf(request[w]),
           request'[w].outcome = outcome,
           View(request'[w]).answer = answer
    PROVE  Atomic!Finish(w, outcome, answer)
<1> DEFINE call == [u \in Workers |-> View(request[u])]
           A == {View(request[u]).answer : u \in Workers}
                  \cup {View(request'[u]).answer : u \in Workers}
           C == {"none", "pending", "done", "failed"}
           V == Values \cup {NoValue}
           T == [op : Ops, key : Keys, value : V, outcome : C, answer : A]
<1>1. \A r \in Requests : View(r).answer \in A => View(r) \in T
  <2> HIDE DEF A
  <2> QED
    BY DEF View, Requests
<1>2. \A r \in Requests : /\ View(r).op = r.op /\ View(r).key = r.key
                          /\ View(r).value = r.value
                          /\ View(r).outcome = r.outcome
  BY DEF View
<1>3. PICK c, d : /\ c = [u \in Workers |-> View(request[u])]
                  /\ d = [u \in Workers |-> View(request'[u])]
  OBVIOUS
<1>4. c \in [Workers -> T] /\ d \in [Workers -> T]
  <2>1. \A u \in Workers : View(request[u]) \in T /\ View(request'[u]) \in T
    <3> HIDE DEF T
    <3> QED
      BY <1>1
  <2> HIDE DEF T
  <2> QED
    BY <1>3, <2>1
<1>5. /\ d[w].op = c[w].op /\ d[w].key = c[w].key /\ d[w].value = c[w].value
      /\ d[w].outcome = outcome /\ d[w].answer = answer
  <2>1. c[w] = View(request[w]) /\ d[w] = View(request'[w])
    BY <1>3
  <2>2. request[w] \in Requests /\ request'[w] \in Requests
    OBVIOUS
  <2>3. /\ request'[w].op = request[w].op /\ request'[w].key = request[w].key
        /\ request'[w].value = request[w].value
    BY DEF CallOf
  <2> QED
    BY <1>2, <2>1, <2>2, <2>3
<1>6. \A u \in Workers \ {w} : d[u] = c[u]
  BY <1>3
<1>7. outcome \in C /\ answer \in A
  <2>1. outcome \in C
    BY DEF Requests
  <2> QED
    BY <2>1
<1>8. d = [c EXCEPT ![w].outcome = outcome, ![w].answer = answer]
  <2> HIDE DEF A, C, V
  <2>1. c[w] \in T /\ d[w] \in T
    BY <1>4
  <2>2. d[w] = [c[w] EXCEPT !.outcome = outcome, !.answer = answer]
    BY <1>5, <1>7, <2>1, ViewExcept
  <2> QED
    BY <1>3, <1>6, <2>2
<1>9. call = c /\ call' = d
  BY <1>3 DEF View, Answer
<1> QED
  BY <1>8, <1>9 DEF Atomic!Finish

\* The get of an operation: the last step of one that only reads, nothing yet
\* of one that writes.
LEMMA ReadRefines ==
    ASSUME MapInv, NEW w \in Workers, Read(w)
    PROVE  Atomic!Take(w) \/ UNCHANGED Atomic!vars
<1> DEFINE call == [u \in Workers |-> View(request[u])]
           mutates == Mutates(request[w], store.entries)
<1>1. /\ request[w] \in Requests /\ request \in [Workers -> Requests]
      /\ store.entries \in Entries /\ request[w].outcome = "pending"
  BY DEF Read, MapInv, TypeOK, WorkerOK
<1>2. /\ request' = [request EXCEPT
                       ![w].version = store.version,
                       ![w].entries = store.entries,
                       ![w].outcome = IF mutates THEN "pending" ELSE "done"]
      /\ UNCHANGED <<hashes, store, writes, inflight>>
  BY DEF Read
<1>3. /\ request'[w].entries = store.entries
      /\ request'[w].outcome = IF mutates THEN "pending" ELSE "done"
      /\ CallOf(request'[w]) = CallOf(request[w])
      /\ \A u \in Workers \ {w} : request'[u] = request[u]
  <2> HIDE DEF mutates
  <2> QED
    BY <1>1, <1>2 DEF Requests, CallOf
<1>4. request' \in [Workers -> Requests] /\ request'[w] \in Requests
  BY <1>2, ReadStep DEF MapInv, TypeOK, Requests, Versions
<1>5. CASE mutates
  <2>1. View(request'[w]) = View(request[w])
    BY <1>1, <1>3, <1>5 DEF View, CallOf
  <2>2. call' = call
    BY <1>3, <2>1
  <2> QED
    BY <1>2, <2>2 DEF Atomic!vars
<1>6. CASE ~mutates
  <2>1. Atomic!Operation(w) = CallOf(request[w])
    BY OperationAgrees
  <2>2. Atomic!Effect(CallOf(request[w]), store.entries) = store.entries
    BY <1>1, <1>6, NoEffectAgrees
  <2>3. View(request'[w]).answer
          = Atomic!Answer(CallOf(request[w]), store.entries)
    <3>1. Answer(request'[w])
            = Atomic!Answer(CallOf(request'[w]), request'[w].entries)
      BY <1>4, AnswerAgrees
    <3> QED
      BY <1>3, <1>6, <3>1 DEF View
  <2>4. Atomic!Finish(w, "done",
                      Atomic!Answer(Atomic!Operation(w), store.entries))
    BY <1>1, <1>3, <1>4, <1>6, <2>1, <2>3, FinishAgrees
  <2>5. call[w].outcome = "pending"
    BY <1>1 DEF View
  <2> QED
    BY <1>2, <2>1, <2>2, <2>4, <2>5 DEF Atomic!Take
<1> QED
  BY <1>5, <1>6

\* A replace that is answered: the operation happens.
LEMMA ReplaceRefines ==
    ASSUME MapInv, NEW w \in Workers, Replace(w)
    PROVE  Atomic!Take(w)
<1> DEFINE call == [u \in Workers |-> View(request[u])]
<1>1. /\ request[w] \in Requests /\ request \in [Workers -> Requests]
      /\ PendingWrite(request[w]) /\ Apply(request[w])
  BY DEF Replace, MapInv, TypeOK, WorkerOK
<1>2. /\ request[w].entries = store.entries /\ store'.entries = Written(request[w])
      /\ Mutates(request[w], request[w].entries)
      /\ request[w].outcome = "pending"
  BY <1>1 DEF Apply, Current, PendingWrite
<1>3. /\ request'[w].entries = request[w].entries
      /\ request'[w].outcome = "done"
      /\ CallOf(request'[w]) = CallOf(request[w])
      /\ \A u \in Workers \ {w} : request'[u] = request[u]
  BY <1>1 DEF Replace, Done, Requests, CallOf
<1>4. request' \in [Workers -> Requests] /\ request'[w] \in Requests
  BY <1>1 DEF Replace, Done, Requests
<1>5. Atomic!Operation(w) = CallOf(request[w])
  BY OperationAgrees
<1>6. store'.entries = Atomic!Effect(CallOf(request[w]), store.entries)
  BY <1>1, <1>2, WrittenAgrees
<1>7. View(request'[w]).answer
        = Atomic!Answer(CallOf(request[w]), store.entries)
  <2>1. Answer(request'[w])
          = Atomic!Answer(CallOf(request'[w]), request'[w].entries)
    BY <1>4, AnswerAgrees
  <2> QED
    BY <1>2, <1>3, <2>1 DEF View
<1>8. Atomic!Finish(w, "done",
                    Atomic!Answer(Atomic!Operation(w), store.entries))
  BY <1>1, <1>3, <1>4, <1>5, <1>7, FinishAgrees
<1>9. call[w].outcome = "pending"
  BY <1>2 DEF View
<1> QED
  BY <1>5, <1>6, <1>8, <1>9 DEF Replace, Atomic!Take

\* A call that returns an error, as its caller sees it.
LEMMA FailedRefines ==
    ASSUME MapInv, NEW w \in Workers, Failed(w), pc[w] # "idle",
           UNCHANGED <<hashes, store, writes>>
    PROVE  /\ View(request[w]).outcome = "pending"
           /\ Atomic!Finish(w, "failed", <<>>)
<1>1. /\ request[w] \in Requests /\ request \in [Workers -> Requests]
      /\ request[w].outcome = "pending"
  BY DEF MapInv, TypeOK, WorkerOK
<1>2. /\ request'[w].outcome = "failed"
      /\ CallOf(request'[w]) = CallOf(request[w])
      /\ \A u \in Workers \ {w} : request'[u] = request[u]
  BY <1>1 DEF Failed, Requests, CallOf
<1>3. request' \in [Workers -> Requests]
  BY FailedStep
<1>4. View(request'[w]).answer = <<>>
  BY <1>2 DEF View
<1> QED
  BY <1>1, <1>2, <1>3, <1>4, FinishAgrees DEF View

\* An error without a request that may still arrive.
LEMMA ErrorRefines ==
    ASSUME MapInv, NEW w \in Workers, Conflict(w) \/ StoreFails(w)
    PROVE  Atomic!Fail(w)
<1>1. /\ Failed(w) /\ UNCHANGED <<hashes, store, writes, inflight>>
      /\ pc[w] # "idle"
  BY DEF Conflict, StoreFails
<1> QED
  BY <1>1, FailedRefines DEF Atomic!Fail

\* An error whose request is left behind.
LEMMA LoseReplyRefines ==
    ASSUME MapInv, NEW w \in Workers, LoseReply(w)
    PROVE  Atomic!Fail(w)
<1> DEFINE orphans == {<<m.slot, CallOf(m.request)>> : m \in inflight}
<1>1. Failed(w) /\ UNCHANGED <<hashes, store, writes>> /\ pc[w] # "idle"
  BY DEF LoseReply
<1>2. PICK n \in Slots :
        /\ \A m \in inflight : m.slot # n
        /\ inflight' = inflight \cup {[slot |-> n, request |-> request[w]]}
  BY DEF LoseReply
<1>3. PICK r : r = request[w]
  OBVIOUS
<1>4. PICK o : o = <<n, CallOf(r)>>
  OBVIOUS
<1>5. orphans' = orphans \cup {o}
  <2>1. PICK m : m = [slot |-> n, request |-> r]
    OBVIOUS
  <2>2. /\ inflight' = inflight \cup {m}
        /\ o = <<m.slot, CallOf(m.request)>>
    BY <1>2, <1>3, <1>4, <2>1
  <2>3. orphans' = {<<q.slot, CallOf(q.request)>> : q \in inflight'}
    BY DEF CallOf
  <2> HIDE DEF orphans
  <2> QED
    BY <2>2, <2>3 DEF orphans
<1>6. o \notin orphans
  BY <1>2, <1>4
<1>7. o[2] = Atomic!Operation(w)
  BY <1>3, <1>4, OperationAgrees
<1> QED
  BY <1>1, <1>5, <1>6, <1>7, FailedRefines DEF Atomic!Fail

\* A request without a caller arrives: it has its effect, or none, once.
LEMMA LateArrivalRefines ==
    ASSUME MapInv, NEW m \in inflight, LateArrival(m)
    PROVE  Atomic!Late(<<m.slot, CallOf(m.request)>>)
<1> DEFINE orphans == {<<n.slot, CallOf(n.request)>> : n \in inflight}
           call == [u \in Workers |-> View(request[u])]
<1>0. PICK o : o = <<m.slot, CallOf(m.request)>>
  OBVIOUS
<1>1. o = <<m.slot, CallOf(m.request)>> /\ o[2] = CallOf(m.request)
  BY <1>0
<1>2. orphans' = orphans \ {o}
  <2>1. inflight' = inflight \ {m}
    BY DEF LateArrival
  <2>2. \A n \in inflight : n.slot = m.slot => n = m
    BY DEF MapInv, LateOK
  <2> QED
    BY <1>1, <2>1, <2>2 DEF CallOf
<1>3. call' = call
  BY DEF LateArrival, View, Answer
<1>4. store'.entries \in {store.entries,
                          Atomic!Effect(CallOf(m.request), store.entries)}
  <2>1. CASE Apply(m.request)
    <3>1. /\ m.request \in Requests /\ PendingWrite(m.request)
      BY DEF MapInv, TypeOK, LateOK
    <3>2. /\ m.request.entries = store.entries
          /\ store'.entries = Written(m.request)
          /\ Mutates(m.request, m.request.entries)
      BY <2>1, <3>1 DEF Apply, Current, PendingWrite
    <3> QED
      BY <3>1, <3>2, WrittenAgrees
  <2> QED
    BY <2>1 DEF LateArrival
<1> QED
  BY <1>1, <1>2, <1>3, <1>4 DEF Atomic!Late

\* Every step of the map is one of the atomic map, or leaves it unchanged.
LEMMA NextRefines == MapInv /\ [Next]_vars => [Atomic!Next]_(Atomic!vars)
<1> SUFFICES ASSUME MapInv, [Next]_vars
             PROVE  Atomic!Next \/ UNCHANGED Atomic!vars
  OBVIOUS
<1>1. CASE UNCHANGED vars
  BY <1>1 DEF vars, Atomic!vars, View, Answer, CallOf
<1>2. ASSUME NEW w \in Workers,
             \/ Call(w) \/ Read(w) \/ Replace(w) \/ Conflict(w)
             \/ LoseReply(w) \/ StoreFails(w)
      PROVE  Atomic!Next \/ UNCHANGED Atomic!vars
  BY <1>2, CallRefines, ReadRefines, ReplaceRefines, ErrorRefines,
     LoseReplyRefines DEF Atomic!Next
<1>3. ASSUME NEW m \in inflight, LateArrival(m)
      PROVE  Atomic!Next
  BY <1>3, LateArrivalRefines DEF Atomic!Next
<1> QED
  BY <1>1, <1>2, <1>3 DEF Next

\* The map implements the atomic map.
THEOREM MapLinearizable == Spec => Linearizable
  BY InitRefines, MapInvariance, NextRefines, PTL
     DEF Spec, Linearizable, Atomic!Spec
============================================================================
