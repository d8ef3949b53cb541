---------------------------- MODULE WorkerProofs ----------------------------
(***************************************************************************)
(* The assertions of the worker loop, for any number of workers and items  *)
(* and any number of conflicts, transient answers, errors and expiries.    *)
(* The invariant needs one fact beside the count: a snapshot that is still *)
(* current holds the message its worker is about to change, so a replace   *)
(* that is applied removes exactly one message, once.                      *)
(*                                                                         *)
(* The types are proved last: that the shared counter stays within the     *)
(* number of items follows from the same count.                            *)
(***************************************************************************)
EXTENDS Worker, FiniteSetTheorems, TLAPS

Shape ==
    /\ Present \subseteq Items /\ lost \subseteq Items
    /\ pc \in [Workers -> Labels] /\ item \in [Workers -> Items]
    /\ current \subseteq Workers /\ completed \in Nat

SnapshotsHold == \A w \in current : item[w] \in Present

\* Whoever left the loop has seen the count.
Left == \A w \in Workers : pc[w] = "done" => completed >= Count

WorkerInv ==
    /\ Shape
    /\ SnapshotsHold
    /\ lost \cap Present = {}
    /\ CompletedExact
    /\ Left

\* The sets that are counted are finite.
LEMMA Finite ==
    ASSUME Shape
    PROVE  /\ IsFiniteSet(Items) /\ IsFiniteSet(Present) /\ IsFiniteSet(lost)
           /\ Count \in Nat /\ Cardinality(Present) \in Nat
           /\ Cardinality(lost) \in Nat
  BY WorkerAssumption, FS_Subset, FS_CardinalityType
     DEF WorkerAssumption, Shape, Count

\* The invariant holds when the clients pass the barrier.
LEMMA WorkerInitially == Init => WorkerInv
<1> SUFFICES ASSUME Init PROVE WorkerInv
  OBVIOUS
<1>1. Present = Items /\ lost = {} /\ current = {} /\ completed = 0
  BY DEF Init, Present
<1>2. (CHOOSE i \in Items : TRUE) \in Items
  BY WorkerAssumption DEF WorkerAssumption
<1>3. Shape
  BY <1>1, <1>2 DEF Init, Shape, Labels
<1>4. CompletedExact
  BY <1>1, <1>3, Finite, FS_EmptySet DEF CompletedExact, Count
<1>5. Left
  BY DEF Init, Left
<1> QED
  BY <1>1, <1>3, <1>4, <1>5 DEF WorkerInv, SnapshotsHold

\* Steps that take nothing from the queue and count nothing.
LEMMA QuietKeeps ==
    ASSUME WorkerInv, Present' = Present, lost' = lost,
           completed' = completed, Shape', SnapshotsHold', Left'
    PROVE  WorkerInv'
  BY DEF WorkerInv, CompletedExact, Count

\* A message leaves the queue: it is counted, or its acknowledgement is lost.
LEMMA RemovalKeeps ==
    ASSUME WorkerInv, NEW w \in Workers, w \in current,
           Store(Removed(item[w])), item' = item, Shape', Left',
           \/ completed' = completed + 1 /\ lost' = lost
           \/ completed' = completed /\ lost' = lost \cup {item[w]}
    PROVE  WorkerInv'
<1>1. item[w] \in Present /\ item[w] \notin lost /\ Shape
  BY DEF WorkerInv, SnapshotsHold
<1>2. Present' = Present \ {item[w]} /\ current' = {}
  BY DEF Store, Removed, Present
<1>3. Cardinality(Present \ {item[w]}) = Cardinality(Present) - 1
  BY <1>1, Finite, FS_RemoveElement
<1>4. Cardinality(lost \cup {item[w]}) = Cardinality(lost) + 1
  BY <1>1, Finite, FS_AddElement
<1>5. CompletedExact'
  <2>1. completed + Cardinality(lost) + Cardinality(Present) = Count
    BY DEF WorkerInv, CompletedExact
  <2>2. completed' + Cardinality(lost') + Cardinality(Present') = Count
    <3>1. CASE completed' = completed + 1 /\ lost' = lost
      BY <3>1, <1>1, <1>2, <1>3, <2>1, Finite DEF Shape
    <3>2. CASE completed' = completed /\ lost' = lost \cup {item[w]}
      BY <3>2, <1>1, <1>2, <1>3, <1>4, <2>1, Finite DEF Shape
    <3> QED
      BY <3>1, <3>2
  <2> QED
    BY <2>2 DEF CompletedExact, Count
<1>6. lost' \cap Present' = {}
  BY <1>1, <1>2 DEF WorkerInv
<1> QED
  BY <1>2, <1>5, <1>6 DEF WorkerInv, SnapshotsHold

\* A worker moves on to a label other than "done".
LEMMA LabelKeeps ==
    ASSUME WorkerInv, NEW w \in Workers, NEW label \in Labels,
           label # "done", Goto(w, label),
           completed' \in Nat, completed' >= completed
    PROVE  pc' \in [Workers -> Labels] /\ Left'
<1>1. Shape /\ Left /\ Count \in Nat /\ completed \in Nat
  BY Finite DEF WorkerInv, Shape
<1>2. \A v \in Workers : pc'[v] = "done" => pc[v] = "done"
  BY <1>1 DEF Goto, Shape
<1>3. pc' \in [Workers -> Labels]
  BY <1>1 DEF Goto, Shape
<1>4. ASSUME NEW v \in Workers, pc'[v] = "done"
      PROVE  completed' >= Count
  <2>1. completed >= Count
    BY <1>1, <1>2, <1>4 DEF Left
  <2> QED
    BY <1>1, <2>1
<1> QED
  BY <1>3, <1>4 DEF Left, Count

\* Reads: the loop condition, claim and ack up to their replace.
LEMMA ReadsKeep ==
    ASSUME WorkerInv, NEW w \in Workers,
           Continue(w) \/ ClaimRead(w) \/ AckRead(w)
    PROVE  WorkerInv'
<1>1. Shape /\ SnapshotsHold /\ Left
  BY DEF WorkerInv
<1>2. UNCHANGED <<queue, completed, lost>> /\ Present' = Present
  BY DEF Continue, ClaimRead, AckRead, Present
<1>3. CASE Continue(w)
  <2>1. UNCHANGED <<item, current>>
    BY <1>3 DEF Continue
  <2>2. CASE completed < Count
    <3>1. Goto(w, "claim")
      BY <1>3, <2>2 DEF Continue
    <3>2. pc' \in [Workers -> Labels] /\ Left'
      BY <1>1, <1>2, <3>1, LabelKeeps DEF Shape, Labels
    <3> QED
      BY <1>1, <1>2, <2>1, <3>2, QuietKeeps DEF Shape, SnapshotsHold
  <2>3. CASE ~(completed < Count)
    <3>1. Goto(w, "done")
      BY <1>3, <2>3 DEF Continue
    <3>2. completed >= Count
      BY <2>3, <1>1, Finite DEF Shape
    <3>3. pc' \in [Workers -> Labels]
      BY <1>1, <3>1 DEF Goto, Shape, Labels
    <3>4. Left'
      BY <1>2, <3>2 DEF Left, Count
    <3> QED
      BY <1>1, <1>2, <2>1, <3>3, <3>4, QuietKeeps DEF Shape, SnapshotsHold
  <2> QED
    BY <2>2, <2>3
<1>4. CASE ClaimRead(w)
  <2>1. PICK label \in {"loop", "grant"} : Goto(w, label)
    BY <1>4 DEF ClaimRead
  <2>2. pc' \in [Workers -> Labels] /\ Left'
    BY <1>1, <1>2, <2>1, LabelKeeps DEF Shape, Labels
  <2>3. /\ item' \in [Workers -> Items] /\ current' \subseteq Workers
        /\ \A v \in current' : item'[v] \in Present
    <3>1. CASE UNCHANGED <<item, current>>
      BY <1>1, <3>1 DEF Shape, SnapshotsHold
    <3>2. CASE \E i \in Present : /\ item' = [item EXCEPT ![w] = i]
                                  /\ current' = current \cup {w}
      <4>1. PICK i \in Present : item' = [item EXCEPT ![w] = i]
        BY <3>2
      <4>2. \A v \in Workers : item'[v] = IF v = w THEN i ELSE item[v]
        BY <1>1, <4>1 DEF Shape
      <4> QED
        BY <1>1, <3>2, <4>1, <4>2 DEF Shape, SnapshotsHold
    <3> QED
      BY <1>4, <3>1, <3>2 DEF ClaimRead
  <2> QED
    BY <1>1, <1>2, <2>2, <2>3, QuietKeeps DEF Shape, SnapshotsHold
<1>5. CASE AckRead(w)
  <2>1. PICK label \in {"loop", "remove"} : Goto(w, label)
    BY <1>5 DEF AckRead
  <2>2. pc' \in [Workers -> Labels] /\ Left'
    BY <1>1, <1>2, <2>1, LabelKeeps DEF Shape, Labels
  <2>3. /\ item' = item /\ current' \subseteq Workers
        /\ \A v \in current' : item[v] \in Present
    BY <1>1, <1>5 DEF AckRead, Valid, Shape, SnapshotsHold
  <2> QED
    BY <1>1, <1>2, <2>2, <2>3, QuietKeeps DEF Shape, SnapshotsHold
<1> QED
  BY <1>3, <1>4, <1>5

\* A claim is applied: its message stays.
LEMMA ClaimedKeeps ==
    ASSUME WorkerInv, NEW w \in Workers,
           NEW label \in Labels, label # "done", Goto(w, label),
           \/ Store(Claimed(item[w]))
           \/ UNCHANGED <<queue, current>>,
           UNCHANGED <<item, completed, lost>>
    PROVE  WorkerInv'
<1>1. Shape /\ SnapshotsHold
  BY DEF WorkerInv
<1>2. Present' = Present /\ (current' = {} \/ current' = current)
  BY DEF Store, Claimed, Present
<1>3. pc' \in [Workers -> Labels] /\ Left'
  BY <1>1, LabelKeeps DEF Shape
<1> QED
  BY <1>1, <1>2, <1>3, QuietKeeps DEF Shape, SnapshotsHold

\* A call that ends without Ok, whether its worker goes on or ends with it: a
\* message that it removed is not counted and is among the lost ones.
LEMMA NotAnsweredKeeps ==
    ASSUME WorkerInv, NEW w \in Workers,
           NEW label \in {"claim", "ack", "failed"}, Goto(w, label),
           NotAnswered(w), UNCHANGED <<item, completed>>
    PROVE  WorkerInv'
<1>1. Shape
  BY DEF WorkerInv
<1>2. CASE /\ lost' = lost
           /\ Store(Claimed(item[w])) \/ UNCHANGED <<queue, current>>
  BY <1>2, ClaimedKeeps DEF Labels
<1>3. CASE /\ w \in current /\ Store(Removed(item[w]))
           /\ lost' = lost \cup {item[w]}
  <2>1. pc' \in [Workers -> Labels] /\ Left'
    BY <1>1, LabelKeeps DEF Shape, Labels
  <2>2. Present' \subseteq Items /\ lost' \subseteq Items
    BY <1>1, <1>3 DEF Store, Removed, Present, Shape
  <2>3. Shape'
    BY <1>1, <1>3, <2>1, <2>2 DEF Store, Shape
  <2> QED
    BY <1>3, <2>1, <2>3, RemovalKeeps
<1> QED
  BY <1>2, <1>3 DEF NotAnswered

\* The other steps of a worker.
LEMMA WritesKeep ==
    ASSUME WorkerInv, NEW w \in Workers,
           \/ Grant(w) \/ Acknowledge(w) \/ Conflict(w) \/ Transient(w)
           \/ Fail(w)
    PROVE  WorkerInv'
<1>1. Shape
  BY DEF WorkerInv
<1>2. CASE Grant(w)
  BY <1>2, ClaimedKeeps DEF Grant, Labels
<1>3. CASE Acknowledge(w)
  <2>1. pc' \in [Workers -> Labels] /\ Left'
    BY <1>1, <1>3, LabelKeeps DEF Acknowledge, Shape, Labels
  <2>2. Present' \subseteq Items /\ completed' \in Nat
    BY <1>1, <1>3 DEF Acknowledge, Store, Removed, Present, Shape
  <2>3. Shape'
    BY <1>1, <1>3, <2>1, <2>2 DEF Acknowledge, Store, Shape
  <2> QED
    BY <1>3, <2>1, <2>3, RemovalKeeps DEF Acknowledge
<1>4. CASE Conflict(w)
  <2>1. PICK label \in {"claim", "ack"} : Goto(w, label)
    BY <1>4 DEF Conflict, Retry
  <2> QED
    BY <1>4, <2>1, ClaimedKeeps DEF Conflict, Labels
<1>5. CASE Transient(w) \/ Fail(w)
  <2>1. PICK label \in {"claim", "ack", "failed"} : Goto(w, label)
    BY <1>5 DEF Transient, Fail, Retry
  <2> QED
    BY <1>5, <2>1, NotAnsweredKeeps DEF Transient, Fail
<1> QED
  BY <1>2, <1>3, <1>4, <1>5

\* Expiry changes a lease only.
LEMMA ExpiryKeeps ==
    ASSUME WorkerInv, NEW i \in Items, ExpireHeld(i) \/ ExpireOrphan(i)
    PROVE  WorkerInv'
<1>1. UNCHANGED <<pc, item, current, completed, lost>> /\ Present' = Present
  BY DEF ExpireHeld, ExpireOrphan, Present
<1> QED
  BY <1>1, QuietKeeps DEF WorkerInv, Shape, SnapshotsHold, Left, Count

\* The invariant is kept by every step.
LEMMA WorkerSteps == WorkerInv /\ [Next]_vars => WorkerInv'
<1> SUFFICES ASSUME WorkerInv, [Next]_vars PROVE WorkerInv'
  OBVIOUS
<1>1. CASE UNCHANGED vars
  <2>1. UNCHANGED <<pc, item, current, completed, lost>> /\ Present' = Present
    BY <1>1 DEF vars, Present
  <2> QED
    BY <2>1, QuietKeeps DEF WorkerInv, Shape, SnapshotsHold, Left, Count
<1>2. CASE Next
  BY <1>1, <1>2, ReadsKeep, WritesKeep, ExpiryKeeps DEF Next, Step, Joined
<1> QED
  BY <1>1, <1>2

----------------------------------------------------------------------------

\* completed counts the messages that left the queue by an ack that returned
\* Ok, each once; all others that left it, by an ack that was repeated after a
\* transient answer or that ended its worker with an error, are in lost.
THEOREM CountExact == Spec => []CompletedExact
<1>1. WorkerInv => CompletedExact
  BY DEF WorkerInv
<1> QED
  BY <1>1, WorkerInitially, WorkerSteps, PTL DEF Spec

\* Whenever a worker leaves its loop without an error, all items are counted
\* and the queue is empty: assert_eq! and assert! never fail.
THEOREM AssertionsNeverFail == Spec => []AssertionsHold
<1>1. WorkerInv => AssertionsHold
  <2> SUFFICES ASSUME WorkerInv, NEW w \in Workers, pc[w] = "done"
               PROVE  completed = Count /\ Present = {}
    BY DEF AssertionsHold
  <2>1. completed >= Count /\ completed \in Nat
    BY DEF WorkerInv, Left, Shape
  <2>2. completed + Cardinality(lost) + Cardinality(Present) = Count
    BY DEF WorkerInv, CompletedExact
  <2>3. /\ Cardinality(lost) \in Nat /\ Cardinality(Present) \in Nat
        /\ Count \in Nat /\ IsFiniteSet(Present)
    BY Finite DEF WorkerInv
  <2>4. completed = Count /\ Cardinality(Present) = 0
    BY <2>1, <2>2, <2>3
  <2> QED
    BY <2>3, <2>4, FS_EmptySet
<1> QED
  BY <1>1, WorkerInitially, WorkerSteps, PTL DEF Spec

----------------------------------------------------------------------------
(* Types *)

\* What Shape leaves out: messages, attempts and the counts of the bounds.
Values ==
    /\ queue \in [Present -> Message]
    /\ attempt \in [Workers -> Nat]
    /\ faults \in Nat /\ errors \in Nat /\ expiries \in Nat

\* What a replace writes is made of messages.
LEMMA DocumentsTyped ==
    ASSUME Values, NEW i \in Present
    PROVE  /\ Claimed(i) \in [Present -> Message]
           /\ Removed(i) \in [DOMAIN Removed(i) -> Message]
           /\ [queue EXCEPT ![i].leased = FALSE] \in [Present -> Message]
           /\ queue[i].attempts + 1 \in Nat
<1>1. queue[i] \in Message
  BY DEF Values
<1>2. /\ [attempts |-> queue[i].attempts + 1, leased |-> TRUE] \in Message
      /\ [queue[i] EXCEPT !.leased = FALSE] \in Message
      /\ queue[i].attempts + 1 \in Nat
  <2>1. queue[i].attempts \in Nat
    BY <1>1 DEF Message
  <2>2. queue[i].attempts + 1 \in Nat
    BY <2>1
  <2>3. [attempts |-> queue[i].attempts + 1, leased |-> TRUE] \in Message
    BY <2>2 DEF Message
  <2>4. [queue[i] EXCEPT !.leased = FALSE] \in Message
    BY <1>1 DEF Message
  <2>5. QED
    BY <2>2, <2>3, <2>4
<1>3. QED
  BY <1>2 DEF Values, Claimed, Removed

LEMMA ValuesKept ==
    ASSUME WorkerInv, Values, [Next]_vars
    PROVE  Values'
<1> DEFINE Counts == faults' \in Nat /\ errors' \in Nat /\ expiries' \in Nat
<1>1. \A w \in current : item[w] \in Present
  BY DEF WorkerInv, SnapshotsHold
<1>2. ASSUME UNCHANGED <<queue, attempt>>, Counts PROVE Values'
  BY <1>2 DEF Values, Present
<1>3. ASSUME NEW w \in current, Store(Claimed(item[w]))
      PROVE  queue' \in [Present' -> Message]
  <2>1. Claimed(item[w]) \in [Present -> Message]
    BY <1>1, DocumentsTyped
  <2>2. QED
    BY <1>3, <2>1 DEF Store, Present
<1>4. ASSUME NEW w \in current, Store(Removed(item[w]))
      PROVE  queue' \in [Present' -> Message]
  BY <1>1, <1>4, DocumentsTyped DEF Store, Present
<1>5. ASSUME NEW w \in Workers, Grant(w) PROVE Values'
  <2>1. queue' \in [Present' -> Message] /\ queue[item[w]].attempts + 1 \in Nat
    BY <1>1, <1>3, <1>5, DocumentsTyped DEF Grant
  <2>2. attempt' \in [Workers -> Nat]
    BY <1>5, <2>1 DEF Grant, Values
  <2>3. QED
    BY <1>5, <2>1, <2>2 DEF Grant, Values, Bounds
<1>6. ASSUME NEW w \in Workers, Acknowledge(w) PROVE Values'
  BY <1>4, <1>6 DEF Acknowledge, Values, Bounds
<1>7. ASSUME NEW w \in Workers, Transient(w) \/ Fail(w) PROVE Values'
  <2>1. attempt' = attempt /\ Counts
    BY <1>7 DEF Transient, Fail, Values
  <2>2. CASE UNCHANGED queue
    BY <1>2, <2>1, <2>2
  <2>3. CASE ~UNCHANGED queue
    <3>1. queue' \in [Present' -> Message]
      BY <1>3, <1>4, <1>7, <2>3 DEF Transient, Fail, NotAnswered
    <3>2. QED
      BY <2>1, <3>1 DEF Values
  <2>4. QED
    BY <2>2, <2>3
<1>8. ASSUME NEW i \in Items, ExpireHeld(i) \/ ExpireOrphan(i) PROVE Values'
  <2>1. i \in Present /\ queue' = [queue EXCEPT ![i].leased = FALSE]
    BY <1>8 DEF ExpireHeld, ExpireOrphan
  <2>2. queue' \in [Present' -> Message]
    BY <2>1, DocumentsTyped DEF Present
  <2>3. attempt' = attempt /\ Counts
    BY <1>8 DEF ExpireHeld, ExpireOrphan, Values, Bounds
  <2>4. QED
    BY <2>2, <2>3 DEF Values
<1>9. ASSUME NEW w \in Workers,
             Continue(w) \/ ClaimRead(w) \/ AckRead(w) \/ Conflict(w)
      PROVE  Values'
  BY <1>2, <1>9 DEF Continue, ClaimRead, AckRead, Conflict, Values, Bounds
<1>10. CASE UNCHANGED vars
  BY <1>2, <1>10 DEF vars, Values
<1>11. QED
  BY <1>5, <1>6, <1>7, <1>8, <1>9, <1>10 DEF Next, Step, Joined

\* The harness's state keeps its types, and in particular the shared counter
\* never passes the number of items.
THEOREM WorkerTyped == Spec => []TypeOK
<1>1. Init => Values
  BY WorkerAssumption DEF Init, Values, Message, Present
<1>2. WorkerInv /\ Values => TypeOK
  <2>1. SUFFICES ASSUME WorkerInv, Values PROVE TypeOK
    OBVIOUS
  <2>2. completed \in 0..Count
    <3>1. completed \in Nat /\ Shape /\ CompletedExact
      BY <2>1 DEF WorkerInv, Shape
    <3>2. /\ Count \in Nat /\ Cardinality(Present) \in Nat
          /\ Cardinality(lost) \in Nat
      BY <3>1, Finite
    <3>3. QED
      BY <3>1, <3>2 DEF CompletedExact
  <2>3. QED
    BY <2>1, <2>2 DEF WorkerInv, Shape, Values, TypeOK
<1>3. QED
  BY <1>1, <1>2, WorkerInitially, WorkerSteps, ValuesKept, PTL DEF Spec
=============================================================================
