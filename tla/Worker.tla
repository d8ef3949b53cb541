------------------------------- MODULE Worker -------------------------------
(***************************************************************************)
(* The worker loop that drains a queue: crates/objsds-tests/tests/         *)
(* rustfs_perf.rs, rustfs_queue_work_item_throughput.  Clients claim and   *)
(* acknowledge messages that were published before, retry on conflicts and *)
(* on transient answers, share a count of completed items and stop when it *)
(* reaches the number of items.                                            *)
(*                                                                         *)
(* Below the loop is the queue as module Queue shows it to be: a call is a *)
(* read and a replace that is applied only if nobody wrote in between.     *)
(* An attempt number names one claim of a message (AttemptsCountClaims)    *)
(* and stands for its lease token; of a lease it only matters whether it   *)
(* has expired, and for a snapshot whether it is still current.            *)
(***************************************************************************)
EXTENDS Naturals, FiniteSets

CONSTANTS
    Workers,      \* client threads
    Items,        \* messages, in the order of their ids
    MaxFaults,    \* bound: transient answers
    MaxErrors,    \* bound: errors that are not transient
    MaxExpiries   \* bound: leases that run out under a worker

ASSUME WorkerAssumption ==
    /\ Items \subseteq Nat /\ Items # {} /\ IsFiniteSet(Items)
    /\ MaxFaults \in Nat /\ MaxErrors \in Nat /\ MaxExpiries \in Nat

VARIABLES
    queue,      \* the stored messages: attempts and whether a lease holds
    pc,         \* where each worker stands in its loop
    item,       \* the message of its claim or of the call it has under way
    attempt,    \* the claim it holds
    current,    \* workers whose snapshot is the stored document
    completed,  \* the shared AtomicUsize
    faults,     \* transient answers so far
    errors,     \* other errors so far
    expiries,   \* leases that ran out under their worker so far
    lost        \* history: messages removed by an ack that did not return Ok

vars == <<queue, pc, item, attempt, current, completed, faults, errors,
          expiries, lost>>

Count == Cardinality(Items)

Labels == {"loop", "claim", "grant", "ack", "remove", "done", "failed"}

\* The lease of a message holds, has expired, or was never given.
Message == [attempts : Nat, leased : BOOLEAN]

\* Every item is published before the clients pass the barrier.
Init ==
    /\ queue = [i \in Items |-> [attempts |-> 0, leased |-> FALSE]]
    /\ pc = [w \in Workers |-> "loop"]
    /\ item = [w \in Workers |-> CHOOSE i \in Items : TRUE]
    /\ attempt = [w \in Workers |-> 0]
    /\ current = {}
    /\ completed = 0
    /\ faults = 0
    /\ errors = 0
    /\ expiries = 0
    /\ lost = {}

Present == DOMAIN queue

Goto(w, label) == pc' = [pc EXCEPT ![w] = label]

Bounds == <<faults, errors, expiries>>

----------------------------------------------------------------------------
(* The queue's calls, as far as the loop depends on them *)

\* The oldest message that no lease holds.
Oldest(i) ==
    /\ i \in Present /\ ~queue[i].leased
    /\ \A j \in Present : j < i => queue[j].leased

\* A replace is applied: every other snapshot is out of date.
Store(document) ==
    /\ queue' = document
    /\ current' = {}

Claimed(i) ==
    [queue EXCEPT ![i] = [attempts |-> @.attempts + 1, leased |-> TRUE]]

Removed(i) == [j \in Present \ {i} |-> queue[j]]

\* What ack finds out about the lease of the message it read.
Valid(w) ==
    /\ item[w] \in Present
    /\ queue[item[w]].attempts = attempt[w]
    /\ queue[item[w]].leased

----------------------------------------------------------------------------
(* The loop *)

\* Faulty variant: the loop goes on until the count exceeds the items.
ContinueOnceMore(w) ==
    /\ pc[w] = "loop"
    /\ Goto(w, IF completed <= Count THEN "claim" ELSE "done")
    /\ UNCHANGED <<queue, item, attempt, current, completed, Bounds, lost>>

\* while completed < items, and the call of claim.
Continue(w) ==
    /\ pc[w] = "loop"
    /\ Goto(w, IF completed < Count THEN "claim" ELSE "done")
    /\ UNCHANGED <<queue, item, attempt, current, completed, Bounds, lost>>

\* Faulty variant: a worker that finds nothing to claim stops.
ClaimReadStops(w) ==
    /\ pc[w] = "claim"
    /\ \/ /\ \A i \in Present : queue[i].leased
          /\ Goto(w, "done")
          /\ UNCHANGED <<item, current>>
       \/ \E i \in Present :
            /\ Oldest(i)
            /\ item' = [item EXCEPT ![w] = i]
            /\ current' = current \cup {w}
            /\ Goto(w, "grant")
    /\ UNCHANGED <<queue, attempt, completed, Bounds, lost>>

\* claim gets the document.  Nothing is available: sleep, continue.
ClaimRead(w) ==
    /\ pc[w] = "claim"
    /\ \/ /\ \A i \in Present : queue[i].leased
          /\ Goto(w, "loop")
          /\ UNCHANGED <<item, current>>
       \/ \E i \in Present :
            /\ Oldest(i)
            /\ item' = [item EXCEPT ![w] = i]
            /\ current' = current \cup {w}
            /\ Goto(w, "grant")
    /\ UNCHANGED <<queue, attempt, completed, Bounds, lost>>

\* claim replaces the document and returns the claim.
Grant(w) ==
    /\ pc[w] = "grant" /\ w \in current
    /\ Store(Claimed(item[w]))
    /\ attempt' = [attempt EXCEPT ![w] = queue[item[w]].attempts + 1]
    /\ Goto(w, "ack")
    /\ UNCHANGED <<item, completed, Bounds, lost>>

\* Faulty variant: an expired lease counts as a completed item.
AckReadCounting(w) ==
    /\ pc[w] = "ack"
    /\ \/ /\ Valid(w)
          /\ current' = current \cup {w}
          /\ Goto(w, "remove")
          /\ completed' = completed
       \/ /\ ~Valid(w)
          /\ Goto(w, "loop")
          /\ completed' = completed + 1
          /\ current' = current
    /\ UNCHANGED <<queue, item, attempt, Bounds, lost>>

\* ack gets the document.  LeaseExpired, LeaseMismatch and NotFound end the
\* inner loop without counting the item.
AckRead(w) ==
    /\ pc[w] = "ack"
    /\ \/ /\ Valid(w)
          /\ current' = current \cup {w}
          /\ Goto(w, "remove")
       \/ /\ ~Valid(w)
          /\ Goto(w, "loop")
          /\ current' = current
    /\ UNCHANGED <<queue, item, attempt, completed, Bounds, lost>>

\* ack replaces the document: Acknowledged, and fetch_add on the counter.
Acknowledge(w) ==
    /\ pc[w] = "remove" /\ w \in current
    /\ Store(Removed(item[w]))
    /\ completed' = completed + 1
    /\ Goto(w, "loop")
    /\ UNCHANGED <<item, attempt, Bounds, lost>>

Retry(w) == Goto(w, IF pc[w] \in {"claim", "grant"} THEN "claim" ELSE "ack")

\* QueueError::Conflict: the call is repeated at once.
Conflict(w) ==
    /\ pc[w] \in {"grant", "remove"} /\ w \notin current
    /\ Retry(w)
    /\ UNCHANGED <<queue, item, attempt, current, completed, Bounds, lost>>

\* A call ends without Ok: its replace was not applied, or it was.
NotAnswered(w) ==
    \/ UNCHANGED <<queue, current, lost>>
    \/ /\ pc[w] = "grant" /\ w \in current
       /\ Store(Claimed(item[w]))
       /\ lost' = lost
    \/ /\ pc[w] = "remove" /\ w \in current
       /\ Store(Removed(item[w]))
       /\ lost' = lost \cup {item[w]}

\* is_transient_queue: 429 or a 5xx status, then sleep and repeat the call.  A
\* server that has answered does not apply the request any more.  (The 409
\* with which S3 may answer a replace on a current snapshot is repeated too,
\* without the sleep: it is among the steps that apply nothing.)
Transient(w) ==
    /\ pc[w] \in {"claim", "grant", "ack", "remove"}
    /\ faults < MaxFaults
    /\ faults' = faults + 1
    /\ Retry(w)
    /\ NotAnswered(w)
    /\ UNCHANGED <<item, attempt, completed, errors, expiries>>

\* Any other error ends the worker; what it holds stays leased.  A timeout, a
\* broken connection or an answer without an ETag ends it although its replace
\* was applied.  (One that is applied after the error finds the snapshot still
\* current, and so is this step, taken later.)
Fail(w) ==
    /\ pc[w] \in {"claim", "grant", "ack", "remove"}
    /\ errors < MaxErrors
    /\ errors' = errors + 1
    /\ Goto(w, "failed")
    /\ NotAnswered(w)
    /\ UNCHANGED <<item, attempt, completed, faults, expiries>>

\* The claim that leased message i is still in the hands of a worker.
Held(i) ==
    \E w \in Workers : /\ pc[w] \in {"ack", "remove"}
                       /\ item[w] = i /\ attempt[w] = queue[i].attempts

\* 300 seconds pass.  A lease runs out although its worker is at work ...
ExpireHeld(i) ==
    /\ i \in Present /\ queue[i].leased /\ Held(i)
    /\ expiries < MaxExpiries
    /\ expiries' = expiries + 1
    /\ queue' = [queue EXCEPT ![i].leased = FALSE]
    /\ UNCHANGED <<pc, item, attempt, current, completed, faults, errors,
                   lost>>

\* ... or nobody knows of it: its claim was not answered, or its worker ended.
ExpireOrphan(i) ==
    /\ i \in Present /\ queue[i].leased /\ ~Held(i)
    /\ queue' = [queue EXCEPT ![i].leased = FALSE]
    /\ UNCHANGED <<pc, item, attempt, current, completed, Bounds, lost>>

----------------------------------------------------------------------------

Step(w) ==
    \/ Continue(w) \/ ClaimRead(w) \/ Grant(w) \/ AckRead(w)
    \/ Acknowledge(w) \/ Conflict(w)

Finished == \A w \in Workers : pc[w] \in {"done", "failed"}

\* The threads were joined.
Joined == Finished /\ UNCHANGED vars

Next ==
    \/ \E w \in Workers : Step(w) \/ Transient(w) \/ Fail(w)
    \/ \E i \in Items : ExpireHeld(i) \/ ExpireOrphan(i)
    \/ Joined

Spec == Init /\ [][Next]_vars

\* Every thread is scheduled, calls return, and time passes.
FairSpec ==
    /\ Spec
    /\ \A w \in Workers : WF_vars(Step(w))
    /\ \A i \in Items : WF_vars(ExpireOrphan(i))
----------------------------------------------------------------------------
(* Properties *)

\* Types of the harness's state.
TypeOK ==
    /\ Present \subseteq Items
    /\ queue \in [Present -> Message]
    /\ pc \in [Workers -> Labels]
    /\ item \in [Workers -> Items]
    /\ attempt \in [Workers -> Nat]
    /\ current \subseteq Workers
    /\ completed \in 0..Count
    /\ faults \in Nat /\ errors \in Nat /\ expiries \in Nat
    /\ lost \subseteq Items

\* The counter is exact: it is the number of messages that left the queue,
\* except those whose acknowledgement was applied without returning Ok: the
\* repeated ack of such a message returns NotFound, and a worker that ends with
\* the error repeats nothing.  Neither two workers with claims of one message
\* nor any expiry, conflict or retry counts one twice.
CompletedExact ==
    completed + Cardinality(lost) + Cardinality(Present) = Count

\* assert_eq!(completed, items) and assert!(queue.is_empty()): once any worker
\* leaves its loop without an error, every message is acknowledged.
AssertionsHold ==
    (\E w \in Workers : pc[w] = "done") => completed = Count /\ Present = {}

\* Every message is eventually acknowledged while one worker is left: a lease
\* that belongs to nobody, because its claim was not answered or its worker
\* ended, runs out and the message is claimed again.
QueueDrains == <>[](Present = {} \/ \A w \in Workers : pc[w] = "failed")

\* All workers leave their loops, if no ack is applied without returning Ok.
\* (After one such ack, whether it was repeated or ended its worker, the
\* counter never reaches the number of items, and the workers that are left
\* poll the empty queue for ever.)
LoopsEnd == [](lost = {}) => <>Finished
=============================================================================
