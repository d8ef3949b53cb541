-------------------------------- MODULE Log --------------------------------
(***************************************************************************)
(* The append-only Log of crates/objsds: append reads the whole object,    *)
(* draws a UUIDv7 id, inserts the record where binary_search_by_key puts   *)
(* it and replaces the object if its version is still the one it read.     *)
(* A tailing reader calls records_after with the last id it has seen.      *)
(*                                                                         *)
(* A record's value never influences control and never changes: a record   *)
(* is its id, a natural number in the order UUIDv7 values sort.  Every     *)
(* applied append adds an id that was never stored, so contents do not     *)
(* recur and a version is the content for counters and ETags alike.        *)
(***************************************************************************)
EXTENDS Integers, SequencesExt

CONSTANTS
    Writers,      \* threads that append
    Processes,    \* operating system processes
    ProcessOf,    \* the process of each writer
    Ids,          \* record ids
    MaxInFlight   \* bound: abandoned requests that may still arrive

ASSUME LogAssumption ==
    /\ ProcessOf \in [Writers -> Processes]
    /\ Ids \subseteq Nat
    /\ MaxInFlight \in Nat

VARIABLES
    records,    \* the stored records, and so also the object's version
    pc,         \* where each writer stands in append
    snapshot,   \* the records each writer decoded
    id,         \* the id it drew, -1 before that
    inflight,   \* replaces whose caller gave up but which may still arrive
    drawn,      \* ids drawn by each process' UUIDv7 generator
    tail        \* what the tailing reader has collected

vars == <<records, pc, snapshot, id, inflight, drawn, tail>>

----------------------------------------------------------------------------

StrictlyIncreasing(s) == \A i, j \in DOMAIN s : i < j => s[i] < s[j]

\* Faulty variant: the record is pushed at the end.
PushBack(s, new, index) == index = Len(s) + 1

\* index is the place of new in s: smaller ids before, greater ones after.
BinarySearch(s, new, index) ==
    /\ \A i \in 1..(index - 1) : s[i] < new
    /\ \A i \in index..Len(s) : new < s[i]

\* Faulty variant: a replace without the If-Match condition.
Unconditional(s) == TRUE

Current(s) == s = records

\* Faulty variant: ids are fresh but not monotonic within a process.
UnorderedIds(p) == {new \in Ids : \A q \in Processes : new \notin drawn[q]}

\* Uuid::now_v7(): never used before, and above every id of this process.
FreshIds(p) ==
    {new \in Ids : /\ \A q \in Processes : new \notin drawn[q]
                   /\ \A old \in drawn[p] : old < new}

\* partition_point(|record| record.id <= id): the records up to index, and no
\* others, are not after the given id.
PartitionPoint(s, after, index) ==
    /\ \A i \in 1..index : s[i] <= after
    /\ \A i \in (index + 1)..Len(s) : after < s[i]

Init ==
    /\ records = <<>>
    /\ pc = [w \in Writers |-> "idle"]
    /\ snapshot = [w \in Writers |-> <<>>]
    /\ id = [w \in Writers |-> -1]
    /\ inflight = {}
    /\ drawn = [p \in Processes |-> {}]
    /\ tail = <<>>

Return(w) ==
    /\ pc' = [pc EXCEPT ![w] = "idle"]
    /\ snapshot' = [snapshot EXCEPT ![w] = <<>>]
    /\ id' = [id EXCEPT ![w] = -1]

----------------------------------------------------------------------------

\* append: read().
Read(w) ==
    /\ pc[w] = "idle"
    /\ pc' = [pc EXCEPT ![w] = "prepare"]
    /\ snapshot' = [snapshot EXCEPT ![w] = records]
    /\ UNCHANGED <<records, id, inflight, drawn, tail>>

\* append: LogId::now(), binary_search_by_key and insert.
Prepare(w) ==
    /\ pc[w] = "prepare"
    /\ \E new \in FreshIds(ProcessOf[w]) :
         /\ drawn' = [drawn EXCEPT ![ProcessOf[w]] = @ \cup {new}]
         /\ id' = [id EXCEPT ![w] = new]
    /\ pc' = [pc EXCEPT ![w] = "write"]
    /\ UNCHANGED <<records, snapshot, inflight, tail>>

\* The conditional replace of the snapshot s with new inserted.
Apply(s, new) ==
    /\ Current(s)
    /\ \E index \in 1..(Len(s) + 1) :
         /\ BinarySearch(s, new, index)
         /\ records' = InsertAt(s, index, new)

Replace(w) ==
    /\ pc[w] = "write"
    /\ Apply(snapshot[w], id[w])
    /\ Return(w)
    /\ UNCHANGED <<inflight, drawn, tail>>

\* Error::Conflict: nothing is written and nothing retried.
Conflict(w) ==
    /\ pc[w] = "write"
    /\ ~Current(snapshot[w])
    /\ Return(w)
    /\ UNCHANGED <<records, inflight, drawn, tail>>

\* Error::Store with the request under way, or the process dies then.
LoseReply(w) ==
    /\ pc[w] = "write"
    /\ Cardinality(inflight) < MaxInFlight
    /\ inflight' = inflight \cup {[snapshot |-> snapshot[w], id |-> id[w]]}
    /\ Return(w)
    /\ UNCHANGED <<records, drawn, tail>>

\* A request nobody waits for reaches the store.
LateArrival(m) ==
    /\ inflight' = inflight \ {m}
    /\ \/ Apply(m.snapshot, m.id)
       \/ ~Current(m.snapshot) /\ UNCHANGED records
    /\ UNCHANGED <<pc, snapshot, id, drawn, tail>>

\* Error::Store of a request that never reaches the store.
StoreFails(w) ==
    /\ pc[w] # "idle"
    /\ Return(w)
    /\ UNCHANGED <<records, inflight, drawn, tail>>

\* The reader calls records_after(last id seen), records() at first.
Follow ==
    /\ \E index \in 0..Len(records) :
         /\ PartitionPoint(records, IF tail = <<>> THEN -1 ELSE Last(tail), index)
         /\ tail' = tail \o SubSeq(records, index + 1, Len(records))
    /\ UNCHANGED <<records, pc, snapshot, id, inflight, drawn>>

Next ==
    \/ \E w \in Writers :
         \/ Read(w) \/ Prepare(w) \/ Replace(w) \/ Conflict(w)
         \/ LoseReply(w) \/ StoreFails(w)
    \/ \E m \in inflight : LateArrival(m)
    \/ Follow

Spec == Init /\ [][Next]_vars

----------------------------------------------------------------------------
(* Properties *)

\* Types of the log's state.
TypeOK ==
    /\ records \in Seq(Ids)
    /\ pc \in [Writers -> {"idle", "prepare", "write"}]
    /\ snapshot \in [Writers -> Seq(Ids)]
    /\ id \in [Writers -> Ids \cup {-1}]
    /\ inflight \subseteq [snapshot : Seq(Ids), id : Ids]
    /\ drawn \in [Processes -> SUBSET Ids]
    /\ tail \in Seq(Ids)

\* read() never finds the document Corrupt: ids stay strictly increasing also
\* when processes whose clocks differ append in turn.
RecordsIncrease == StrictlyIncreasing(records)

\* A stored record stays for good and in its place among the others: no
\* append from an older snapshot, in time or late, drops or moves one.
AppendOnly ==
    [][\E place \in [DOMAIN records -> DOMAIN records'] :
          /\ StrictlyIncreasing(place)
          /\ \A i \in DOMAIN records : records'[place[i]] = records[i]]_vars

\* A reader that follows the log by records_after sees records in order, none
\* twice, and passes over one only for a greater id that another process drew.
\* In particular it misses nothing when one process appends, whose threads
\* draw their ids after they read and before others change what they read.
TailComplete ==
    /\ StrictlyIncreasing(tail)
    /\ \A p \in Processes :
         \A r \in (ToSet(records) \cap drawn[p]) \ ToSet(tail) :
             tail # <<>> /\ r < Last(tail)
               => \E s \in ToSet(tail) \ drawn[p] : r < s
============================================================================
