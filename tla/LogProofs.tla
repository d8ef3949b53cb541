----------------------------- MODULE LogProofs -----------------------------
(***************************************************************************)
(* The log stays sorted and append-only, and its tailing reader complete,  *)
(* for every set of writers, processes and ids and any number of requests  *)
(* that arrive late.                                                       *)
(*                                                                         *)
(* What a reader may miss depends on when ids were drawn, which the log    *)
(* does not record.  The inductive invariant carries it with each append   *)
(* that may still be applied (AppendOK): ids of the writer's own process   *)
(* in its snapshot were drawn before the append's id, and so lie below it. *)
(***************************************************************************)
EXTENDS Log, SequenceTheorems, TLAPS

\* Every id in s was drawn.
Known(s) == \A i \in DOMAIN s : \E p \in Processes : s[i] \in drawn[p]

\* What is known of an append of new to the snapshot s: new was drawn after
\* the ids of s that its own process drew.
AppendOK(s, new) ==
    /\ \E p \in Processes : new \in drawn[p]
    /\ \A p \in Processes : new \in drawn[p] =>
         \A i \in DOMAIN s : s[i] \in drawn[p] => s[i] < new

WriterOK(w) ==
    /\ Known(snapshot[w])
    /\ pc[w] = "write" => id[w] \in Ids /\ AppendOK(snapshot[w], id[w])

TailOK ==
    /\ StrictlyIncreasing(tail)
    /\ \A i \in DOMAIN tail : \E j \in DOMAIN records : tail[i] = records[j]
    /\ \A p \in Processes, i \in DOMAIN records :
         records[i] \in drawn[p] /\ tail # <<>> /\ records[i] < tail[Len(tail)] =>
           \/ \E j \in DOMAIN tail : tail[j] = records[i]
           \/ \E j \in DOMAIN tail : tail[j] \notin drawn[p] /\ records[i] < tail[j]

LogInv ==
    /\ TypeOK
    /\ RecordsIncrease
    /\ Known(records)
    /\ \A w \in Writers : WriterOK(w)
    /\ \A m \in inflight : Known(m.snapshot) /\ AppendOK(m.snapshot, m.id)
    /\ TailOK

----------------------------------------------------------------------------
(* Inserting a record *)

\* Inserting new at index keeps the others in order around it.
LEMMA InsertRecord ==
    ASSUME NEW s \in Seq(Ids), NEW new \in Ids, NEW index \in 1..(Len(s) + 1),
           NEW n, n = InsertAt(s, index, new)
    PROVE  /\ n \in Seq(Ids) /\ Len(n) = Len(s) + 1 /\ DOMAIN n = 1..Len(n)
           /\ \A i \in 1..(Len(s) + 1) :
                n[i] = IF i < index THEN s[i]
                       ELSE IF i = index THEN new ELSE s[i - 1]
<1>1. PICK a : a = SubSeq(s, 1, index - 1)
  OBVIOUS
<1>2. PICK c : c = SubSeq(s, index, Len(s))
  OBVIOUS
<1>3. /\ Len(s) \in Nat /\ index \in Nat
      /\ a \in Seq(Ids) /\ Len(a) = index - 1
      /\ \A i \in 1..(index - 1) : a[i] = s[i]
  BY <1>1
<1>4. /\ c \in Seq(Ids) /\ Len(c) = Len(s) - index + 1
      /\ \A i \in 1..(Len(s) - index + 1) : c[i] = s[index + i - 1]
  BY <1>2
<1>5. PICK b : b = a \o <<new>>
  OBVIOUS
<1>6. /\ b \in Seq(Ids) /\ Len(b) = index
      /\ \A i \in 1..(index - 1) : b[i] = s[i]
      /\ b[index] = new
  BY <1>3, <1>5
<1>7. PICK m : m = b \o c
  OBVIOUS
<1>8. /\ n \in Seq(Ids) /\ Len(n) = Len(b) + Len(c)
      /\ \A i \in 1..(Len(b) + Len(c)) :
           n[i] = IF i <= Len(b) THEN b[i] ELSE c[i - Len(b)]
  <2>1. n = m
    BY <1>1, <1>2, <1>5, <1>7 DEF InsertAt
  <2>2. /\ m \in Seq(Ids) /\ Len(m) = Len(b) + Len(c)
        /\ \A i \in 1..(Len(b) + Len(c)) :
             m[i] = IF i <= Len(b) THEN b[i] ELSE c[i - Len(b)]
    BY <1>4, <1>6, <1>7, ConcatProperties, Zenon
  <2> QED
    BY <2>1, <2>2
<1>9. DOMAIN n = 1..Len(n)
  BY <1>8
<1>10. ASSUME NEW i \in 1..(Len(s) + 1)
       PROVE  n[i] = IF i < index THEN s[i]
                     ELSE IF i = index THEN new ELSE s[i - 1]
  <2>1. CASE i <= index
    BY <1>3, <1>4, <1>6, <1>8, <2>1
  <2>2. CASE i > index
    <3>1. n[i] = c[i - index] /\ i - index \in 1..(Len(s) - index + 1)
      BY <1>3, <1>4, <1>6, <1>8, <2>2
    <3>2. c[i - index] = s[i - 1]
      BY <1>3, <1>4, <3>1
    <3>3. QED
      BY <1>3, <2>2, <3>1, <3>2
  <2>3. QED
    BY <1>3, <2>1, <2>2
<1>11. QED
  BY <1>3, <1>4, <1>6, <1>8, <1>9, <1>10

\* records' holds the old records, each in its place among the others.
Embedded ==
    \E place \in [DOMAIN records -> DOMAIN records'] :
        /\ StrictlyIncreasing(place)
        /\ \A i \in DOMAIN records : records'[place[i]] = records[i]

\* An append that is applied, in time or late: the log stays sorted, and the
\* reader is behind it only if another process' id lies above it.
LEMMA ApplyStep ==
    ASSUME TypeOK, RecordsIncrease, Known(records), TailOK,
           NEW s \in Seq(Ids), NEW new \in Ids, AppendOK(s, new),
           Apply(s, new), UNCHANGED <<drawn, tail>>
    PROVE  /\ records' \in Seq(Ids)
           /\ RecordsIncrease' /\ Known(records)' /\ TailOK' /\ Embedded
<1>1. records = s
  BY DEF Apply, Current
<1>2. PICK index \in 1..(Len(s) + 1) : /\ BinarySearch(s, new, index)
                                       /\ records' = InsertAt(s, index, new)
  BY DEF Apply
<1>3. Len(s) \in Nat /\ DOMAIN s = 1..Len(s) /\ Ids \subseteq Nat
      /\ \A i \in 1..Len(s) : s[i] \in Ids
  BY LogAssumption
<1>4. /\ records' \in Seq(Ids) /\ Len(records') = Len(s) + 1
      /\ DOMAIN records' = 1..Len(records')
      /\ \A i \in 1..(Len(s) + 1) :
           records'[i] = IF i < index THEN s[i]
                         ELSE IF i = index THEN new ELSE s[i - 1]
  <2>1. PICK n : n = InsertAt(s, index, new)
    OBVIOUS
  <2>2. /\ n \in Seq(Ids) /\ Len(n) = Len(s) + 1 /\ DOMAIN n = 1..Len(n)
        /\ \A i \in 1..(Len(s) + 1) :
             n[i] = IF i < index THEN s[i]
                    ELSE IF i = index THEN new ELSE s[i - 1]
    BY <2>1, InsertRecord
  <2>3. n = records'
    BY <1>2, <2>1
  <2> QED
    BY <2>2, <2>3, Zenon
<1>5. DOMAIN records' = 1..(Len(s) + 1)
  BY <1>4
<1>6. \A i, j \in 1..Len(s) : i < j => s[i] < s[j]
  BY <1>1, <1>3 DEF RecordsIncrease, StrictlyIncreasing
<1>7. /\ \A i \in 1..(index - 1) : s[i] < new
      /\ \A i \in index..Len(s) : new < s[i]
  BY <1>2 DEF BinarySearch
<1>8. RecordsIncrease'
  <2>1. SUFFICES ASSUME NEW i \in 1..(Len(s) + 1), NEW j \in 1..(Len(s) + 1),
                        i < j
                 PROVE  records'[i] < records'[j]
    BY <1>4, <1>5 DEF RecordsIncrease, StrictlyIncreasing
  <2>2. CASE j < index
    BY <1>3, <1>4, <1>5, <1>6, <2>1, <2>2
  <2>3. CASE j = index
    BY <1>3, <1>4, <1>5, <1>7, <2>1, <2>3
  <2>4. CASE j > index /\ i = index
    <3>1. j - 1 \in index..Len(s) /\ records'[j] = s[j - 1] /\ records'[i] = new
      BY <1>3, <1>4, <1>5, <2>1, <2>4
    <3>2. QED
      BY <1>7, <3>1
  <2>5. CASE j > index /\ i > index
    <3>1. /\ j - 1 \in 1..Len(s) /\ records'[j] = s[j - 1]
          /\ i - 1 \in 1..Len(s) /\ records'[i] = s[i - 1] /\ i - 1 < j - 1
      BY <1>3, <1>4, <1>5, <2>1, <2>5
    <3>2. QED
      BY <1>6, <3>1
  <2>6. CASE j > index /\ i < index
    <3>1. /\ j - 1 \in 1..Len(s) /\ records'[j] = s[j - 1]
          /\ i \in 1..Len(s) /\ records'[i] = s[i] /\ i < j - 1
      BY <1>3, <1>4, <1>5, <2>1, <2>6
    <3>2. QED
      BY <1>6, <3>1
  <2>7. QED
    BY <1>2, <1>3, <2>1, <2>2, <2>3, <2>4, <2>5, <2>6
\* Each new record is an old one or new itself, and each old one is found.
<1>9. \A i \in 1..(Len(s) + 1) :
        records'[i] = new \/ \E j \in 1..Len(s) : records'[i] = s[j]
  <2>1. SUFFICES ASSUME NEW i \in 1..(Len(s) + 1)
                 PROVE  records'[i] = new
                          \/ \E j \in 1..Len(s) : records'[i] = s[j]
    OBVIOUS
  <2>2. CASE i < index
    BY <1>2, <1>3, <1>4, <1>5, <2>2
  <2>3. CASE i = index
    BY <1>4, <1>5, <2>3
  <2>4. CASE i > index
    <3>1. i - 1 \in 1..Len(s) /\ records'[i] = s[i - 1]
      BY <1>3, <1>4, <1>5, <2>4
    <3>2. QED
      BY <3>1
  <2>5. QED
    BY <1>3, <2>2, <2>3, <2>4
<1>10. PICK place \in [DOMAIN records -> DOMAIN records'] :
        \A i \in 1..Len(s) : place[i] = IF i < index THEN i ELSE i + 1
  <2> DEFINE f == [i \in 1..Len(s) |-> IF i < index THEN i ELSE i + 1]
  <2>1. f \in [1..Len(s) -> 1..(Len(s) + 1)]
    BY <1>3
  <2>2. \A i \in 1..Len(s) : f[i] = IF i < index THEN i ELSE i + 1
    OBVIOUS
  <2>3. f \in [DOMAIN records -> DOMAIN records']
    BY <1>1, <1>3, <1>4, <1>5, <2>1
  <2> HIDE DEF f
  <2>4. QED
    BY <2>2, <2>3
<1>11. \A i \in 1..Len(s) : records'[place[i]] = s[i]
  BY <1>3, <1>4, <1>5, <1>10
<1>12. Embedded
  <2>1. DOMAIN place = 1..Len(s)
    BY <1>1, <1>3
  <2>2. StrictlyIncreasing(place)
    BY <1>3, <1>10, <2>1 DEF StrictlyIncreasing
  <2>3. QED
    BY <1>1, <1>3, <1>11, <2>2 DEF Embedded
<1>13. Known(records)'
  BY <1>1, <1>3, <1>4, <1>5, <1>9 DEF Known, AppendOK
<1>14. TailOK'
  <2>1. StrictlyIncreasing(tail')
    BY DEF TailOK
  <2>2. \A i \in DOMAIN tail : \E j \in DOMAIN records' : tail[i] = records'[j]
    BY <1>1, <1>3, <1>10, <1>11 DEF TailOK
  <2>3. ASSUME NEW p \in Processes, NEW i \in DOMAIN records',
               records'[i] \in drawn[p], tail # <<>>,
               records'[i] < tail[Len(tail)]
        PROVE  \/ \E j \in DOMAIN tail : tail[j] = records'[i]
               \/ \E j \in DOMAIN tail : /\ tail[j] \notin drawn[p]
                                         /\ records'[i] < tail[j]
    <3>1. CASE \E j \in 1..Len(s) : records'[i] = s[j]
      BY <1>1, <1>3, <2>3, <3>1 DEF TailOK
    <3>2. CASE records'[i] = new
      <4>1. Len(tail) \in DOMAIN tail /\ tail \in Seq(Ids)
        BY <2>3 DEF TypeOK
      <4>2. PICK j \in 1..Len(s) : tail[Len(tail)] = s[j]
        BY <1>1, <1>3, <4>1 DEF TailOK
      <4>3. tail[Len(tail)] \notin drawn[p]
        <5>1. SUFFICES ASSUME s[j] \in drawn[p] PROVE FALSE
          BY <4>2
        <5>2. s[j] < new
          BY <1>3, <2>3, <3>2, <5>1 DEF AppendOK
        <5>3. s[j] \in Nat /\ new \in Nat
          BY <1>3
        <5>4. QED
          BY <2>3, <3>2, <4>2, <5>2, <5>3
      <4>4. QED
        BY <2>3, <4>1, <4>3
    <3>3. QED
      BY <1>4, <1>5, <1>9, <3>1, <3>2
  <2>4. QED
    BY <2>1, <2>2, <2>3 DEF TailOK
<1>15. QED
  BY <1>4, <1>5, <1>8, <1>12, <1>13, <1>14

\* A step that leaves the records alone drops and moves none.
LEMMA RecordsKept ==
    ASSUME records \in Seq(Ids), UNCHANGED records
    PROVE  Embedded
<1> DEFINE f == [i \in DOMAIN records |-> i]
<1>1. f \in [DOMAIN records -> DOMAIN records'] /\ StrictlyIncreasing(f)
  BY DEF StrictlyIncreasing
<1>2. \A i \in DOMAIN records : records'[f[i]] = records[i]
  OBVIOUS
<1>3. QED
  BY <1>1, <1>2 DEF Embedded

----------------------------------------------------------------------------
(* The other steps *)

\* Drawing a fresh id disturbs nothing that is known of older ones.
LEMMA DrawKeeps ==
    ASSUME TypeOK, NEW q \in Processes, NEW new \in FreshIds(q),
           drawn' = [drawn EXCEPT ![q] = @ \cup {new}],
           NEW s \in Seq(Ids), Known(s)
    PROVE  /\ Known(s)'
           /\ \A old \in Ids : AppendOK(s, old) => AppendOK(s, old)'
<1>1. /\ \A p \in Processes : new \notin drawn[p]
      /\ \A p \in Processes :
           drawn'[p] = IF p = q THEN drawn[q] \cup {new} ELSE drawn[p]
  BY DEF TypeOK, FreshIds
<1>2. \A i \in DOMAIN s : s[i] # new
  BY <1>1 DEF Known
<1>3. Known(s)'
  BY <1>1 DEF Known
<1>4. ASSUME NEW old \in Ids, AppendOK(s, old)
      PROVE  AppendOK(s, old)'
  BY <1>1, <1>2, <1>4 DEF AppendOK
<1>5. QED
  BY <1>3, <1>4

\* A call that returns leaves nothing behind, and the others alone.
LEMMA ReturnKeeps ==
    ASSUME TypeOK, \A v \in Writers : WriterOK(v), NEW w \in Writers, Return(w),
           UNCHANGED drawn
    PROVE  /\ pc' \in [Writers -> {"idle", "prepare", "write"}]
           /\ snapshot' \in [Writers -> Seq(Ids)]
           /\ id' \in [Writers -> Ids \cup {-1}]
           /\ \A v \in Writers : WriterOK(v)'
<1>1. <<>> \in Seq(Ids) /\ DOMAIN <<>> = {}
  OBVIOUS
<1>2. /\ pc' \in [Writers -> {"idle", "prepare", "write"}]
      /\ snapshot' \in [Writers -> Seq(Ids)]
      /\ id' \in [Writers -> Ids \cup {-1}]
  BY <1>1 DEF TypeOK, Return
<1>3. pc'[w] = "idle" /\ snapshot'[w] = <<>>
  BY DEF TypeOK, Return
<1>4. WriterOK(w)'
  BY <1>1, <1>3 DEF WriterOK, Known
<1>5. ASSUME NEW v \in Writers, v # w
      PROVE  WriterOK(v)'
  <2>1. pc'[v] = pc[v] /\ snapshot'[v] = snapshot[v] /\ id'[v] = id[v]
    BY <1>5 DEF TypeOK, Return
  <2>2. QED
    BY <2>1 DEF WriterOK, Known, AppendOK
<1>6. QED
  BY <1>2, <1>4, <1>5

\* What is known of requests does not depend on the log itself.
LEMMA InflightKept ==
    ASSUME LogInv, UNCHANGED drawn, inflight' \subseteq inflight
    PROVE  /\ inflight' \subseteq [snapshot : Seq(Ids), id : Ids]
           /\ \A m \in inflight' : Known(m.snapshot)' /\ AppendOK(m.snapshot, m.id)'
BY DEF LogInv, TypeOK, Known, AppendOK

LEMMA ReadStep ==
    ASSUME LogInv, NEW w \in Writers, Read(w)
    PROVE  LogInv'
<1>1. TypeOK /\ Known(records) /\ (\A v \in Writers : WriterOK(v))
  BY DEF LogInv
<1>2. TypeOK'
  BY <1>1 DEF TypeOK, Read
<1>3. \A v \in Writers : WriterOK(v)'
  <2>1. SUFFICES ASSUME NEW v \in Writers PROVE WriterOK(v)'
    OBVIOUS
  <2>2. CASE v = w
    <3>1. pc'[v] = "prepare" /\ snapshot'[v] = records
      BY <1>1, <2>2 DEF TypeOK, Read
    <3>2. QED
      BY <1>1, <3>1 DEF WriterOK, Known, Read
  <2>3. CASE v # w
    <3>1. pc'[v] = pc[v] /\ snapshot'[v] = snapshot[v] /\ id'[v] = id[v]
      BY <1>1, <2>3 DEF TypeOK, Read
    <3>2. QED
      BY <1>1, <3>1 DEF WriterOK, Known, AppendOK, Read
  <2>4. QED
    BY <2>2, <2>3
<1>4. \A m \in inflight' : Known(m.snapshot)' /\ AppendOK(m.snapshot, m.id)'
  BY InflightKept DEF Read
<1>5. RecordsIncrease' /\ Known(records)' /\ TailOK'
  BY DEF LogInv, RecordsIncrease, Known, TailOK, Read
<1>6. QED
  BY <1>2, <1>3, <1>4, <1>5 DEF LogInv

\* The id is drawn after everything in the snapshot, in the same process.
LEMMA PrepareStep ==
    ASSUME LogInv, NEW w \in Writers, Prepare(w)
    PROVE  LogInv'
<1>1. TypeOK /\ Known(records) /\ TailOK /\ (\A v \in Writers : WriterOK(v))
      /\ (\A m \in inflight : Known(m.snapshot) /\ AppendOK(m.snapshot, m.id))
  BY DEF LogInv
<1>2. PICK q \in Processes : q = ProcessOf[w]
  BY LogAssumption
<1>3. PICK new \in FreshIds(q) :
         /\ drawn' = [drawn EXCEPT ![q] = @ \cup {new}]
         /\ id' = [id EXCEPT ![w] = new]
  BY <1>2 DEF Prepare
<1>4. new \in Ids /\ (\A p \in Processes : new \notin drawn[p])
      /\ (\A old \in drawn[q] : old < new)
  BY <1>3 DEF FreshIds
<1>5. \A p \in Processes :
        drawn'[p] = IF p = q THEN drawn[q] \cup {new} ELSE drawn[p]
  BY <1>1, <1>3 DEF TypeOK
<1>6. TypeOK'
  BY <1>1, <1>3, <1>4 DEF TypeOK, Prepare
<1>7. ASSUME NEW v \in Writers
      PROVE  WriterOK(v)'
  <2>1. PICK s \in Seq(Ids) : s = snapshot[v]
    BY <1>1 DEF TypeOK
  <2>2. Known(s) /\ snapshot'[v] = s
    BY <1>1, <2>1 DEF WriterOK, Prepare
  <2>3. Known(s)' /\ (\A old \in Ids : AppendOK(s, old) => AppendOK(s, old)')
    BY <1>1, <1>3, <2>2, DrawKeeps
  <2>4. CASE v = w
    <3>1. pc'[v] = "write" /\ id'[v] = new
      BY <1>1, <1>3, <2>4 DEF TypeOK, Prepare
    <3>2. AppendOK(s, new)'
      <4>1. \A i \in DOMAIN s : s[i] # new
        BY <1>4, <2>2 DEF Known
      <4>2. QED
        BY <1>4, <1>5, <4>1 DEF AppendOK
    <3>3. QED
      BY <1>4, <2>2, <2>3, <3>1, <3>2 DEF WriterOK
  <2>5. CASE v # w
    <3>1. pc'[v] = pc[v] /\ id'[v] = id[v]
      BY <1>1, <1>3, <2>5 DEF TypeOK, Prepare
    <3>2. PICK old : old = id[v]
      OBVIOUS
    <3>3. pc[v] = "write" => old \in Ids /\ AppendOK(s, old)
      BY <1>1, <2>1, <3>2 DEF WriterOK
    <3>4. QED
      BY <2>2, <2>3, <3>1, <3>2, <3>3 DEF WriterOK
  <2>6. QED
    BY <2>4, <2>5
<1>8. ASSUME NEW m \in inflight
      PROVE  Known(m.snapshot)' /\ AppendOK(m.snapshot, m.id)'
  <2>1. m.snapshot \in Seq(Ids) /\ m.id \in Ids
    BY <1>1 DEF TypeOK
  <2>2. QED
    BY <1>1, <1>3, <2>1, DrawKeeps
<1>9. Known(records)'
  BY <1>1, <1>5 DEF Known, Prepare
<1>10. TailOK'
  <2>1. \A i \in DOMAIN records : records[i] # new
    BY <1>1, <1>4 DEF Known
  <2>2. \A i \in DOMAIN tail : tail[i] # new
    BY <1>1, <2>1 DEF TailOK
  <2>3. \A p \in Processes, i \in DOMAIN records :
          records[i] \in drawn'[p] => records[i] \in drawn[p]
    BY <1>5, <2>1
  <2>4. \A p \in Processes, i \in DOMAIN tail :
          tail[i] \notin drawn[p] => tail[i] \notin drawn'[p]
    BY <1>5, <2>2
  <2>5. UNCHANGED <<records, tail>>
    BY DEF Prepare
  <2>6. QED
    BY <1>1, <2>3, <2>4, <2>5 DEF TailOK
<1>11. QED
  BY <1>6, <1>7, <1>8, <1>9, <1>10 DEF LogInv, RecordsIncrease, Prepare

LEMMA ReplaceStep ==
    ASSUME LogInv, NEW w \in Writers, Replace(w)
    PROVE  LogInv' /\ Embedded
<1>1. TypeOK /\ RecordsIncrease /\ Known(records) /\ TailOK
      /\ (\A v \in Writers : WriterOK(v))
  BY DEF LogInv
<1>2. snapshot[w] \in Seq(Ids) /\ id[w] \in Ids /\ AppendOK(snapshot[w], id[w])
      /\ Apply(snapshot[w], id[w]) /\ Return(w) /\ UNCHANGED <<inflight, drawn, tail>>
  BY <1>1 DEF TypeOK, WriterOK, Replace
<1>3. PICK s \in Seq(Ids), new \in Ids : s = snapshot[w] /\ new = id[w]
  BY <1>2
<1>4. AppendOK(s, new) /\ Apply(s, new)
  BY <1>2, <1>3
<1>5. /\ records' \in Seq(Ids)
      /\ RecordsIncrease' /\ Known(records)' /\ TailOK' /\ Embedded
  BY <1>1, <1>2, <1>4, ApplyStep
<1>6. /\ pc' \in [Writers -> {"idle", "prepare", "write"}]
      /\ snapshot' \in [Writers -> Seq(Ids)]
      /\ id' \in [Writers -> Ids \cup {-1}]
      /\ \A v \in Writers : WriterOK(v)'
  BY <1>1, <1>2, ReturnKeeps
<1>7. /\ inflight' \subseteq [snapshot : Seq(Ids), id : Ids]
      /\ \A m \in inflight' : Known(m.snapshot)' /\ AppendOK(m.snapshot, m.id)'
  BY <1>2, InflightKept
<1>8. TypeOK'
  BY <1>1, <1>2, <1>5, <1>6, <1>7 DEF TypeOK
<1>9. QED
  BY <1>5, <1>6, <1>7, <1>8 DEF LogInv

LEMMA GiveUpStep ==
    ASSUME LogInv, NEW w \in Writers, Conflict(w) \/ StoreFails(w)
    PROVE  LogInv'
<1>1. TypeOK /\ (\A v \in Writers : WriterOK(v))
  BY DEF LogInv
<1>2. Return(w) /\ UNCHANGED <<records, inflight, drawn, tail>>
  BY DEF Conflict, StoreFails
<1>3. /\ pc' \in [Writers -> {"idle", "prepare", "write"}]
      /\ snapshot' \in [Writers -> Seq(Ids)]
      /\ id' \in [Writers -> Ids \cup {-1}]
      /\ \A v \in Writers : WriterOK(v)'
  BY <1>1, <1>2, ReturnKeeps
<1>4. \A m \in inflight' : Known(m.snapshot)' /\ AppendOK(m.snapshot, m.id)'
  BY <1>2, InflightKept
<1>5. TypeOK'
  BY <1>1, <1>2, <1>3 DEF TypeOK
<1>6. RecordsIncrease' /\ Known(records)' /\ TailOK'
  BY <1>2 DEF LogInv, RecordsIncrease, Known, TailOK
<1>7. QED
  BY <1>3, <1>4, <1>5, <1>6 DEF LogInv

LEMMA LoseReplyStep ==
    ASSUME LogInv, NEW w \in Writers, LoseReply(w)
    PROVE  LogInv'
<1>1. TypeOK /\ (\A v \in Writers : WriterOK(v))
      /\ (\A m \in inflight : Known(m.snapshot) /\ AppendOK(m.snapshot, m.id))
  BY DEF LogInv
<1>2. Return(w) /\ UNCHANGED <<records, drawn, tail>>
  BY DEF LoseReply
<1>3. PICK r : r = [snapshot |-> snapshot[w], id |-> id[w]]
  OBVIOUS
<1>4. /\ r \in [snapshot : Seq(Ids), id : Ids] /\ Known(r.snapshot)
      /\ AppendOK(r.snapshot, r.id)
  BY <1>1, <1>3 DEF TypeOK, WriterOK, LoseReply
<1>5. inflight' = inflight \cup {r}
  BY <1>3 DEF LoseReply
<1>6. /\ pc' \in [Writers -> {"idle", "prepare", "write"}]
      /\ snapshot' \in [Writers -> Seq(Ids)]
      /\ id' \in [Writers -> Ids \cup {-1}]
      /\ \A v \in Writers : WriterOK(v)'
  BY <1>1, <1>2, ReturnKeeps
<1>7. \A m \in inflight' : Known(m.snapshot)' /\ AppendOK(m.snapshot, m.id)'
  BY <1>1, <1>2, <1>4, <1>5 DEF Known, AppendOK
<1>8. TypeOK'
  BY <1>1, <1>2, <1>4, <1>5, <1>6 DEF TypeOK
<1>9. RecordsIncrease' /\ Known(records)' /\ TailOK'
  BY <1>2 DEF LogInv, RecordsIncrease, Known, TailOK
<1>10. QED
  BY <1>6, <1>7, <1>8, <1>9 DEF LogInv

LEMMA LateStep ==
    ASSUME LogInv, NEW m \in inflight, LateArrival(m)
    PROVE  LogInv' /\ Embedded
<1>1. TypeOK /\ RecordsIncrease /\ Known(records) /\ TailOK
      /\ (\A v \in Writers : WriterOK(v))
  BY DEF LogInv
<1>2. UNCHANGED <<pc, snapshot, id, drawn, tail>> /\ inflight' \subseteq inflight
  BY DEF LateArrival
<1>3. m.snapshot \in Seq(Ids) /\ m.id \in Ids /\ AppendOK(m.snapshot, m.id)
  BY <1>1 DEF TypeOK, LogInv
<1>4. /\ records' \in Seq(Ids)
      /\ RecordsIncrease' /\ Known(records)' /\ TailOK' /\ Embedded
  <2>1. CASE Apply(m.snapshot, m.id)
    BY <1>1, <1>2, <1>3, <2>1, ApplyStep
  <2>2. CASE UNCHANGED records
    <3>1. records \in Seq(Ids)
      BY <1>1 DEF TypeOK
    <3>2. RecordsIncrease' /\ Known(records)' /\ TailOK'
      BY <1>1, <1>2, <2>2 DEF RecordsIncrease, Known, TailOK
    <3>3. QED
      BY <2>2, <3>1, <3>2, RecordsKept
  <2>3. QED
    BY <2>1, <2>2 DEF LateArrival
<1>5. /\ inflight' \subseteq [snapshot : Seq(Ids), id : Ids]
      /\ \A n \in inflight' : Known(n.snapshot)' /\ AppendOK(n.snapshot, n.id)'
  BY <1>2, InflightKept
<1>6. \A v \in Writers : WriterOK(v)'
  BY <1>1, <1>2 DEF WriterOK, Known, AppendOK
<1>7. TypeOK'
  BY <1>1, <1>2, <1>4, <1>5 DEF TypeOK
<1>8. QED
  BY <1>4, <1>5, <1>6, <1>7 DEF LogInv

\* The reader takes everything above the last record it has seen.
LEMMA FollowStep ==
    ASSUME LogInv, Follow
    PROVE  LogInv'
<1>1. TypeOK /\ RecordsIncrease /\ TailOK
  BY DEF LogInv
<1>2. UNCHANGED <<records, pc, snapshot, id, inflight, drawn>>
  BY DEF Follow
<1>3. PICK after : after = IF tail = <<>> THEN -1 ELSE tail[Len(tail)]
  OBVIOUS
<1>4. PICK index \in 0..Len(records) :
         /\ PartitionPoint(records, after, index)
         /\ tail' = tail \o SubSeq(records, index + 1, Len(records))
  BY <1>3 DEF Follow, Last
<1>5. /\ Ids \subseteq Nat /\ records \in Seq(Ids) /\ tail \in Seq(Ids)
      /\ Len(records) \in Nat /\ Len(tail) \in Nat
      /\ DOMAIN records = 1..Len(records) /\ DOMAIN tail = 1..Len(tail)
  BY <1>1, LogAssumption DEF TypeOK
<1>6. /\ \A i \in 1..Len(records) : records[i] \in Nat
      /\ \A i \in 1..Len(tail) : tail[i] \in Nat
  <2>1. /\ \A i \in 1..Len(records) : records[i] \in Ids
        /\ \A i \in 1..Len(tail) : tail[i] \in Ids
    BY <1>5, ElementOfSeq
  <2>2. QED
    BY <1>5, <2>1
<1>7. PICK c : c = SubSeq(records, index + 1, Len(records))
  OBVIOUS
<1>8. /\ c \in Seq(Ids) /\ Len(c) = Len(records) - index
      /\ \A i \in 1..(Len(records) - index) : c[i] = records[index + i]
  <2>1. PICK n \in Nat : n = Len(records)
    BY <1>5
  <2>2. PICK k \in 1..(n + 1) : k = index + 1
    BY <1>4, <2>1
  <2>3. PICK r \in Seq(Ids) : r = records
    BY <1>5
  <2>4. c = SubSeq(r, k, Len(r)) /\ n = Len(r)
    BY <1>7, <2>1, <2>2, <2>3
  <2>5. /\ c \in Seq(Ids) /\ Len(c) = n - k + 1
        /\ \A i \in 1..(n - k + 1) : c[i] = r[k + i - 1]
    BY <2>4
  <2>6. n - k + 1 = n - index
    BY <1>4, <2>1, <2>2
  <2>7. \A i \in 1..(n - index) : c[i] = records[index + i]
    BY <1>4, <2>1, <2>2, <2>3, <2>5, <2>6
  <2>8. QED
    BY <2>1, <2>5, <2>6, <2>7
<1>9. PICK t : t = tail \o c
  OBVIOUS
<1>10. /\ t \in Seq(Ids) /\ Len(t) = Len(tail) + Len(c)
       /\ \A i \in 1..(Len(tail) + Len(c)) :
            t[i] = IF i <= Len(tail) THEN tail[i] ELSE c[i - Len(tail)]
  BY <1>5, <1>8, <1>9, ConcatProperties, Zenon
<1>11. tail' = t /\ DOMAIN t = 1..Len(t)
  BY <1>4, <1>7, <1>9, <1>10
<1>12. \A i \in 1..Len(tail) : i \in 1..Len(t) /\ t[i] = tail[i]
  BY <1>5, <1>8, <1>10
<1>13. \A i \in 1..Len(t) : i > Len(tail) =>
         /\ (i - Len(tail)) + index \in (index + 1)..Len(records)
         /\ t[i] = records[(i - Len(tail)) + index]
  <2>1. PICK n \in Nat : n = Len(records)
    BY <1>5
  <2>2. PICK k \in Nat : k = Len(tail)
    BY <1>5
  <2>3. index \in 0..n /\ Len(t) = k + (n - index)
    BY <1>4, <1>8, <1>10, <2>1, <2>2
  <2>4. ASSUME NEW i \in 1..Len(t), i > k
        PROVE  /\ (i - k) + index \in (index + 1)..n
               /\ t[i] = records[(i - k) + index]
    <3>1. i - k \in 1..(n - index) /\ (i - k) + index \in (index + 1)..n
      BY <2>2, <2>3, <2>4
    <3>2. t[i] = c[i - k]
      BY <1>8, <1>10, <2>1, <2>2, <2>3, <2>4
    <3>3. c[i - k] = records[index + (i - k)]
      BY <1>8, <2>1, <3>1
    <3>4. index + (i - k) = (i - k) + index
      BY <2>3, <3>1
    <3>5. QED
      BY <3>1, <3>2, <3>3, <3>4
  <2>5. QED
    BY <2>1, <2>2, <2>4
<1>14. /\ \A i \in 1..index : records[i] <= after
       /\ \A i \in (index + 1)..Len(records) : after < records[i]
  BY <1>4 DEF PartitionPoint
<1>15. tail # <<>> => Len(tail) \in 1..Len(tail) /\ after = tail[Len(tail)]
  BY <1>3, <1>5
<1>16. \A i, j \in 1..Len(tail) : i < j => tail[i] < tail[j]
  BY <1>1, <1>5 DEF TailOK, StrictlyIncreasing
<1>17. \A i, j \in 1..Len(records) : i < j => records[i] < records[j]
  BY <1>1, <1>5 DEF RecordsIncrease, StrictlyIncreasing
<1>18. StrictlyIncreasing(t)
  <2>1. SUFFICES ASSUME NEW i \in 1..Len(t), NEW j \in 1..Len(t), i < j
                 PROVE  t[i] < t[j]
    BY <1>11 DEF StrictlyIncreasing
  <2>2. CASE j <= Len(tail)
    BY <1>5, <1>12, <1>16, <2>1, <2>2
  <2>3. CASE i > Len(tail)
    <3>1. /\ (i - Len(tail)) + index \in 1..Len(records)
          /\ (j - Len(tail)) + index \in 1..Len(records)
          /\ (i - Len(tail)) + index < (j - Len(tail)) + index
          /\ t[i] = records[(i - Len(tail)) + index]
          /\ t[j] = records[(j - Len(tail)) + index]
      <4>1. i > Len(tail) /\ j > Len(tail)
        BY <1>5, <2>1, <2>3
      <4>2. /\ (i - Len(tail)) + index \in (index + 1)..Len(records)
            /\ (j - Len(tail)) + index \in (index + 1)..Len(records)
            /\ t[i] = records[(i - Len(tail)) + index]
            /\ t[j] = records[(j - Len(tail)) + index]
        BY <1>13, <4>1
      <4>3. (i - Len(tail)) + index < (j - Len(tail)) + index
        BY <1>4, <1>5, <2>1
      <4>4. \A n \in (index + 1)..Len(records) : n \in 1..Len(records)
        BY <1>4, <1>5
      <4>5. QED
        BY <4>2, <4>3, <4>4
    <3>2. QED
      BY <1>17, <3>1
  <2>4. CASE i <= Len(tail) /\ j > Len(tail)
    <3>1. i \in 1..Len(tail) /\ t[i] = tail[i] /\ Len(tail) \in 1..Len(tail)
      BY <1>5, <1>12, <2>1, <2>4
    <3>2. after = tail[Len(tail)]
      BY <1>3, <3>1
    <3>3. tail[i] <= tail[Len(tail)]
      BY <1>5, <1>6, <1>16, <3>1
    <3>4. PICK k \in (index + 1)..Len(records) : t[j] = records[k]
      BY <1>13, <2>4
    <3>5. after < records[k] /\ records[k] \in Nat
      BY <1>4, <1>5, <1>6, <1>14
    <3>6. tail[i] \in Nat /\ tail[Len(tail)] \in Nat
      BY <1>6, <3>1
    <3>7. QED
      BY <3>1, <3>2, <3>3, <3>4, <3>5, <3>6
  <2>5. QED
    BY <1>5, <2>2, <2>3, <2>4
<1>19. \A i \in DOMAIN t : \E j \in DOMAIN records : t[i] = records[j]
  <2>1. SUFFICES ASSUME NEW i \in 1..Len(t)
                 PROVE  \E j \in 1..Len(records) : t[i] = records[j]
    BY <1>5, <1>11
  <2>2. CASE i <= Len(tail)
    <3>1. i \in 1..Len(tail) /\ t[i] = tail[i]
      BY <1>5, <1>12, <2>2
    <3>2. QED
      BY <1>1, <1>5, <3>1 DEF TailOK
  <2>3. CASE i > Len(tail)
    <3>1. PICK k \in (index + 1)..Len(records) : t[i] = records[k]
      BY <1>13, <2>3
    <3>2. k \in 1..Len(records)
      BY <1>4, <1>5
    <3>3. QED
      BY <3>1, <3>2
  <2>4. QED
    BY <1>5, <2>2, <2>3
<1>20. ASSUME NEW p \in Processes, NEW i \in DOMAIN records, records[i] \in drawn[p]
       PROVE  \/ \E j \in DOMAIN t : t[j] = records[i]
              \/ \E j \in DOMAIN t : t[j] \notin drawn[p] /\ records[i] < t[j]
  <2>1. CASE i > index
    <3>1. PICK j \in 1..Len(t) : j > Len(tail) /\ i = (j - Len(tail)) + index
      <4>1. (i - index) + Len(tail) \in 1..Len(t)
        BY <1>4, <1>5, <1>8, <1>10, <2>1
      <4>2. QED
        BY <1>4, <1>5, <2>1, <4>1
    <3>2. QED
      BY <1>11, <1>13, <3>1
  <2>2. CASE i <= index
    <3>1. records[i] <= after /\ records[i] \in Nat
      BY <1>4, <1>5, <1>6, <1>14, <2>2
    <3>2. tail # <<>>
      BY <1>3, <3>1
    <3>3. after = tail[Len(tail)] /\ Len(tail) \in 1..Len(tail) /\ after \in Nat
      BY <1>6, <1>15, <3>2
    <3>4. CASE records[i] = after
      BY <1>11, <1>12, <3>3, <3>4
    <3>5. CASE records[i] < after
      <4>1. \/ \E j \in DOMAIN tail : tail[j] = records[i]
            \/ \E j \in DOMAIN tail : tail[j] \notin drawn[p] /\ records[i] < tail[j]
        BY <1>1, <1>20, <3>2, <3>3, <3>5 DEF TailOK
      <4>2. QED
        BY <1>5, <1>11, <1>12, <4>1
    <3>6. QED
      BY <3>1, <3>3, <3>4, <3>5
  <2>3. QED
    BY <1>4, <1>5, <2>1, <2>2
<1>21. TailOK'
  BY <1>2, <1>11, <1>18, <1>19, <1>20 DEF TailOK
<1>22. TypeOK'
  BY <1>1, <1>2, <1>10, <1>11 DEF TypeOK
<1>23. QED
  BY <1>2, <1>21, <1>22
     DEF LogInv, RecordsIncrease, Known, WriterOK, AppendOK

----------------------------------------------------------------------------
(* The theorems *)

LEMMA LogInit ==
    ASSUME Init
    PROVE  LogInv
<1>1. <<>> \in Seq(Ids) /\ DOMAIN <<>> = {}
  OBVIOUS
<1>2. TypeOK
  BY <1>1 DEF Init, TypeOK
<1>3. RecordsIncrease /\ Known(records) /\ TailOK
  BY <1>1 DEF Init, RecordsIncrease, StrictlyIncreasing, Known, TailOK
<1>4. \A w \in Writers : WriterOK(w)
  BY <1>1 DEF Init, WriterOK, Known
<1>5. QED
  BY <1>2, <1>3, <1>4 DEF Init, LogInv

\* Every step keeps the invariant, and the records in their places.
LEMMA LogStep ==
    ASSUME LogInv, [Next]_vars
    PROVE  LogInv' /\ Embedded
<1>1. records \in Seq(Ids)
  BY DEF LogInv, TypeOK
<1>2. ASSUME NEW w \in Writers, Read(w) PROVE LogInv' /\ Embedded
  BY <1>1, <1>2, ReadStep, RecordsKept DEF Read
<1>3. ASSUME NEW w \in Writers, Prepare(w) PROVE LogInv' /\ Embedded
  BY <1>1, <1>3, PrepareStep, RecordsKept DEF Prepare
<1>4. ASSUME NEW w \in Writers, Replace(w) PROVE LogInv' /\ Embedded
  BY <1>4, ReplaceStep
<1>5. ASSUME NEW w \in Writers, Conflict(w) \/ StoreFails(w)
      PROVE  LogInv' /\ Embedded
  BY <1>1, <1>5, GiveUpStep, RecordsKept DEF Conflict, StoreFails
<1>6. ASSUME NEW w \in Writers, LoseReply(w) PROVE LogInv' /\ Embedded
  BY <1>1, <1>6, LoseReplyStep, RecordsKept DEF LoseReply
<1>7. ASSUME NEW m \in inflight, LateArrival(m) PROVE LogInv' /\ Embedded
  BY <1>7, LateStep
<1>8. CASE Follow
  BY <1>1, <1>8, FollowStep, RecordsKept DEF Follow
<1>9. CASE UNCHANGED vars
  <2>1. LogInv'
    BY <1>9 DEF vars, LogInv, TypeOK, RecordsIncrease, Known, WriterOK, AppendOK,
       TailOK
  <2>2. QED
    BY <1>1, <1>9, <2>1, RecordsKept DEF vars
<1>10. CASE Next
  BY <1>2, <1>3, <1>4, <1>5, <1>6, <1>7, <1>8, <1>10 DEF Next
<1>11. QED
  BY <1>9, <1>10

\* Ids in flight are known and ordered after their snapshots, in every state.
THEOREM LogInvariance == Spec => []LogInv
BY LogInit, LogStep, PTL DEF Spec

\* read() never finds a log corrupt, whatever the clocks of its processes.
THEOREM LogSorted == Spec => []RecordsIncrease
<1>1. LogInv => RecordsIncrease
  BY DEF LogInv
<1>2. QED
  BY <1>1, LogInvariance, PTL

\* No append, in time or late, drops or moves a record that is stored.
THEOREM LogAppendOnly == Spec => AppendOnly
<1>1. LogInv /\ [Next]_vars =>
        [\E place \in [DOMAIN records -> DOMAIN records'] :
           /\ StrictlyIncreasing(place)
           /\ \A i \in DOMAIN records : records'[place[i]] = records[i]]_vars
  BY LogStep DEF Embedded
<1>2. QED
  BY <1>1, LogInvariance, PTL DEF Spec, AppendOnly

\* A reader that follows the log misses a record only behind a greater id that
\* another process drew, and so none at all of a single process.
THEOREM ReaderComplete == Spec => []TailComplete
<1>1. ASSUME LogInv PROVE TailComplete
  <2>1. StrictlyIncreasing(tail)
    BY <1>1 DEF LogInv, TailOK
  <2>2. ASSUME NEW p \in Processes,
               NEW r \in (ToSet(records) \cap drawn[p]) \ ToSet(tail),
               tail # <<>>, r < Last(tail)
        PROVE  \E s \in ToSet(tail) \ drawn[p] : r < s
    <3>1. PICK i \in DOMAIN records : r = records[i]
      BY DEF ToSet
    <3>2. records[i] < tail[Len(tail)]
      BY <2>2, <3>1 DEF Last
    <3>3. ~\E j \in DOMAIN tail : tail[j] = records[i]
      BY <3>1 DEF ToSet
    <3>4. PICK j \in DOMAIN tail : tail[j] \notin drawn[p] /\ records[i] < tail[j]
      BY <1>1, <2>2, <3>1, <3>2, <3>3 DEF LogInv, TailOK
    <3>5. tail[j] \in ToSet(tail) \ drawn[p]
      BY <3>4 DEF ToSet
    <3>6. QED
      BY <3>1, <3>4, <3>5
  <2>3. QED
    BY <2>1, <2>2 DEF TailComplete
<1>2. QED
  BY <1>1, LogInvariance, PTL
============================================================================
