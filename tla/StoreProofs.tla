---------------------------- MODULE StoreProofs ----------------------------
(***************************************************************************)
(* The filesystem adapter for every number of clients, locations and       *)
(* revisions and with failures, kills and power losses at every step,      *)
(* provided that distinct locations are distinct files: compare-and-swap,  *)
(* intact objects, surviving writes, and between power losses the contract *)
(* of ObjectStore.                                                         *)
(*                                                                         *)
(* What a rename overwrites was checked four steps earlier. The inductive  *)
(* invariant FileInv carries the check along: whoever is between           *)
(* inspection and rename holds the lock of its location alone (LocksOK),   *)
(* and what it saw is still there (CallOK). That the version of a write is *)
(* new to the contract is FreshInv: no two writers hold the same revision, *)
(* and none was visible before.                                            *)
(*                                                                         *)
(* That distinct locations are distinct files is itself proved, for every  *)
(* set of words and values: the builders only pass a namespace and a name  *)
(* of one proper word, so a location has exactly the three words           *)
(* namespace, kind and file name, none of which the kernel drops, and each *)
(* word can be read off its depth.                                         *)
(*                                                                         *)
(* The last part is about the S3 adapter, which implements the same        *)
(* contract for every number of clients, keys and contents.                *)
(***************************************************************************)
EXTENDS Structures, FiniteSetTheorems, SequenceTheorems, TLAPS

Writing == {"inspect", "write", "sync", "rename", "syncdir"}

LocksOK ==
    /\ \A c \in Clients : pc[c] \in Locked => c \in locks[call[c].at]
    /\ \A l \in Locations : \A c \in locks[l] :
         pc[c] \in Locked /\ call[c].at = l
    /\ \A l \in Locations : \A c, d \in locks[l] :
         call[c].op \in Writes => c = d

CallOK(c) ==
    /\ pc[c] \in {"prepare", "lock"} => call[c].op \in {"get"} \cup Writes
    /\ pc[c] = "read" => call[c].op = "get"
    /\ pc[c] \in Writing => call[c].op \in Writes
    /\ call[c].op = "create" => call[c].expected = 0
    /\ pc[c] \in {"write", "sync", "rename"} =>
         /\ files[PathFor(c)].revision = call[c].expected
         /\ call[c].file.revision > acked[PathFor(c)]
    /\ pc[c] = "rename" => call[c].file.data = "synced"
    /\ pc[c] = "syncdir" => files[PathFor(c)] = call[c].file

PathOK(p) ==
    /\ files[p] \in disk[p]
    /\ \A e \in disk[p] : /\ e.data \in {"none", "synced"}
                          /\ e.revision >= acked[p]
    /\ acked[p] <= revision

FileInv ==
    /\ TypeOK
    /\ LocksOK
    /\ \A c \in Clients : CallOK(c)
    /\ \A p \in Paths : PathOK(p)
    /\ \A c \in Clients : call[c].file.revision <= revision

----------------------------------------------------------------------------

\* A call that starts holds no lock and has checked nothing.
LEMMA StartStep ==
    ASSUME OneFilePerLocation, FileInv, NEW c \in Clients, Start(c)
    PROVE  FileInv'
<1> USE FilesystemAssumption DEF FileInv, FilesystemAssumption
<1>0. PICK k \in Calls : call' = [call EXCEPT ![c] = k]
  <2>1. PICK op \in {"get"} \cup Writes, l \in Locations,
             v \in visible \cup {0} :
          call' = [call EXCEPT ![c] = [Idle(l) EXCEPT !.op = op,
                                                      !.expected = v]]
    BY DEF Start
  <2>2. v \in Nat
    <3>1. visible \subseteq Nat
      BY DEF TypeOK
    <3> QED
      BY <3>1
  <2>3. [Idle(l) EXCEPT !.op = op, !.expected = v] \in Calls
    BY <2>2 DEF Calls, Entries, Idle, NoFile, Writes
  <2> QED
    BY <2>1, <2>3
<1>1. TypeOK'
  BY <1>0 DEF TypeOK, Start, Goto, Labels, Temporary
<1>2. LocksOK'
  BY DEF LocksOK, Start, Goto, Locked
<1>3. \A d \in Clients : CallOK(d)'
  <2> TAKE d \in Clients
  <2> QED
    BY <1>1 DEF CallOK, TypeOK, Start, Goto, PathFor, Writing
<1>4. \A p \in Paths : PathOK(p)'
  BY <1>1 DEF PathOK, Start
<1>5. \A d \in Clients : (call[d].file.revision <= revision)'
  BY DEF TypeOK, Start, Idle, NoFile
<1> QED
  BY <1>1, <1>2, <1>3, <1>4, <1>5

\* Creating directories touches no object and no lock.
LEMMA PrepareStep ==
    ASSUME OneFilePerLocation, FileInv, NEW c \in Clients, Prepare(c)
    PROVE  FileInv'
<1> USE FilesystemAssumption DEF FileInv, FilesystemAssumption
<1>1. TypeOK'
  BY DEF TypeOK, Prepare, Goto, Labels, Temporary
<1>2. LocksOK'
  BY DEF LocksOK, Prepare, Goto, Locked
<1>3. \A d \in Clients : CallOK(d)'
  <2> TAKE d \in Clients
  <2> QED
    BY <1>1 DEF CallOK, Prepare, Goto, PathFor, Writing
<1>4. \A p \in Paths : PathOK(p)'
  BY <1>1 DEF PathOK, Prepare
<1>5. \A d \in Clients : (call[d].file.revision <= revision)'
  BY DEF Prepare
<1> QED
  BY <1>1, <1>2, <1>3, <1>4, <1>5

\* The lock is granted alone to a writer and beside readers to a reader.
LEMMA AcquireStep ==
    ASSUME OneFilePerLocation, FileInv, NEW c \in Clients, Acquire(c)
    PROVE  FileInv'
<1> USE FilesystemAssumption DEF FileInv, FilesystemAssumption
<1>1. TypeOK'
  BY DEF TypeOK, Acquire, Goto, Labels, Temporary
<1>2. LocksOK'
  BY DEF LocksOK, TypeOK, Acquire, Goto, Free, Locked, Writes, Calls
<1>3. \A d \in Clients : CallOK(d)'
  <2> TAKE d \in Clients
  <2> QED
    BY <1>1 DEF CallOK, Acquire, Goto, PathFor, Writing
<1>4. \A p \in Paths : PathOK(p)'
  BY <1>1 DEF PathOK, Acquire
<1>5. \A d \in Clients : (call[d].file.revision <= revision)'
  BY DEF Acquire
<1> QED
  BY <1>1, <1>2, <1>3, <1>4, <1>5

\* A call that returns any result changes nothing but its result and lock.
LEMMA ReturnStep ==
    ASSUME OneFilePerLocation, FileInv, NEW c \in Clients,
           NEW r \in {"ok", "refused", "error"}, NEW v \in Nat,
           Return(c, r, v), pc[c] # "idle",
           UNCHANGED <<files, disk, parents, revision, visible, acked>>,
           temps' \subseteq Nat, orphans' \subseteq Nat
    PROVE  FileInv'
<1> USE FilesystemAssumption DEF FileInv, FilesystemAssumption
<1>0. PICK k \in Calls :
        /\ call' = [call EXCEPT ![c] = k]
        /\ k.op = call[c].op /\ k.at = call[c].at
        /\ k.expected = call[c].expected /\ k.file = call[c].file
  <2>1. call[c] \in Calls
    BY DEF TypeOK
  <2>2. [call[c] EXCEPT !.result = r, !.seen = v] \in Calls
    BY <2>1 DEF Calls
  <2> QED
    BY <2>1, <2>2 DEF Return, Calls, TypeOK
<1>1. TypeOK'
  BY <1>0 DEF TypeOK, Return, Goto, Unlocked, Labels
<1>2. LocksOK'
  <2>1. /\ pc' = [pc EXCEPT ![c] = "done"]
        /\ \A l \in Locations : locks'[l] = locks[l] \ {c}
    BY DEF Return, Goto, Unlocked
  <2>2. \A d \in Clients : d # c => pc'[d] = pc[d] /\ call'[d] = call[d]
    BY <1>0, <2>1 DEF TypeOK
  <2>3. "done" \notin Locked
    BY DEF Locked
  <2>4. pc'[c] = "done" /\ \A l \in Locations : locks[l] \subseteq Clients
    BY <2>1 DEF TypeOK
  <2>5. \A d \in Clients : call'[d].at \in Locations
    BY <1>1 DEF TypeOK, Calls
  <2>6. \A d \in Clients : pc'[d] \in Locked => d \in locks'[call'[d].at]
    BY <2>1, <2>2, <2>3, <2>4, <2>5 DEF LocksOK
  <2>7. \A l \in Locations : \A d \in locks'[l] :
          pc'[d] \in Locked /\ call'[d].at = l
    BY <2>1, <2>2, <2>4 DEF LocksOK
  <2>8. \A l \in Locations : \A d, e \in locks'[l] :
          call'[d].op \in Writes => d = e
    BY <2>1, <2>2, <2>4 DEF LocksOK
  <2> QED
    BY <2>6, <2>7, <2>8 DEF LocksOK
<1>3. \A d \in Clients : CallOK(d)'
  BY <1>0 DEF CallOK, TypeOK, Return, Goto, PathFor, Writing
<1>4. \A p \in Paths : PathOK(p)'
  BY DEF PathOK
<1>5. \A d \in Clients : (call[d].file.revision <= revision)'
  BY <1>0 DEF TypeOK
<1> QED
  BY <1>1, <1>2, <1>3, <1>4, <1>5

\* What becomes of temporary files when a call ends.
LEMMA AbandonTyped ==
    ASSUME TypeOK, NEW c \in Clients,
           \/ Abandon(c)
           \/ temps' = temps \ {call[c].file.revision} /\ orphans' = orphans
           \/ UNCHANGED Temporary
    PROVE  temps' \subseteq Nat /\ orphans' \subseteq Nat
<1>1. temps \subseteq Nat /\ orphans \subseteq Nat
      /\ call[c].file.revision \in Nat
  BY DEF TypeOK, Calls, Entries
<1> QED
  BY <1>1 DEF Abandon, Temporary

\* A failing system call gives the lock back.
LEMMA FailStep ==
    ASSUME OneFilePerLocation, FileInv, NEW c \in Clients, Fail(c)
    PROVE  FileInv'
<1>1. temps' \subseteq Nat /\ orphans' \subseteq Nat
  BY AbandonTyped DEF Fail, FileInv
<1> QED
  BY <1>1, ReturnStep DEF Fail

\* A get changes nothing but its own result and lock.
LEMMA ReadStep ==
    ASSUME OneFilePerLocation, FileInv, NEW c \in Clients, Read(c)
    PROVE  FileInv'
<1>1. files[PathFor(c)].revision \in Nat
  BY FilesystemAssumption DEF FileInv, TypeOK, Calls, Entries, PathFor
<1>2. temps' \subseteq Nat /\ orphans' \subseteq Nat
  BY AbandonTyped DEF Read, FileInv, Temporary
<1> QED
  BY <1>1, <1>2, ReturnStep DEF Read

\* Inspection refuses, or establishes what the writer relies on until its
\* rename.
LEMMA InspectStep ==
    ASSUME OneFilePerLocation, FileInv, NEW c \in Clients, Inspect(c)
    PROVE  FileInv'
<1> USE FilesystemAssumption DEF FilesystemAssumption
<1>1. files[PathFor(c)].revision \in Nat
  BY DEF FileInv, TypeOK, Calls, Entries, PathFor
<1>4. temps' \subseteq Nat /\ orphans' \subseteq Nat
  BY AbandonTyped DEF Inspect, FileInv, Temporary
<1>2. CASE ~(Decodes(PathFor(c)) /\ Matches(c))
  BY <1>1, <1>2, <1>4, ReturnStep DEF Inspect
<1>3. CASE Decodes(PathFor(c)) /\ Matches(c)
  <2> USE DEF FileInv
  <2>1. PICK k \in Calls :
          /\ call' = [call EXCEPT ![c] = k]
          /\ k.op = call[c].op /\ k.at = call[c].at
          /\ k.expected = call[c].expected
          /\ k.file.revision = revision + 1
    <3>1. call[c] \in Calls /\ revision \in Nat
      BY DEF TypeOK
    <3>2. [call[c] EXCEPT !.file = [revision |-> revision + 1,
                                    data |-> "none"]] \in Calls
      BY <3>1 DEF Calls, Entries
    <3> QED
      BY <1>3, <3>1, <3>2 DEF Inspect, Calls, TypeOK
  <2>2. /\ pc[c] = "inspect" /\ pc' = [pc EXCEPT ![c] = "write"]
        /\ locks' = locks /\ revision' = revision + 1
        /\ UNCHANGED <<files, disk, parents, visible, acked>>
    BY <1>3 DEF Inspect, Goto
  <2>3. TypeOK'
    BY <1>4, <2>1, <2>2 DEF TypeOK, Labels
  <2>4. LocksOK'
    BY <2>1, <2>2 DEF LocksOK, TypeOK, Locked, Writes
  <2>5. ASSUME NEW d \in Clients PROVE CallOK(d)'
    <3>1. acked[PathFor(c)] < revision + 1
      BY <1>1 DEF PathOK, TypeOK, Calls, PathFor
    <3>2. files[PathFor(c)].revision = call[c].expected
      BY <1>3, <2>2 DEF Matches, CallOK, Writing, Writes
    <3>3. CASE d = c
      BY <2>1, <2>2, <3>1, <3>2, <3>3 DEF CallOK, TypeOK, PathFor, Writing
    <3>4. CASE d # c
      BY <2>1, <2>2, <3>4 DEF CallOK, PathFor
    <3> QED
      BY <3>3, <3>4
  <2>6. \A p \in Paths : PathOK(p)'
    BY <2>2 DEF PathOK, TypeOK
  <2>7. \A d \in Clients : (call[d].file.revision <= revision)'
    BY <2>1, <2>2 DEF TypeOK, Calls, Entries
  <2> QED
    BY <2>3, <2>4, <2>5, <2>6, <2>7
<1> QED
  BY <1>2, <1>3

\* Writing the temporary file touches no object.
LEMMA WriteStep ==
    ASSUME OneFilePerLocation, FileInv, NEW c \in Clients, Write(c)
    PROVE  FileInv'
<1> USE FilesystemAssumption DEF FileInv, FilesystemAssumption
<1>0. PICK k \in Calls : call' = [call EXCEPT ![c] = k]
  <2>1. call[c] \in Calls
    BY DEF TypeOK
  <2>2. [call[c] EXCEPT !.file.data = "cached"] \in Calls
    BY <2>1 DEF Calls, Entries
  <2> QED
    BY <2>2 DEF Write
<1>1. TypeOK'
  <2>1. call[c].file.revision \in Nat
    BY DEF TypeOK, Calls, Entries
  <2> QED
    BY <1>0, <2>1 DEF TypeOK, Write, Goto, Labels
<1>2. LocksOK'
  BY DEF LocksOK, Write, Goto, Locked
<1>3. \A d \in Clients : CallOK(d)'
  <2> TAKE d \in Clients
  <2> QED
    BY <1>1 DEF CallOK, Write, Goto, PathFor, Writing
<1>4. \A p \in Paths : PathOK(p)'
  BY <1>1 DEF PathOK, Write
<1>5. \A d \in Clients : (call[d].file.revision <= revision)'
  BY DEF Write
<1> QED
  BY <1>1, <1>2, <1>3, <1>4, <1>5

\* Syncing the temporary file touches no object.
LEMMA SyncStep ==
    ASSUME OneFilePerLocation, FileInv, NEW c \in Clients, Sync(c)
    PROVE  FileInv'
<1> USE FilesystemAssumption DEF FileInv, FilesystemAssumption
<1>0. PICK k \in Calls : call' = [call EXCEPT ![c] = k]
  <2>1. call[c] \in Calls
    BY DEF TypeOK
  <2>2. [call[c] EXCEPT !.file.data = "synced"] \in Calls
    BY <2>1 DEF Calls, Entries
  <2> QED
    BY <2>2 DEF Sync
<1>1. TypeOK'
  BY <1>0 DEF TypeOK, Sync, Goto, Labels, Temporary
<1>2. LocksOK'
  BY DEF LocksOK, Sync, Goto, Locked
<1>3. \A d \in Clients : CallOK(d)'
  <2> TAKE d \in Clients
  <2> QED
    BY <1>1 DEF CallOK, TypeOK, Sync, Goto, PathFor, Writing
<1>4. \A p \in Paths : PathOK(p)'
  BY <1>1 DEF PathOK, Sync
<1>5. \A d \in Clients : (call[d].file.revision <= revision)'
  BY DEF Sync
<1> QED
  BY <1>1, <1>2, <1>3, <1>4, <1>5

\* A rename disturbs no other writer: none holds this location's lock.
LEMMA RenameStep ==
    ASSUME OneFilePerLocation, FileInv, NEW c \in Clients, Rename(c)
    PROVE  FileInv'
<1> USE FilesystemAssumption DEF FileInv, FilesystemAssumption
<1>0. PathFor(c) \in Paths /\ call[c].file \in Entries
      /\ call[c].file.revision \in Nat
  BY DEF TypeOK, Calls, Entries, PathFor
<1>1. TypeOK'
  BY <1>0 DEF TypeOK, Rename, Goto, Labels
<1>2. LocksOK'
  BY DEF LocksOK, Rename, Goto, Locked
<1>3. \A d \in Clients : CallOK(d)'
  <2> TAKE d \in Clients
  <2> QED
    BY <1>1 DEF CallOK, LocksOK, TypeOK, Rename, Goto, PathFor,
       OneFilePerLocation, Locked, Writing, Calls
<1>4. \A p \in Paths : PathOK(p)'
  BY <1>1 DEF PathOK, CallOK, TypeOK, Rename, Entries
<1>5. \A d \in Clients : (call[d].file.revision <= revision)'
  BY DEF Rename
<1> QED
  BY <1>1, <1>2, <1>3, <1>4, <1>5

\* The directory sync makes the writer's own object the only survivor.
LEMMA SyncDirStep ==
    ASSUME OneFilePerLocation, FileInv, NEW c \in Clients, SyncDir(c)
    PROVE  FileInv'
<1> USE FilesystemAssumption DEF FileInv, FilesystemAssumption
<1>0. PathFor(c) \in Paths /\ call[c].file.revision \in Nat
  BY DEF TypeOK, Calls, Entries, PathFor
<1>6. PICK k \in Calls : call' = [call EXCEPT ![c] = k]
  <2>1. call[c] \in Calls
    BY DEF TypeOK
  <2>2. [call[c] EXCEPT !.result = "ok",
                        !.seen = call[c].file.revision] \in Calls
    BY <1>0, <2>1 DEF Calls
  <2> QED
    BY <2>2 DEF SyncDir, Return
<1>1. TypeOK'
  <2>1. /\ disk' = [disk EXCEPT ![PathFor(c)] = {files[PathFor(c)]}]
        /\ acked' = [acked EXCEPT ![PathFor(c)] = call[c].file.revision]
        /\ pc' = [pc EXCEPT ![c] = "done"]
        /\ locks' = [l \in Locations |-> locks[l] \ {c}]
        /\ UNCHANGED <<files, parents, temps, orphans, revision, visible>>
    BY DEF SyncDir, Return, Goto, Unlocked, Temporary
  <2>2. files[PathFor(c)] \in Entries
    BY <1>0 DEF TypeOK
  <2>3. /\ disk' \in [Paths -> SUBSET Entries]
        /\ acked' \in [Paths -> Nat]
    BY <1>0, <2>1, <2>2 DEF TypeOK
  <2>4. /\ pc' \in [Clients -> Labels]
        /\ locks' \in [Locations -> SUBSET Clients]
        /\ call' \in [Clients -> Calls]
    BY <1>6, <2>1 DEF TypeOK, Labels
  <2> QED
    BY <2>1, <2>3, <2>4 DEF TypeOK
<1>2. LocksOK'
  BY DEF LocksOK, TypeOK, SyncDir, Return, Goto, Unlocked, Locked, Calls
<1>3. \A d \in Clients : CallOK(d)'
  <2> TAKE d \in Clients
  <2> QED
    BY <1>1 DEF CallOK, LocksOK, TypeOK, SyncDir, Return, Goto, PathFor,
       OneFilePerLocation, Locked, Writing, Calls
<1>4. \A p \in Paths : PathOK(p)'
  BY <1>1 DEF PathOK, CallOK, TypeOK, SyncDir
<1>5. \A d \in Clients : (call[d].file.revision <= revision)'
  BY DEF TypeOK, SyncDir, Return
<1> QED
  BY <1>1, <1>2, <1>3, <1>4, <1>5

\* A caller that leaves, or is killed, gives the lock back.
LEMMA QuitStep ==
    ASSUME OneFilePerLocation, FileInv, NEW c \in Clients, Quit(c),
           temps' \subseteq Nat, orphans' \subseteq Nat
    PROVE  FileInv'
<1> USE FilesystemAssumption DEF FileInv, FilesystemAssumption
<1>1. TypeOK'
  BY DEF TypeOK, Quit, Goto, Unlocked, Entries, Calls, Labels, NoFile, Idle
<1>2. LocksOK'
  BY DEF LocksOK, TypeOK, Quit, Goto, Unlocked, Locked, Calls
<1>3. \A d \in Clients : CallOK(d)'
  <2> TAKE d \in Clients
  <2> QED
    BY <1>1 DEF CallOK, TypeOK, Quit, Goto, PathFor, Writing, Idle
<1>4. \A p \in Paths : PathOK(p)'
  BY <1>1 DEF PathOK, Quit
<1>5. \A d \in Clients : (call[d].file.revision <= revision)'
  BY DEF TypeOK, Quit, Idle, NoFile
<1> QED
  BY <1>1, <1>2, <1>3, <1>4, <1>5

\* Whether the process lives on or not.
LEMMA LeaveStep ==
    ASSUME OneFilePerLocation, FileInv, NEW c \in Clients,
           Leave(c) \/ Kill(c)
    PROVE  FileInv'
<1>1. temps' \subseteq Nat /\ orphans' \subseteq Nat
  BY AbandonTyped DEF Leave, Kill, FileInv
<1> QED
  BY <1>1, QuitStep DEF Leave, Kill

\* Write-back narrows what a power loss may leave.
LEMMA WriteBackStep ==
    ASSUME OneFilePerLocation, FileInv, NEW q \in Paths, WriteBack(q)
    PROVE  FileInv'
<1> USE FilesystemAssumption DEF FileInv, FilesystemAssumption
<1>1. TypeOK'
  BY DEF TypeOK, WriteBack, Entries, Temporary
<1>2. LocksOK'
  BY DEF LocksOK, WriteBack
<1>3. \A d \in Clients : CallOK(d)'
  <2> TAKE d \in Clients
  <2> QED
    BY <1>1 DEF CallOK, WriteBack, PathFor
<1>4. \A p \in Paths : PathOK(p)'
  BY <1>1 DEF PathOK, TypeOK, WriteBack
<1>5. \A d \in Clients : (call[d].file.revision <= revision)'
  BY DEF WriteBack
<1> QED
  BY <1>1, <1>2, <1>3, <1>4, <1>5

\* A power loss leaves entries that were on the disk and no lock.
LEMMA PowerLossStep ==
    ASSUME OneFilePerLocation, FileInv, PowerLoss
    PROVE  FileInv'
<1> USE FilesystemAssumption DEF FileInv, FilesystemAssumption
<1>1. /\ locks' = [l \in Locations |-> {}]
      /\ pc' = [c \in Clients |-> "idle"]
      /\ call' = [c \in Clients |-> Idle(call[c].at)]
      /\ disk' = [p \in Paths |-> {files'[p]}]
      /\ temps' \in SUBSET temps /\ orphans' = temps'
      /\ UNCHANGED <<revision, visible>>
  BY DEF PowerLoss
<1>2. PICK kept \in [Paths -> UNION {disk[p] : p \in Paths}],
           gone \in SUBSET {p \in Paths : parents[p] = "created"} :
        /\ \A p \in Paths : kept[p] \in disk[p]
        /\ files' = [p \in Paths |-> IF p \in gone THEN NoFile
                                     ELSE AfterPowerLoss(kept[p])]
        /\ parents' = [p \in Paths |-> IF p \in gone THEN "missing"
                                       ELSE parents[p]]
        /\ acked' = [p \in Paths |-> IF p \in gone THEN 0 ELSE acked[p]]
  BY DEF PowerLoss
<1>3. ASSUME NEW p \in Paths
      PROVE  /\ files'[p] \in Entries
             /\ files'[p].data \in {"none", "synced"}
             /\ files'[p].revision >= acked'[p]
             /\ acked'[p] \in Nat /\ acked'[p] <= revision
  <2>1. /\ kept[p] \in Entries /\ kept[p].data \in {"none", "synced"}
        /\ kept[p].revision >= acked[p]
        /\ acked[p] \in Nat /\ acked[p] <= revision /\ revision \in Nat
    BY <1>2 DEF PathOK, TypeOK
  <2>2. AfterPowerLoss(kept[p]) = kept[p]
    BY <2>1 DEF AfterPowerLoss
  <2>3. CASE p \in gone
    BY <1>2, <2>1, <2>3 DEF NoFile, Entries
  <2>4. CASE p \notin gone
    BY <1>2, <2>1, <2>2, <2>4
  <2> QED
    BY <2>3, <2>4
<1>4. ASSUME NEW c \in Clients
      PROVE  Idle(call[c].at) \in Calls
  <2>1. call[c].at \in Locations
    BY DEF TypeOK, Calls
  <2> QED
    BY <2>1 DEF Idle, NoFile, Calls, Entries
<1>5. TypeOK'
  <2>1. /\ files' \in [Paths -> Entries]
        /\ disk' \in [Paths -> SUBSET Entries]
        /\ acked' \in [Paths -> Nat]
    BY <1>1, <1>2, <1>3
  <2>2. parents' \in [Paths -> {"missing", "created", "durable"}]
    <3>1. \A p \in Paths : parents[p] \in {"missing", "created", "durable"}
      BY DEF TypeOK
    <3> QED
      BY <1>2, <3>1
  <2>3. /\ locks' \in [Locations -> SUBSET Clients]
        /\ pc' \in [Clients -> Labels]
        /\ call' \in [Clients -> Calls]
    BY <1>1, <1>4 DEF Labels
  <2> QED
    BY <1>1, <2>1, <2>2, <2>3 DEF TypeOK
<1>6. LocksOK'
  BY <1>1 DEF LocksOK, Locked
<1>7. \A c \in Clients : CallOK(c)'
  BY <1>1 DEF CallOK, Writing, Idle
<1>8. \A p \in Paths : PathOK(p)'
  BY <1>1, <1>3 DEF PathOK
<1>9. \A c \in Clients : (call[c].file.revision <= revision)'
  BY <1>1 DEF TypeOK, Idle, NoFile
<1> QED
  BY <1>5, <1>6, <1>7, <1>8, <1>9

\* The freshly built store satisfies the invariant.
LEMMA FileInit == Init => FileInv
<1> USE FilesystemAssumption DEF FilesystemAssumption
<1> QED
  BY DEF Init, FileInv, TypeOK, LocksOK, CallOK, PathOK, Idle, NoFile, Calls,
     Entries, Labels, Locked, Writing

\* Every step, a power loss included, keeps the invariant.
LEMMA FileNext ==
    ASSUME OneFilePerLocation, FileInv, [Next]_vars
    PROVE  FileInv'
<1>1. CASE UNCHANGED vars
  BY <1>1 DEF vars, FileInv, TypeOK, LocksOK, CallOK, PathOK, PathFor
<1>2. CASE PowerLoss
  BY <1>2, PowerLossStep
<1>3. ASSUME NEW p \in Paths, WriteBack(p) PROVE FileInv'
  BY <1>3, WriteBackStep
<1>4. ASSUME NEW c \in Clients, Step(c) PROVE FileInv'
  <2>1. CASE Start(c)
    BY <2>1, StartStep
  <2>2. CASE Prepare(c)
    BY <2>2, PrepareStep
  <2>3. CASE Acquire(c)
    BY <2>3, AcquireStep
  <2>4. CASE Read(c)
    BY <2>4, ReadStep
  <2>5. CASE Inspect(c)
    BY <2>5, InspectStep
  <2>6. CASE Write(c)
    BY <2>6, WriteStep
  <2>7. CASE Sync(c)
    BY <2>7, SyncStep
  <2>8. CASE Rename(c)
    BY <2>8, RenameStep
  <2>9. CASE SyncDir(c)
    BY <2>9, SyncDirStep
  <2>10. CASE Fail(c)
    BY <2>10, FailStep
  <2>11. CASE Leave(c) \/ Kill(c)
    BY <2>11, LeaveStep
  <2> QED
    BY <1>4, <2>1, <2>2, <2>3, <2>4, <2>5, <2>6, <2>7, <2>8, <2>9, <2>10,
       <2>11 DEF Step, Progress
<1> QED
  BY <1>1, <1>2, <1>3, <1>4 DEF Next

\* The inductive invariant holds in every reachable state of the adapter.
THEOREM FilesInvariance ==
    ASSUME OneFilePerLocation
    PROVE  Spec => []FileInv
<1>1. FileInv /\ [Next]_vars => FileInv'
  BY FileNext
<1> QED
  BY <1>1, FileInit, PTL DEF Spec

\* Type correctness of the filesystem adapter.
THEOREM FilesTyped ==
    ASSUME OneFilePerLocation
    PROVE  Spec => []TypeOK
<1>1. FileInv => TypeOK
  BY DEF FileInv
<1> QED
  BY <1>1, FilesInvariance, PTL

\* No kill, failure or power loss leaves an object that decode rejects.
THEOREM ObjectsIntact ==
    ASSUME OneFilePerLocation
    PROVE  Spec => []NoTornObject
<1>1. FileInv => NoTornObject
  BY DEF FileInv, PathOK, NoTornObject, TypeOK
<1> QED
  BY <1>1, FilesInvariance, PTL

\* What the disk may hold for a path is the last write of it that returned Ok
\* or a later one, as long as the path's directory is not lost: acked forgets a
\* write whose directory a power loss took away, and nothing else.
THEOREM AckedWritesSurvive ==
    ASSUME OneFilePerLocation
    PROVE  Spec => []AckedSurvives
<1>1. FileInv => AckedSurvives
  BY DEF FileInv, PathOK, AckedSurvives
<1> QED
  BY <1>1, FilesInvariance, PTL

\* The condition in AckedWritesSurvive is no wider than that: the only step
\* after which an acknowledged write no longer counts is a power loss that takes
\* a directory which create_dir_all made and nothing has written back since.
THEOREM ForgottenWithDirectoryOnly ==
    ASSUME OneFilePerLocation
    PROVE  Spec => [][\A p \in Paths :
                        acked'[p] < acked[p]
                          => /\ PowerLoss /\ parents[p] = "created"
                             /\ files'[p] = NoFile]_vars
<1> DEFINE Forgets ==
      \A p \in Paths : acked'[p] < acked[p]
                         => /\ PowerLoss /\ parents[p] = "created"
                            /\ files'[p] = NoFile
<1>1. ASSUME FileInv, Next
      PROVE  Forgets
  <2>1. acked \in [Paths -> Nat]
    BY <1>1 DEF FileInv, TypeOK
  <2>2. CASE acked' = acked
    BY <2>1, <2>2
  <2>3. CASE PowerLoss
    <3>1. PICK gone \in SUBSET {p \in Paths : parents[p] = "created"} :
            /\ \A p \in gone : files'[p] = NoFile
            /\ acked' = [p \in Paths |-> IF p \in gone THEN 0 ELSE acked[p]]
      BY <2>3 DEF PowerLoss
    <3>2. \A p \in Paths : p \notin gone => acked'[p] = acked[p]
      BY <3>1
    <3> QED
      BY <2>1, <2>3, <3>1, <3>2
  <2>4. ASSUME NEW c \in Clients, SyncDir(c)
        PROVE  Forgets
    <3>1. PathFor(c) \in Paths /\ call[c].file.revision \in Nat
      BY <1>1, FilesystemAssumption
         DEF FileInv, TypeOK, Calls, Entries, PathFor, FilesystemAssumption
    <3>2. call[c].file.revision >= acked[PathFor(c)]
      BY <1>1, <2>4, <3>1 DEF FileInv, CallOK, PathOK, SyncDir
    <3> QED
      BY <2>1, <2>4, <3>1, <3>2 DEF SyncDir
  <2>5. ASSUME NEW c \in Clients, Step(c), ~SyncDir(c)
        PROVE  acked' = acked
    <3>1. CASE Start(c) \/ Prepare(c) \/ Acquire(c)
      BY <3>1 DEF Start, Prepare, Acquire
    <3>2. CASE Read(c) \/ Inspect(c) \/ Write(c)
      BY <3>2 DEF Read, Inspect, Write
    <3>3. CASE Sync(c) \/ Rename(c) \/ Fail(c)
      BY <3>3 DEF Sync, Rename, Fail
    <3>4. CASE Leave(c) \/ Kill(c)
      BY <3>4 DEF Leave, Kill, Quit
    <3> QED
      BY <2>5, <3>1, <3>2, <3>3, <3>4 DEF Step, Progress
  <2>6. ASSUME NEW p \in Paths, WriteBack(p)
        PROVE  acked' = acked
    BY <2>6 DEF WriteBack
  <2> QED
    BY <1>1, <2>2, <2>3, <2>4, <2>5, <2>6 DEF Next
<1> QED
  BY <1>1, FilesInvariance, PTL DEF Spec

\* A rename overwrites exactly what its call inspected under the lock.
THEOREM RenameIsCompareAndSwap ==
    ASSUME OneFilePerLocation
    PROVE  Spec => CompareAndSwap
<1>1. FileInv => [\A c \in Clients :
                    pc[c] = "rename" /\ pc'[c] = "syncdir" =>
                      files[PathFor(c)].revision = call[c].expected]_vars
  BY DEF FileInv, CallOK
<1> QED
  BY <1>1, FilesInvariance, PTL DEF Spec, CompareAndSwap

----------------------------------------------------------------------------
(* Temporary files: no lock and no location matters here. *)

Renaming(c) == pc[c] \in {"sync", "rename"}

\* What one client may do to temporary files without leaving any unaccounted:
\* keep its own until it is renamed or removed, or abandon it.
LEMMA OwnedFrame ==
    ASSUME TypeOK, TemporariesOwned, NEW c \in Clients,
           NEW label, pc' = [pc EXCEPT ![c] = label],
           NEW k, call' = [call EXCEPT ![c] = k],
           orphans \subseteq orphans',
           \A t \in temps' :
             \/ t \in orphans'
             \/ t \in temps /\ (Renaming(c) => t # call[c].file.revision)
             \/ Renaming(c)' /\ t = k.file.revision
    PROVE  TemporariesOwned'
<1>1. /\ pc'[c] = label /\ call'[c] = k
      /\ \A d \in Clients : d # c => pc'[d] = pc[d] /\ call'[d] = call[d]
  BY DEF TypeOK
<1> QED
  BY <1>1 DEF TemporariesOwned, Renaming

\* A call that returns has no temporary file of its own any more.
LEMMA OwnedReturn ==
    ASSUME TypeOK, TemporariesOwned, NEW c \in Clients, NEW r, NEW v,
           Return(c, r, v), ~Renaming(c), UNCHANGED <<temps, orphans>>
    PROVE  TemporariesOwned'
<1>1. /\ pc' = [pc EXCEPT ![c] = "done"]
      /\ call' = [call EXCEPT ![c] = [call[c] EXCEPT !.result = r,
                                                    !.seen = v]]
  BY DEF Return, Goto, TypeOK
<1> QED
  BY <1>1, OwnedFrame DEF Renaming

\* Every step keeps the temporary files accounted for.
LEMMA OwnedNext ==
    ASSUME TypeOK, TemporariesOwned, [Next]_vars
    PROVE  TemporariesOwned'
<1>1. CASE UNCHANGED vars
  BY <1>1 DEF vars, TemporariesOwned
<1>2. CASE PowerLoss
  BY <1>2 DEF PowerLoss, TemporariesOwned
<1>3. ASSUME NEW p \in Paths, WriteBack(p) PROVE TemporariesOwned'
  BY <1>3 DEF WriteBack, Temporary, TemporariesOwned
<1>4. ASSUME NEW c \in Clients, Step(c) PROVE TemporariesOwned'
  <2>1. CASE Start(c)
    <3>1. PICK k : call' = [call EXCEPT ![c] = k]
      BY <2>1 DEF Start
    <3> QED
      BY <2>1, <3>1, OwnedFrame DEF Start, Goto, Temporary, Renaming
  <2>2. CASE Prepare(c) \/ Acquire(c)
    <3>1. PICK label : pc' = [pc EXCEPT ![c] = label]
      BY <2>2 DEF Prepare, Acquire, Goto
    <3>2. call' = [call EXCEPT ![c] = call[c]]
      BY <2>2 DEF Prepare, Acquire, TypeOK
    <3>3. UNCHANGED <<temps, orphans>> /\ ~Renaming(c)
      BY <2>2 DEF Prepare, Acquire, Temporary, Renaming
    <3> QED
      BY <3>1, <3>2, <3>3, OwnedFrame DEF Renaming
  <2>3. CASE Read(c)
    <3>1. ~Renaming(c) /\ UNCHANGED <<temps, orphans>>
      BY <2>3 DEF Read, Renaming, Temporary
    <3> QED
      BY <2>3, <3>1, OwnedReturn DEF Read
  <2>4. CASE Inspect(c)
    <3>1. ~Renaming(c) /\ UNCHANGED <<temps, orphans>>
      BY <2>4 DEF Inspect, Renaming, Temporary
    <3>2. CASE Decodes(PathFor(c)) /\ Matches(c)
      <4>1. /\ pc' = [pc EXCEPT ![c] = "write"]
            /\ call' = [call EXCEPT ![c] =
                 [call[c] EXCEPT !.file = [revision |-> revision + 1,
                                           data |-> "none"]]]
        BY <2>4, <3>2 DEF Inspect, Goto, TypeOK
      <4> QED
        BY <3>1, <4>1, OwnedFrame DEF Renaming
    <3> QED
      BY <2>4, <3>1, <3>2, OwnedReturn DEF Inspect
  <2>5. CASE Write(c)
    <3> DEFINE k == [call[c] EXCEPT !.file.data = "cached"]
    <3>1. call[c] \in Calls /\ k.file.revision = call[c].file.revision
      BY DEF TypeOK, Calls, Entries
    <3>2. /\ pc' = [pc EXCEPT ![c] = "sync"]
          /\ call' = [call EXCEPT ![c] = k]
          /\ orphans' = orphans /\ ~Renaming(c) /\ Renaming(c)'
          /\ temps' = temps \cup {k.file.revision}
      BY <2>5, <3>1 DEF Write, Goto, TypeOK, Renaming
    <3> QED
      BY <3>2, OwnedFrame
  <2>6. CASE Sync(c)
    <3> DEFINE k == [call[c] EXCEPT !.file.data = "synced"]
    <3>1. call[c] \in Calls /\ k.file.revision = call[c].file.revision
      BY DEF TypeOK, Calls, Entries
    <3>2. /\ pc' = [pc EXCEPT ![c] = "rename"]
          /\ call' = [call EXCEPT ![c] = k]
          /\ UNCHANGED <<temps, orphans>> /\ Renaming(c)'
      BY <2>6 DEF Sync, Goto, TypeOK, Renaming, Temporary
    <3> QED
      BY <3>1, <3>2, OwnedFrame
  <2>7. CASE Rename(c)
    <3>1. /\ pc' = [pc EXCEPT ![c] = "syncdir"]
          /\ call' = [call EXCEPT ![c] = call[c]]
          /\ orphans' = orphans
          /\ temps' = temps \ {call[c].file.revision}
      BY <2>7 DEF Rename, Goto, TypeOK
    <3> QED
      BY <3>1, OwnedFrame
  <2>8. CASE SyncDir(c)
    <3>1. ~Renaming(c) /\ UNCHANGED <<temps, orphans>>
      BY <2>8 DEF SyncDir, Renaming, Temporary
    <3> QED
      BY <2>8, <3>1, OwnedReturn DEF SyncDir
  <2>9. CASE Fail(c)
    <3>1. /\ pc' = [pc EXCEPT ![c] = "done"]
          /\ call' = [call EXCEPT ![c] = [call[c] EXCEPT !.result = "error",
                                                        !.seen = 0]]
      BY <2>9 DEF Fail, Return, Goto, TypeOK
    <3>2. CASE Abandon(c)
      BY <3>1, <3>2, OwnedFrame DEF Abandon
    <3>3. CASE temps' = temps \ {call[c].file.revision} /\ orphans' = orphans
      BY <3>1, <3>3, OwnedFrame
    <3> QED
      BY <2>9, <3>2, <3>3 DEF Fail
  <2>10. CASE Leave(c) \/ Kill(c)
    <3>1. /\ pc' = [pc EXCEPT ![c] = "idle"]
          /\ call' = [call EXCEPT ![c] = Idle(call[c].at)]
      BY <2>10 DEF Leave, Kill, Quit, Goto
    <3>2. CASE Abandon(c)
      BY <3>1, <3>2, OwnedFrame DEF Abandon
    <3>3. CASE ~Renaming(c) /\ UNCHANGED <<temps, orphans>>
      BY <3>1, <3>3, OwnedFrame
    <3> QED
      BY <2>10, <3>2, <3>3 DEF Leave, Kill, Renaming, Temporary
  <2> QED
    BY <1>4, <2>1, <2>2, <2>3, <2>4, <2>5, <2>6, <2>7, <2>8, <2>9, <2>10
       DEF Step, Progress
<1> QED
  BY <1>1, <1>2, <1>3, <1>4 DEF Next

\* Only kills, power losses and failing removals leave temporary files.
THEOREM NoStrayTemporaries ==
    ASSUME OneFilePerLocation
    PROVE  Spec => []TemporariesOwned
<1>1. Init => TemporariesOwned
  BY DEF Init, TemporariesOwned
<1>2. TypeOK /\ TemporariesOwned /\ [Next]_vars => TemporariesOwned'
  BY OwnedNext
<1> QED
  BY <1>1, <1>2, FilesTyped, PTL DEF Spec

----------------------------------------------------------------------------
(* Revisions: no write draws one that another write holds or that was ever *)
(* visible, and the bound on them is never passed.                         *)

\* c has drawn a revision and has not yet renamed it into place.
Holding(c) == pc[c] \in {"write", "sync", "rename"}

RevisionOK(c) ==
    /\ call[c].op = "replace" => call[c].expected # 0
    /\ Holding(c) => /\ call[c].file.revision \in 1..revision
                     /\ call[c].file.revision \notin visible

HeldDiffer ==
    \A c, d \in Clients :
        Holding(c) /\ Holding(d) /\ c # d
          => call[c].file.revision # call[d].file.revision

WithinBudget == revision + Cardinality(Budget) <= MaxRevision

FreshInv ==
    /\ WithinBudget
    /\ visible \subseteq 1..revision
    /\ \A c \in Clients : RevisionOK(c)
    /\ HeldDiffer

\* A smaller budget stays within the bound.
LEMMA BudgetShrinks ==
    ASSUME IsFiniteSet(Clients), TypeOK, WithinBudget,
           Budget' \subseteq Budget, revision' = revision
    PROVE  WithinBudget'
<1>1. IsFiniteSet(Budget)
  BY FS_Subset DEF Budget
<1>2. IsFiniteSet(Budget') /\ Cardinality(Budget') <= Cardinality(Budget)
  BY <1>1, FS_Subset
<1>3. /\ Cardinality(Budget) \in Nat /\ Cardinality(Budget') \in Nat
      /\ revision \in Nat /\ MaxRevision \in Nat
  BY <1>1, <1>2, FS_CardinalityType, FilesystemAssumption
     DEF TypeOK, FilesystemAssumption
<1> QED
  BY <1>2, <1>3 DEF WithinBudget

\* A step of one client that draws and publishes no revision.
LEMMA FreshFrame ==
    ASSUME IsFiniteSet(Clients), TypeOK, FreshInv, NEW c \in Clients,
           NEW label, pc' = [pc EXCEPT ![c] = label],
           NEW k, call' = [call EXCEPT ![c] = k],
           UNCHANGED <<revision, visible>>,
           k.op = "replace" => k.expected # 0,
           label \in {"write", "sync", "rename"} =>
             Holding(c) /\ k.file.revision = call[c].file.revision,
           k.op \in Writes /\ label \in {"prepare", "lock", "inspect"}
             => c \in Budget
    PROVE  FreshInv'
<1>1. /\ pc'[c] = label /\ call'[c] = k
      /\ \A d \in Clients : d # c => pc'[d] = pc[d] /\ call'[d] = call[d]
  BY DEF TypeOK
<1>2. Budget' \subseteq Budget
  BY <1>1 DEF Budget
<1>3. WithinBudget'
  BY <1>2, BudgetShrinks DEF FreshInv
<1>4. /\ Holding(c)' => Holding(c) /\ call'[c].file.revision = call[c].file.revision
      /\ \A d \in Clients : d # c => (Holding(d)' <=> Holding(d))
  BY <1>1 DEF Holding
<1>5. \A d \in Clients : RevisionOK(d)'
  BY <1>1, <1>4 DEF FreshInv, RevisionOK
<1>6. HeldDiffer'
  BY <1>1, <1>4 DEF FreshInv, HeldDiffer
<1> QED
  BY <1>3, <1>5, <1>6 DEF FreshInv

\* A call that starts takes its revision from the budget.
LEMMA FreshStart ==
    ASSUME IsFiniteSet(Clients), TypeOK, FreshInv, NEW c \in Clients, Start(c)
    PROVE  FreshInv'
<1>1. PICK op \in {"get"} \cup Writes, l \in Locations, v \in visible \cup {0} :
        /\ op = "replace" <=> v # 0
        /\ op \in Writes => revision + Cardinality(Budget) < MaxRevision
        /\ call' = [call EXCEPT ![c] = [Idle(l) EXCEPT !.op = op,
                                                       !.expected = v]]
  BY DEF Start
<1>2. PICK k : k = [Idle(l) EXCEPT !.op = op, !.expected = v]
  OBVIOUS
<1>3. k.op = op /\ k.expected = v /\ call' = [call EXCEPT ![c] = k]
  BY <1>1, <1>2 DEF Idle
<1>4. /\ pc' = [pc EXCEPT ![c] = "prepare"] /\ pc[c] = "idle"
      /\ UNCHANGED <<revision, visible>>
  BY DEF Start, Goto
<1>5. CASE op = "get"
  <2>1. /\ ~(k.op \in Writes) /\ k.op # "replace"
        /\ ~("prepare" \in {"write", "sync", "rename"})
    BY <1>3, <1>5 DEF Writes
  <2> QED
    BY <1>3, <1>4, <2>1, FreshFrame
<1>6. CASE op \in Writes
  <2>1. /\ pc'[c] = "prepare" /\ call'[c] = k
        /\ \A d \in Clients : d # c => pc'[d] = pc[d] /\ call'[d] = call[d]
    BY <1>3, <1>4 DEF TypeOK
  <2>2. Budget' = Budget \cup {c} /\ c \notin Budget
    BY <1>3, <1>4, <1>6, <2>1 DEF Budget
  <2>3. IsFiniteSet(Budget)
    BY FS_Subset DEF Budget
  <2>4. Cardinality(Budget') = Cardinality(Budget) + 1
    BY <2>2, <2>3, FS_AddElement
  <2>5. /\ Cardinality(Budget) \in Nat /\ revision \in Nat /\ MaxRevision \in Nat
    BY <2>3, FS_CardinalityType, FilesystemAssumption
       DEF TypeOK, FilesystemAssumption
  <2>6. WithinBudget'
    BY <1>1, <1>4, <1>6, <2>4, <2>5 DEF WithinBudget
  <2>7. /\ ~Holding(c)'
        /\ \A d \in Clients : d # c => (Holding(d)' <=> Holding(d))
    BY <2>1 DEF Holding
  <2>8. \A d \in Clients : RevisionOK(d)'
    BY <1>1, <1>3, <1>4, <2>1, <2>7 DEF FreshInv, RevisionOK
  <2>9. HeldDiffer'
    BY <2>1, <2>7 DEF FreshInv, HeldDiffer
  <2> QED
    BY <1>4, <2>6, <2>8, <2>9 DEF FreshInv
<1> QED
  BY <1>5, <1>6

\* An inspection that accepts draws a revision nobody has had.
LEMMA FreshInspect ==
    ASSUME IsFiniteSet(Clients), TypeOK, FreshInv, NEW c \in Clients,
           Inspect(c), call[c].op \in Writes, revision' = revision + 1
    PROVE  FreshInv'
<1>1. /\ pc[c] = "inspect" /\ visible' = visible /\ revision \in Nat
      /\ call[c] \in Calls
  BY DEF Inspect, TypeOK
<1>2. /\ pc' = [pc EXCEPT ![c] = "write"]
      /\ call' = [call EXCEPT ![c].file = [revision |-> revision + 1,
                                           data |-> "none"]]
  BY <1>1 DEF Inspect, Goto
<1>3. PICK k : k = [call[c] EXCEPT !.file = [revision |-> revision + 1,
                                             data |-> "none"]]
  OBVIOUS
<1>4. /\ k.op = call[c].op /\ k.expected = call[c].expected
      /\ k.file.revision = revision + 1
  BY <1>1, <1>3 DEF Calls
<1>5. /\ pc'[c] = "write" /\ call'[c] = k
      /\ \A d \in Clients : d # c => pc'[d] = pc[d] /\ call'[d] = call[d]
  BY <1>2, <1>3 DEF TypeOK
<1>6. Budget' = Budget \ {c} /\ c \in Budget
  BY <1>1, <1>5 DEF Budget
<1>7. WithinBudget'
  <2>1. IsFiniteSet(Budget)
    BY FS_Subset DEF Budget
  <2>2. Cardinality(Budget') = Cardinality(Budget) - 1
    BY <1>6, <2>1, FS_RemoveElement
  <2>3. Cardinality(Budget) \in Nat /\ MaxRevision \in Nat
    BY <2>1, FS_CardinalityType, FilesystemAssumption DEF FilesystemAssumption
  <2> QED
    BY <1>1, <2>2, <2>3 DEF FreshInv, WithinBudget
<1>8. \A d \in Clients : d # c => (Holding(d)' <=> Holding(d))
  BY <1>5 DEF Holding
<1>9. \A d \in Clients : RevisionOK(d)'
  BY <1>1, <1>4, <1>5, <1>8 DEF FreshInv, RevisionOK
<1>10. HeldDiffer'
  <2>1. \A d \in Clients : Holding(d) => call[d].file.revision # revision + 1
    BY <1>1 DEF FreshInv, RevisionOK
  <2> QED
    BY <1>4, <1>5, <1>8, <2>1 DEF FreshInv, HeldDiffer
<1>11. visible' \subseteq 1..revision'
  BY <1>1 DEF FreshInv
<1> QED
  BY <1>7, <1>9, <1>10, <1>11 DEF FreshInv

\* A rename makes the revision visible that its writer alone held.
LEMMA FreshRename ==
    ASSUME IsFiniteSet(Clients), TypeOK, FreshInv, NEW c \in Clients, Rename(c)
    PROVE  FreshInv'
<1>1. /\ pc[c] = "rename" /\ pc' = [pc EXCEPT ![c] = "syncdir"]
      /\ call' = call /\ revision' = revision
      /\ visible' = visible \cup {call[c].file.revision}
  BY DEF Rename, Goto
<1>2. /\ pc'[c] = "syncdir" /\ Holding(c)
      /\ \A d \in Clients : d # c => pc'[d] = pc[d]
  BY <1>1 DEF TypeOK, Holding
<1>3. Budget' \subseteq Budget
  BY <1>1, <1>2 DEF Budget
<1>4. WithinBudget'
  BY <1>1, <1>3, BudgetShrinks DEF FreshInv
<1>5. ~Holding(c)' /\ \A d \in Clients : d # c => (Holding(d)' <=> Holding(d))
  BY <1>2 DEF Holding
<1>6. visible' \subseteq 1..revision'
  BY <1>1, <1>2 DEF FreshInv, RevisionOK
<1>7. \A d \in Clients : RevisionOK(d)'
  BY <1>1, <1>2, <1>5 DEF FreshInv, RevisionOK, HeldDiffer
<1>8. HeldDiffer'
  BY <1>1, <1>5 DEF FreshInv, HeldDiffer
<1> QED
  BY <1>4, <1>6, <1>7, <1>8 DEF FreshInv

\* What a call that returns looks like.
LEMMA Returned ==
    ASSUME TypeOK, NEW c \in Clients, NEW r, NEW v, Return(c, r, v)
    PROVE  \E k : /\ call' = [call EXCEPT ![c] = k]
                  /\ pc' = [pc EXCEPT ![c] = "done"]
                  /\ k.op = call[c].op /\ k.at = call[c].at
                  /\ k.expected = call[c].expected
                  /\ k.result = r /\ k.seen = v
<1>1. call[c] \in Calls
  BY DEF TypeOK
<1>2. PICK k : k = [call[c] EXCEPT !.result = r, !.seen = v]
  OBVIOUS
<1>3. /\ k.op = call[c].op /\ k.at = call[c].at
      /\ k.expected = call[c].expected /\ k.result = r /\ k.seen = v
  BY <1>1, <1>2 DEF Calls
<1>4. call' = [call EXCEPT ![c] = k] /\ pc' = [pc EXCEPT ![c] = "done"]
  BY <1>2 DEF Return, Goto, TypeOK
<1> QED
  BY <1>3, <1>4

\* Every step keeps revisions fresh and within the bound.
LEMMA FreshNext ==
    ASSUME IsFiniteSet(Clients), FileInv, FreshInv, [Next]_vars
    PROVE  FreshInv'
<1> USE DEF FileInv
<1>1. CASE UNCHANGED vars
  BY <1>1 DEF vars, FreshInv, WithinBudget, Budget, RevisionOK, Holding, HeldDiffer
<1>2. CASE PowerLoss
  <2>1. /\ pc' = [c \in Clients |-> "idle"]
        /\ call' = [c \in Clients |-> Idle(call[c].at)]
        /\ UNCHANGED <<revision, visible>>
    BY <1>2 DEF PowerLoss
  <2>2. \A c \in Clients : ~Holding(c)' /\ call'[c].op = "none"
    BY <2>1 DEF Holding, Idle
  <2>3. Budget' \subseteq Budget
    BY <2>1 DEF Budget
  <2>4. WithinBudget'
    BY <2>1, <2>3, BudgetShrinks DEF FreshInv
  <2> QED
    BY <2>1, <2>2, <2>4 DEF FreshInv, RevisionOK, HeldDiffer
<1>3. ASSUME NEW p \in Paths, WriteBack(p) PROVE FreshInv'
  BY <1>3 DEF WriteBack, FreshInv, WithinBudget, Budget, RevisionOK, Holding,
     HeldDiffer
<1>4. ASSUME NEW c \in Clients, Step(c) PROVE FreshInv'
  <2>1. call[c].op = "replace" => call[c].expected # 0
    BY DEF FreshInv, RevisionOK
  <2>2. CASE Start(c)
    BY <2>2, FreshStart
  <2>3. CASE Prepare(c) \/ Acquire(c)
    <3>1. PICK label \in {"lock", "read", "inspect"} : pc' = [pc EXCEPT ![c] = label]
      BY <2>3 DEF Prepare, Acquire, Goto
    <3>2. call' = [call EXCEPT ![c] = call[c]] /\ UNCHANGED <<revision, visible>>
      BY <2>3 DEF Prepare, Acquire, TypeOK
    <3>3. call[c].op \in Writes => c \in Budget
      BY <2>3 DEF Prepare, Acquire, Budget
    <3> QED
      BY <2>1, <3>1, <3>2, <3>3, FreshFrame
  <2>4. ASSUME NEW r, NEW v, Return(c, r, v), UNCHANGED <<revision, visible>>
        PROVE  FreshInv'
    <3>1. PICK k : /\ call' = [call EXCEPT ![c] = k]
                   /\ pc' = [pc EXCEPT ![c] = "done"]
                   /\ k.op = call[c].op /\ k.expected = call[c].expected
      BY <2>4, Returned
    <3>2. /\ ~("done" \in {"write", "sync", "rename"})
          /\ ~("done" \in {"prepare", "lock", "inspect"})
      OBVIOUS
    <3>3. k.op = "replace" => k.expected # 0
      BY <2>1, <3>1
    <3> QED
      BY <2>4, <3>1, <3>2, <3>3, FreshFrame
  <2>5. CASE Read(c) \/ Fail(c) \/ SyncDir(c)
    BY <2>4, <2>5 DEF Read, Fail, SyncDir
  <2>6. CASE Inspect(c)
    <3>1. call[c].op \in Writes /\ visible' = visible
      BY <2>6 DEF Inspect, CallOK, Writing
    <3>2. CASE revision' = revision + 1
      BY <2>6, <3>1, <3>2, FreshInspect
    <3>3. CASE \E r, v : Return(c, r, v) /\ revision' = revision
      BY <2>4, <3>1, <3>3
    <3> QED
      BY <2>6, <3>2, <3>3 DEF Inspect
  <2>7. CASE Write(c) \/ Sync(c)
    <3>1. PICK data : call' = [call EXCEPT ![c].file.data = data]
      BY <2>7 DEF Write, Sync
    <3>2. PICK label \in {"sync", "rename"} : pc' = [pc EXCEPT ![c] = label]
      BY <2>7 DEF Write, Sync, Goto
    <3>3. PICK k : k = [call[c] EXCEPT !.file.data = data]
      OBVIOUS
    <3>4. /\ k.op = call[c].op /\ k.expected = call[c].expected
          /\ k.file.revision = call[c].file.revision
      <4>1. call[c] \in Calls /\ call[c].file \in Entries
        BY DEF TypeOK, Calls
      <4> QED
        BY <3>3, <4>1 DEF Calls, Entries
    <3>5. /\ call' = [call EXCEPT ![c] = k] /\ Holding(c)
          /\ UNCHANGED <<revision, visible>>
      BY <2>7, <3>1, <3>3 DEF Write, Sync, TypeOK, Holding
    <3> QED
      BY <2>1, <3>2, <3>4, <3>5, FreshFrame
  <2>8. CASE Rename(c)
    BY <2>8, FreshRename
  <2>9. CASE Leave(c) \/ Kill(c)
    <3>1. PICK k : k = Idle(call[c].at)
      OBVIOUS
    <3>2. /\ pc' = [pc EXCEPT ![c] = "idle"] /\ call' = [call EXCEPT ![c] = k]
          /\ UNCHANGED <<revision, visible>> /\ k.op = "none"
      BY <2>9, <3>1 DEF Leave, Kill, Quit, Goto, Idle
    <3>3. /\ ~("idle" \in {"write", "sync", "rename"})
          /\ ~(k.op \in Writes) /\ k.op # "replace"
      BY <3>2 DEF Writes
    <3> QED
      BY <3>2, <3>3, FreshFrame
  <2> QED
    BY <1>4, <2>2, <2>3, <2>5, <2>6, <2>7, <2>8, <2>9 DEF Step, Progress
<1> QED
  BY <1>1, <1>2, <1>3, <1>4 DEF Next

\* The empty store has drawn no revision.
LEMMA FreshInit == ASSUME Init PROVE FreshInv
<1>1. Budget = {} /\ \A c \in Clients : ~Holding(c)
  BY DEF Init, Budget, Holding
<1>2. WithinBudget
  BY <1>1, FS_EmptySet, FilesystemAssumption
     DEF Init, WithinBudget, FilesystemAssumption
<1> QED
  BY <1>1, <1>2 DEF Init, FreshInv, RevisionOK, HeldDiffer, Idle

----------------------------------------------------------------------------
(* The adapter implements the contract of ObjectStore: a rename is Apply,  *)
(* the other steps of a write before it leave the contract's state alone.  *)

\* What the contract sees of a call.
LEMMA ViewFields ==
    ASSUME NEW c \in Clients
    PROVE  /\ View(c).op = call[c].op /\ View(c).at = call[c].at
           /\ View(c).expected = call[c].expected
           /\ View(c).status = Status(c)
BY DEF View

\* A step of one client changes the view of no other call.
LEMMA OtherViews ==
    ASSUME TypeOK, NEW c \in Clients, NEW label, pc' = [pc EXCEPT ![c] = label],
           NEW k, call' = [call EXCEPT ![c] = k]
    PROVE  /\ pc'[c] = label /\ call'[c] = k
           /\ \A d \in Clients : d # c => View(d)' = View(d)
<1>1. /\ pc'[c] = label /\ call'[c] = k
      /\ \A d \in Clients : d # c => pc'[d] = pc[d] /\ call'[d] = call[d]
  BY DEF TypeOK
<1> QED
  BY <1>1 DEF View, Status

\* Changing the status and the version of a view, field by field.
LEMMA ViewExcept ==
    ASSUME NEW O, NEW L, NEW E, NEW S, NEW V, NEW s \in S, NEW v \in V,
           NEW q \in [op : O, at : L, expected : E, status : S, seen : V],
           NEW r \in [op : O, at : L, expected : E, status : S, seen : V],
           r.op = q.op, r.at = q.at, r.expected = q.expected,
           r.status = s, r.seen = v
    PROVE  r = [q EXCEPT !.status = s, !.seen = v]
  OBVIOUS

\* A call whose view changes in its status and version only.
LEMMA ViewMoves ==
    ASSUME NEW c \in Clients, NEW s, NEW v,
           \A d \in Clients : d # c => View(d)' = View(d),
           call'[c].op = call[c].op, call'[c].at = call[c].at,
           call'[c].expected = call[c].expected,
           Status(c)' = s,
           (IF pc[c] = "syncdir" THEN call[c].file.revision ELSE call[c].seen)' = v
    PROVE  Contract!Moves(c, s, v)
<1>1. PICK f : f = [d \in Clients |-> View(d)]
  OBVIOUS
<1>2. PICK g : g = [d \in Clients |-> View(d)']
  OBVIOUS
<1>3. View(c)' = [View(c) EXCEPT !.status = s, !.seen = v]
  <2>1. PICK o, a, e, x, y :
          /\ o = call[c].op /\ a = call[c].at /\ e = call[c].expected
          /\ View(c) = [op |-> o, at |-> a, expected |-> e,
                        status |-> x, seen |-> y]
    BY DEF View
  <2>2. View(c)' = [op |-> call'[c].op, at |-> call'[c].at,
                    expected |-> call'[c].expected, status |-> Status(c)',
                    seen |-> (IF pc[c] = "syncdir" THEN call[c].file.revision
                                                   ELSE call[c].seen)']
    BY Zenon DEF View
  <2>3. View(c)' = [op |-> o, at |-> a, expected |-> e, status |-> s, seen |-> v]
    BY <2>1, <2>2, Zenon
  <2>4. PICK q, r : q = View(c) /\ r = View(c)'
    OBVIOUS
  <2>5. /\ q \in [op : {o}, at : {a}, expected : {e}, status : {x, s}, seen : {y, v}]
        /\ r \in [op : {o}, at : {a}, expected : {e}, status : {x, s}, seen : {y, v}]
    BY <2>1, <2>3, <2>4
  <2>6. /\ r.op = q.op /\ r.at = q.at /\ r.expected = q.expected
        /\ r.status = s /\ r.seen = v
    BY <2>1, <2>3, <2>4
  <2>7. r = [q EXCEPT !.status = s, !.seen = v]
    BY <2>5, <2>6, ViewExcept
  <2> QED
    BY <2>4, <2>7
<1>4. g = [f EXCEPT ![c].status = s, ![c].seen = v]
  BY <1>1, <1>2, <1>3
<1> QED
  BY <1>1, <1>2, <1>4 DEF Contract!Moves

\* A call that returns a result without touching an object.
LEMMA ReturnMoves ==
    ASSUME TypeOK, NEW c \in Clients, NEW r, NEW v, Return(c, r, v)
    PROVE  Contract!Moves(c, r, v)
<1>1. PICK k : /\ call' = [call EXCEPT ![c] = k]
               /\ pc' = [pc EXCEPT ![c] = "done"]
               /\ k.op = call[c].op /\ k.at = call[c].at
               /\ k.expected = call[c].expected
               /\ k.result = r /\ k.seen = v
  BY Returned
<1>2. /\ pc'[c] = "done" /\ call'[c] = k
      /\ \A d \in Clients : d # c => View(d)' = View(d)
  BY <1>1, OtherViews
<1>3. Status(c)' = r
  BY <1>1, <1>2 DEF Status
<1>4. (IF pc[c] = "syncdir" THEN call[c].file.revision ELSE call[c].seen)' = v
  BY <1>1, <1>2
<1> QED
  BY <1>1, <1>2, <1>3, <1>4, ViewMoves

\* What the contract sees when the object files are left alone.
LEMMA SameObjects ==
    ASSUME UNCHANGED <<files, visible>>
    PROVE  /\ UNCHANGED [l \in Locations |-> files[PathOf[l]].revision]
           /\ UNCHANGED visible /\ UNCHANGED NoneLate
BY DEF NoneLate

\* The start of a call is Invoke: its version is one the contract knows.
LEMMA StartRefines ==
    ASSUME IsFiniteSet(Clients), FileInv, FreshInv, NEW c \in Clients, Start(c)
    PROVE  Contract!Invoke(c)
<1>1. PICK op \in {"get"} \cup Writes, l \in Locations, v \in visible \cup {0} :
        call' = [call EXCEPT ![c] = [Idle(l) EXCEPT !.op = op,
                                                    !.expected = v]]
  BY DEF Start
<1>2. PICK k : k = [Idle(l) EXCEPT !.op = op, !.expected = v]
  OBVIOUS
<1>3. /\ k.op = op /\ k.at = l /\ k.expected = v /\ k.seen = 0
      /\ call' = [call EXCEPT ![c] = k]
  BY <1>1, <1>2 DEF Idle
<1>4. /\ pc' = [pc EXCEPT ![c] = "prepare"] /\ pc[c] = "idle"
      /\ UNCHANGED <<files, visible>>
  BY DEF Start, Goto
<1>5. /\ pc'[c] = "prepare" /\ call'[c] = k
      /\ \A d \in Clients : d # c => View(d)' = View(d)
  BY <1>3, <1>4, OtherViews DEF FileInv
<1>6. View(c)' = [op |-> op, at |-> l, expected |-> v,
                  status |-> "pending", seen |-> 0]
  BY <1>3, <1>5 DEF View, Status
<1>7. v \in Revisions \cup {0}
  <2>1. IsFiniteSet(Budget)
    BY FS_Subset DEF Budget
  <2>2. /\ Cardinality(Budget) \in Nat /\ revision \in Nat /\ MaxRevision \in Nat
    BY <2>1, FS_CardinalityType, FilesystemAssumption
       DEF FileInv, TypeOK, FilesystemAssumption
  <2>3. revision <= MaxRevision
    BY <2>2 DEF FreshInv, WithinBudget
  <2> QED
    BY <2>2, <2>3 DEF FreshInv, Revisions
<1>8. op \in Contract!Ops \ {"none"}
  BY DEF Writes, Contract!Ops
<1>9. PICK f : f = [d \in Clients |-> View(d)]
  OBVIOUS
<1>10. [d \in Clients |-> View(d)'] =
         [f EXCEPT ![c] = [op |-> op, at |-> l, expected |-> v,
                           status |-> "pending", seen |-> 0]]
  BY <1>5, <1>6, <1>9
<1>11. f[c].status = "idle"
  BY <1>4, <1>9 DEF View, Status
<1> QED
  BY <1>4, <1>7, <1>8, <1>9, <1>10, <1>11, SameObjects DEF Contract!Invoke

\* The steps of a call before its effect change nothing in the contract.
LEMMA HiddenStep ==
    ASSUME TypeOK, NEW c \in Clients, NEW label, NEW k,
           pc' = [pc EXCEPT ![c] = label], call' = [call EXCEPT ![c] = k],
           pc[c] \notin {"idle", "done", "syncdir"},
           label \notin {"idle", "done", "syncdir"},
           k.op = call[c].op, k.at = call[c].at, k.expected = call[c].expected,
           k.seen = call[c].seen, UNCHANGED <<files, visible>>
    PROVE  UNCHANGED Contract!vars
<1>1. /\ pc'[c] = label /\ call'[c] = k
      /\ \A d \in Clients : d # c => View(d)' = View(d)
  BY OtherViews
<1>2. View(c)' = View(c)
  BY <1>1 DEF View, Status
<1>3. [d \in Clients |-> View(d)'] = [d \in Clients |-> View(d)]
  BY <1>1, <1>2
<1> QED
  BY <1>3, SameObjects DEF Contract!vars

\* A rename is Apply: the condition that was inspected under the lock still
\* holds and the version is fresh.
LEMMA RenameRefines ==
    ASSUME OneFilePerLocation, IsFiniteSet(Clients), FileInv, FreshInv,
           NEW c \in Clients, Rename(c)
    PROVE  Contract!Apply(c)
<1>1. PICK v : v = call[c].file.revision
  OBVIOUS
<1>2. /\ pc[c] = "rename" /\ pc' = [pc EXCEPT ![c] = "syncdir"] /\ call' = call
      /\ files' = [files EXCEPT ![PathFor(c)] = call[c].file]
      /\ visible' = visible \cup {v}
  BY <1>1 DEF Rename, Goto
<1>3. call' = [call EXCEPT ![c] = call[c]]
  BY <1>2 DEF FileInv, TypeOK
<1>4. /\ pc'[c] = "syncdir" /\ call'[c] = call[c]
      /\ \A d \in Clients : d # c => View(d)' = View(d)
  BY <1>2, <1>3, OtherViews DEF FileInv
<1>5. /\ Contract!Moves(c, "applied", v)
  <2>1. /\ Status(c)' = "applied"
        /\ (IF pc[c] = "syncdir" THEN call[c].file.revision ELSE call[c].seen)' = v
    BY <1>1, <1>4 DEF Status
  <2> QED
    BY <1>4, <2>1, ViewMoves
<1>6. v \in Revisions \ visible
  <2>1. v \in 1..revision /\ v \notin visible
    BY <1>1, <1>2 DEF FreshInv, RevisionOK, Holding
  <2>2. IsFiniteSet(Budget)
    BY FS_Subset DEF Budget
  <2>3. /\ Cardinality(Budget) \in Nat /\ revision \in Nat /\ MaxRevision \in Nat
    BY <2>2, FS_CardinalityType, FilesystemAssumption
       DEF FileInv, TypeOK, FilesystemAssumption
  <2> QED
    BY <2>1, <2>3 DEF FreshInv, WithinBudget, Revisions
<1>7. /\ call[c].at \in Locations /\ PathFor(c) \in Paths
      /\ \A l \in Locations : PathOf[l] \in Paths
  BY FilesystemAssumption DEF FileInv, TypeOK, Calls, PathFor, FilesystemAssumption
<1>8. PICK o : o = [l \in Locations |-> files[PathOf[l]].revision]
  OBVIOUS
<1>9. [l \in Locations |-> files[PathOf[l]].revision]' = [o EXCEPT ![call[c].at] = v]
  <2>1. \A l \in Locations : l # call[c].at => PathOf[l] # PathFor(c)
    BY <1>7 DEF OneFilePerLocation, PathFor
  <2>2. \A l \in Locations : l # call[c].at => files'[PathOf[l]] = files[PathOf[l]]
    BY <1>2, <1>7, <2>1 DEF FileInv, TypeOK
  <2>3. files'[PathOf[call[c].at]].revision = v
    BY <1>1, <1>2, <1>7 DEF FileInv, TypeOK, PathFor
  <2> QED
    BY <1>8, <2>2, <2>3
<1>10. /\ call[c].op \in Writes /\ o[call[c].at] = call[c].expected
       /\ call[c].op = "create" => call[c].expected = 0
       /\ call[c].op = "replace" => call[c].expected # 0
  BY <1>2, <1>7, <1>8
     DEF FileInv, CallOK, Writing, FreshInv, RevisionOK, PathFor
<1>11. PICK r : r = [d \in Clients |-> View(d)][c]
  OBVIOUS
<1>12. /\ r.op = call[c].op /\ r.at = call[c].at /\ r.expected = call[c].expected
       /\ r.status = "pending"
  BY <1>2, <1>11, ViewFields DEF Status
<1>13. Contract!Accepts(r)
  BY <1>8, <1>10, <1>12 DEF Contract!Accepts, Writes
<1>14. Contract!Takes(r, v)
  BY <1>2, <1>6, <1>8, <1>9, <1>12, <1>13 DEF Contract!Takes
<1> QED
  BY <1>5, <1>6, <1>11, <1>12, <1>14 DEF Contract!Apply, NoneLate

\* The results of a call: a coherent get, a confirmed or refused write, or an
\* error at any moment.
LEMMA ResultRefines ==
    ASSUME FileInv, FreshInv, NEW c \in Clients,
           NEW r, NEW v, Return(c, r, v), pc[c] \notin {"idle", "done"},
           UNCHANGED <<files, visible>>,
           \/ r = "error" /\ v = 0
           \/ /\ r = "ok" /\ pc[c] = "read" /\ v = files[PathFor(c)].revision
           \/ /\ r = "ok" /\ pc[c] = "syncdir" /\ v = call[c].file.revision
           \/ /\ r = "refused" /\ pc[c] = "inspect" /\ ~Matches(c)
              /\ v = files[PathFor(c)].revision
    PROVE  Contract!Next
<1>1. Contract!Moves(c, r, v)
  BY ReturnMoves DEF FileInv
<1>2. PICK q : q = [d \in Clients |-> View(d)][c]
  OBVIOUS
<1>3. /\ q.op = call[c].op /\ q.at = call[c].at /\ q.expected = call[c].expected
      /\ q.status = Status(c)
  BY <1>2, ViewFields
<1>4. PICK o : o = [l \in Locations |-> files[PathOf[l]].revision]
  OBVIOUS
<1>5. call[c].at \in Locations /\ o[q.at] = files[PathFor(c)].revision
  BY <1>3, <1>4 DEF FileInv, TypeOK, Calls, PathFor
<1>6. CASE r = "error" /\ v = 0
  <2>1. q.status \in {"pending", "denied", "applied"}
    BY <1>3 DEF Status
  <2>2. Contract!Fail(c)
    BY <1>1, <1>2, <1>6, <2>1, SameObjects DEF Contract!Fail
  <2> QED
    BY <2>2 DEF Contract!Next
<1>7. CASE r = "ok" /\ pc[c] = "read" /\ v = files[PathFor(c)].revision
  <2>1. q.status = "pending" /\ q.op = "get"
    <3>1. call[c].op = "get"
      BY <1>7 DEF FileInv, CallOK
    <3> QED
      BY <1>3, <1>7, <3>1 DEF Status
  <2>2. Contract!Get(c)
    BY <1>1, <1>2, <1>4, <1>5, <1>7, <2>1, SameObjects DEF Contract!Get
  <2> QED
    BY <2>2 DEF Contract!Next
<1>8. CASE r = "ok" /\ pc[c] = "syncdir" /\ v = call[c].file.revision
  <2>1. q.status = "applied" /\ q.seen = v
    BY <1>2, <1>3, <1>8 DEF Status, View
  <2>2. Contract!Confirm(c)
    BY <1>1, <1>2, <1>8, <2>1, SameObjects DEF Contract!Confirm
  <2> QED
    BY <2>2 DEF Contract!Next
<1>9. CASE /\ r = "refused" /\ pc[c] = "inspect" /\ ~Matches(c)
           /\ v = files[PathFor(c)].revision
  <2>1. q.status = "pending" /\ q.op \in Writes
    BY <1>3, <1>9 DEF Status, FileInv, CallOK, Writing
  <2>2. ~Contract!Accepts(q)
    BY <1>3, <1>4, <1>5, <1>9, <2>1 DEF Matches, Contract!Accepts, Writes
  <2>3. Contract!Refuse(c)
    BY <1>1, <1>2, <1>4, <1>5, <1>9, <2>1, <2>2, SameObjects
       DEF Contract!Refuse, Contract!Writes, Writes
  <2> QED
    BY <2>3 DEF Contract!Next
<1> QED
  BY <1>6, <1>7, <1>8, <1>9

\* A caller that takes its result, or is killed, leaves the contract.
LEMMA LeaveRefines ==
    ASSUME FileInv, NEW c \in Clients, Leave(c) \/ Kill(c)
    PROVE  Contract!Leave(c)
<1>1. PICK k : k = Idle(call[c].at)
  OBVIOUS
<1>2. /\ pc' = [pc EXCEPT ![c] = "idle"] /\ call' = [call EXCEPT ![c] = k]
      /\ UNCHANGED <<files, visible>> /\ pc[c] # "idle"
  BY <1>1 DEF Leave, Kill, Quit, Goto
<1>3. /\ pc'[c] = "idle" /\ call'[c] = k
      /\ \A d \in Clients : d # c => View(d)' = View(d)
  BY <1>2, OtherViews DEF FileInv
<1>4. View(c)' = Contract!Idle(call[c].at)
  BY <1>1, <1>3 DEF View, Status, Idle, Contract!Idle
<1>5. PICK f : f = [d \in Clients |-> View(d)]
  OBVIOUS
<1>6. f[c].status # "idle" /\ f[c].at = call[c].at
  <2>1. call[c].result # "idle"
    BY DEF FileInv, TypeOK, Calls
  <2> QED
    BY <1>2, <1>5, <2>1 DEF View, Status
<1>7. [d \in Clients |-> View(d)'] = [f EXCEPT ![c] = Contract!Idle(f[c].at)]
  BY <1>3, <1>4, <1>5, <1>6
<1> QED
  BY <1>2, <1>5, <1>6, <1>7, SameObjects DEF Contract!Leave

\* Every step is a step of the contract, a power loss, or leaves the
\* contract's state alone.
LEMMA NextRefines ==
    ASSUME OneFilePerLocation, IsFiniteSet(Clients), FileInv, FreshInv,
           [Next]_vars
    PROVE  [Contract!Next \/ PowerLoss]_(Contract!vars)
<1>1. CASE UNCHANGED vars
  BY <1>1 DEF vars, Contract!vars, View, Status, NoneLate
<1>2. CASE PowerLoss
  BY <1>2
<1>3. ASSUME NEW p \in Paths, WriteBack(p) PROVE UNCHANGED Contract!vars
  BY <1>3 DEF WriteBack, Contract!vars, View, Status, NoneLate
<1>4. ASSUME NEW c \in Clients, Step(c)
      PROVE  Contract!Next \/ UNCHANGED Contract!vars
  <2> USE DEF FileInv
  <2>1. CASE Start(c)
    BY <2>1, StartRefines DEF Contract!Next
  <2>2. CASE Prepare(c) \/ Acquire(c)
    <3>1. PICK label \in {"lock", "read", "inspect"} : pc' = [pc EXCEPT ![c] = label]
      BY <2>2 DEF Prepare, Acquire, Goto
    <3>2. /\ call' = [call EXCEPT ![c] = call[c]] /\ UNCHANGED <<files, visible>>
          /\ pc[c] \in {"prepare", "lock"}
      BY <2>2 DEF Prepare, Acquire, TypeOK
    <3> QED
      BY <3>1, <3>2, HiddenStep
  <2>3. CASE Read(c)
    BY <2>3, ResultRefines DEF Read
  <2>4. CASE Inspect(c)
    <3>1. pc[c] = "inspect" /\ UNCHANGED <<files, visible>> /\ NoTornObject
      BY <2>4 DEF Inspect, PathOK, NoTornObject, TypeOK
    <3>2. CASE Decodes(PathFor(c)) /\ Matches(c)
      <4>1. PICK k : k = [call[c] EXCEPT !.file = [revision |-> revision + 1,
                                                   data |-> "none"]]
        OBVIOUS
      <4>2. /\ k.op = call[c].op /\ k.at = call[c].at
            /\ k.expected = call[c].expected /\ k.seen = call[c].seen
        <5>1. call[c] \in Calls
          BY DEF TypeOK
        <5> QED
          BY <4>1, <5>1 DEF Calls
      <4>3. /\ call' = [call EXCEPT ![c] = k] /\ pc' = [pc EXCEPT ![c] = "write"]
        BY <2>4, <3>2, <4>1 DEF Inspect, Goto, TypeOK
      <4> QED
        BY <3>1, <4>2, <4>3, HiddenStep
    <3>3. CASE ~Decodes(PathFor(c))
      BY <2>4, <3>1, <3>3, ResultRefines DEF Inspect
    <3>4. CASE Decodes(PathFor(c)) /\ ~Matches(c)
      BY <2>4, <3>1, <3>4, ResultRefines DEF Inspect
    <3> QED
      BY <3>2, <3>3, <3>4
  <2>5. CASE Write(c) \/ Sync(c)
    <3>1. PICK data : call' = [call EXCEPT ![c].file.data = data]
      BY <2>5 DEF Write, Sync
    <3>2. PICK label \in {"sync", "rename"} : pc' = [pc EXCEPT ![c] = label]
      BY <2>5 DEF Write, Sync, Goto
    <3>3. PICK k : k = [call[c] EXCEPT !.file.data = data]
      OBVIOUS
    <3>4. /\ k.op = call[c].op /\ k.at = call[c].at
          /\ k.expected = call[c].expected /\ k.seen = call[c].seen
      <4>1. call[c] \in Calls /\ call[c].file \in Entries
        BY DEF TypeOK, Calls
      <4> QED
        BY <3>3, <4>1 DEF Calls, Entries
    <3>5. /\ call' = [call EXCEPT ![c] = k] /\ pc[c] \in {"write", "sync"}
          /\ UNCHANGED <<files, visible>>
      BY <2>5, <3>1, <3>3 DEF Write, Sync, TypeOK
    <3> QED
      BY <3>2, <3>4, <3>5, HiddenStep
  <2>6. CASE Rename(c)
    BY <2>6, RenameRefines DEF Contract!Next
  <2>7. CASE SyncDir(c)
    BY <2>7, ResultRefines DEF SyncDir
  <2>8. CASE Fail(c)
    BY <2>8, ResultRefines DEF Fail
  <2>9. CASE Leave(c) \/ Kill(c)
    BY <2>9, LeaveRefines DEF Contract!Next
  <2> QED
    BY <1>4, <2>1, <2>2, <2>3, <2>4, <2>5, <2>6, <2>7, <2>8, <2>9
       DEF Step, Progress
<1> QED
  BY <1>1, <1>2, <1>3, <1>4 DEF Next

\* The empty store is the contract's initial state.
LEMMA InitRefines == Init => Contract!Init
<1> SUFFICES ASSUME Init
             PROVE  Contract!Init
  OBVIOUS
<1>1. PICK l \in Locations : call = [c \in Clients |-> Idle(l)]
  BY DEF Init
<1>2. PICK l0 \in Locations : l0 = CHOOSE m \in Locations : TRUE
  BY <1>1
<1>3. NoneLate \in [Clients -> {r \in Contract!Requests : r.op = "none"}]
  BY <1>2 DEF NoneLate, Contract!Requests
<1>4. \A c \in Clients : View(c) = Contract!Idle(l)
  BY <1>1 DEF Init, View, Status, Idle, Contract!Idle
<1>5. PICK at : at = [c \in Clients |-> l]
  OBVIOUS
<1>6. /\ at \in [Clients -> Locations]
      /\ [c \in Clients |-> View(c)] = [c \in Clients |-> Contract!Idle(at[c])]
  BY <1>4, <1>5
<1>7. [m \in Locations |-> files[PathOf[m]].revision] = [m \in Locations |-> 0]
  BY FilesystemAssumption DEF Init, NoFile, FilesystemAssumption
<1> QED
  BY <1>3, <1>6, <1>7 DEF Init, Contract!Init

\* Between power losses the adapter provides the contract of the ObjectStore
\* trait, whatever number of clients and locations: Linearizable.
THEOREM FilesLinearizable ==
    ASSUME OneFilePerLocation, IsFiniteSet(Clients)
    PROVE  Spec => Linearizable
<1>1. Init => FreshInv
  BY FreshInit
<1>2. FileInv /\ FreshInv /\ [Next]_vars => FreshInv'
  BY FreshNext
<1>3. FileInv /\ FreshInv /\ [Next]_vars
        => [Contract!Next \/ PowerLoss]_(Contract!vars)
  BY NextRefines
<1> QED
  BY <1>1, <1>2, <1>3, InitRefines, FilesInvariance, PTL DEF Spec, Linearizable

----------------------------------------------------------------------------
(* Structures do not share files *)

\* A builder that accepts has checked both its namespace and its name.
LEMMA BuiltSegments ==
    ASSUME NEW b \in Built
    PROVE  /\ b.kind \in Kinds
           /\ \E n, m \in Words : /\ b.namespace = <<n>> /\ b.name = <<m>>
                                  /\ n \notin Special
<1>1. /\ b \in Configurations
      /\ IsPathSegment(b.namespace) /\ IsPathSegment(b.name)
      /\ b.namespace # None
  BY DEF Built, QueueFinishes, ClientFinishes, ClientBuilds
<1>2. /\ b.namespace \in Seq(Words) /\ b.name \in Seq(Words)
  BY <1>1, LocationAssumption DEF LocationAssumption, Configurations
<1>3. /\ Len(b.namespace) = 1 /\ Len(b.name) = 1
      /\ b.namespace[1] \notin Special
  BY <1>1 DEF IsPathSegment
<1>4. /\ b.namespace = <<b.namespace[1]>> /\ b.namespace[1] \in Words
      /\ b.name = <<b.name[1]>> /\ b.name[1] \in Words
  BY <1>2, <1>3
<1> QED
  BY <1>1, <1>3, <1>4 DEF Configurations

\* Concatenation of three sequences of one word.
LEMMA ThreeWords ==
    ASSUME NEW x, NEW y, NEW z
    PROVE  <<x>> \o <<y>> \o <<z>> = <<x, y, z>>
<1> DEFINE S == {x, y, z}
<1>1. <<x>> \in Seq(S) /\ <<y>> \in Seq(S) /\ <<z>> \in Seq(S)
      /\ <<x, y>> \in Seq(S) /\ <<x, y, z>> \in Seq(S)
  OBVIOUS
<1> HIDE DEF S
<1>2. PICK s : s = <<x>> \o <<y>>
  OBVIOUS
<1>3. /\ s \in Seq(S) /\ Len(s) = 2 /\ s[1] = x /\ s[2] = y
  <2>1. /\ s \in Seq(S) /\ Len(s) = Len(<<x>>) + Len(<<y>>)
        /\ \A i \in 1..(Len(<<x>>) + Len(<<y>>)) :
              s[i] = IF i <= Len(<<x>>) THEN <<x>>[i]
                                        ELSE <<y>>[i - Len(<<x>>)]
    BY <1>1, <1>2, ConcatProperties, Zenon
  <2> QED
    BY <2>1
<1>4. PICK t : t = s \o <<z>>
  OBVIOUS
<1>5. /\ t \in Seq(S) /\ Len(t) = 3 /\ t[1] = x /\ t[2] = y /\ t[3] = z
  <2>1. /\ t \in Seq(S) /\ Len(t) = Len(s) + Len(<<z>>)
        /\ \A i \in 1..(Len(s) + Len(<<z>>)) :
              t[i] = IF i <= Len(s) THEN s[i] ELSE <<z>>[i - Len(s)]
    <3>1. s \in Seq(S) /\ <<z>> \in Seq(S)
      BY <1>1, <1>3
    <3> QED
      BY <3>1, <1>4, ConcatProperties, Zenon
  <2> QED
    BY <1>3, <2>1
<1>6. t = <<x, y, z>>
  <2>1. /\ Len(<<x, y, z>>) = 3
        /\ \A i \in 1..Len(t) : t[i] = <<x, y, z>>[i]
    BY <1>5
  <2> QED
    BY <1>1, <1>5, <2>1, SeqEqual
<1> QED
  BY <1>2, <1>4, <1>6

\* The three components of a structure's object.
LEMMA StructureComponents ==
    ASSUME NEW n \in Words, NEW m \in Words, NEW kind \in Kinds,
           n \notin Special
    PROVE  /\ Structure(<<n>>, kind, <<m>>) = <<n, kind, Json[m]>>
           /\ Components(<<n, kind, Json[m]>>) =
                {<<1, n>>, <<2, kind>>, <<3, Json[m]>>}
<1> DEFINE v == <<n, kind, Json[m]>>
<1>1. Structure(<<n>>, kind, <<m>>) = v
  <2> DEFINE file == [<<m>> EXCEPT ![Len(<<m>>)] = Json[@]]
  <2>1. file = <<Json[m]>>
    OBVIOUS
  <2>2. Structure(<<n>>, kind, <<m>>) = <<n>> \o <<kind>> \o file
    BY DEF Structure
  <2>3. <<n>> \o <<kind>> \o <<Json[m]>> = <<n, kind, Json[m]>>
    BY ThreeWords
  <2> HIDE DEF file
  <2> QED
    BY <2>1, <2>2, <2>3
<1>2. /\ DOMAIN v = 1..3 /\ v[1] = n /\ v[2] = kind /\ v[3] = Json[m]
  OBVIOUS
<1>3. Kept(v) = 1..3
  <2>1. kind \notin Dropped
    BY DEF Kinds, Dropped
  <2>2. Json[m] \notin Dropped
    BY LocationAssumption DEF LocationAssumption, Special, Dropped
  <2>3. \A i \in 1..3 : i = 1 \/ i = 2 \/ i = 3
    OBVIOUS
  <2>4. \A i \in 1..3 : v[i] \notin Dropped
    BY <1>2, <2>1, <2>2, <2>3 DEF Special, Dropped
  <2> HIDE DEF v
  <2> QED
    BY <1>2, <2>4 DEF Kept
<1>4. \A i \in 1..3 : Cardinality(Kept(v) \cap 1..i) = i
  <2> TAKE i \in 1..3
  <2>1. Kept(v) \cap 1..i = 1..i
    BY <1>3
  <2>2. Cardinality(1..i) = i
    <3>1. Cardinality(1..i) = IF 1 > i THEN 0 ELSE i - 1 + 1
      BY FS_Interval
    <3> QED
      BY <3>1
  <2> QED
    BY <2>1, <2>2
<1>5. Components(v) = {<<i, v[i]>> : i \in 1..3}
  <2> HIDE DEF v
  <2> QED
    BY <1>3, <1>4 DEF Components
<1>6. {<<i, v[i]>> : i \in 1..3} = {<<1, n>>, <<2, kind>>, <<3, Json[m]>>}
  <2>1. \A i \in 1..3 : i = 1 \/ i = 2 \/ i = 3
    OBVIOUS
  <2>2. 1 \in 1..3 /\ 2 \in 1..3 /\ 3 \in 1..3
    OBVIOUS
  <2> HIDE DEF v
  <2> QED
    BY <1>2, <2>1, <2>2
<1> QED
  BY <1>1, <1>5, <1>6

\* Whatever strings are configured, structures keep out of each other's
\* objects and directories and out of the lock files.
THEOREM ConfigurationsApart == StructuresApart
<1> SUFFICES ASSUME NEW b \in Built
             PROVE  LET object == Components(LocationOf(b)) IN
                    /\ IsObjectPath(LocationOf(b))
                    /\ \A d \in Built :
                         object \subseteq Components(LocationOf(d)) =>
                           <<b.namespace, b.kind, b.name>>
                             = <<d.namespace, d.kind, d.name>>
                    /\ \A lock \in LockFiles : ~(object \subseteq lock)
                                               /\ ~(lock \subseteq object)
  BY DEF StructuresApart
<1>1. PICK n \in Words, m \in Words :
        /\ b.namespace = <<n>> /\ b.name = <<m>> /\ n \notin Special
  BY BuiltSegments
<1>2. b.kind \in Kinds
  BY BuiltSegments
<1>3. /\ LocationOf(b) = <<n, b.kind, Json[m]>>
      /\ Components(LocationOf(b)) = {<<1, n>>, <<2, b.kind>>, <<3, Json[m]>>}
  <2>1. LocationOf(b) = Structure(<<n>>, b.kind, <<m>>)
    BY <1>1 DEF LocationOf
  <2>2. PICK k \in Kinds : k = b.kind
    BY <1>2
  <2>3. /\ Structure(<<n>>, k, <<m>>) = <<n, k, Json[m]>>
        /\ Components(<<n, k, Json[m]>>) = {<<1, n>>, <<2, k>>, <<3, Json[m]>>}
    BY <1>1, StructureComponents, Zenon
  <2> QED
    BY <2>1, <2>2, <2>3
<1>4. IsObjectPath(LocationOf(b))
  <2>1. b.kind # "dotdot" /\ Json[m] # "dotdot"
    BY <1>2, LocationAssumption DEF Kinds, LocationAssumption, Special
  <2> QED
    BY <1>1, <1>3, <2>1 DEF IsObjectPath, Special
<1>5. ASSUME NEW d \in Built,
             Components(LocationOf(b)) \subseteq Components(LocationOf(d))
      PROVE  <<b.namespace, b.kind, b.name>> = <<d.namespace, d.kind, d.name>>
  <2>1. PICK p \in Words, q \in Words :
          /\ d.namespace = <<p>> /\ d.name = <<q>>
          /\ p \notin Special
    BY BuiltSegments
  <2>2. d.kind \in Kinds
    BY BuiltSegments
  <2>3. Components(LocationOf(d)) = {<<1, p>>, <<2, d.kind>>, <<3, Json[q]>>}
    <3>1. LocationOf(d) = Structure(<<p>>, d.kind, <<q>>)
      BY <2>1 DEF LocationOf
    <3>2. PICK k \in Kinds : k = d.kind
      BY <2>2
    <3>3. /\ Structure(<<p>>, k, <<q>>) = <<p, k, Json[q]>>
          /\ Components(<<p, k, Json[q]>>)
               = {<<1, p>>, <<2, k>>, <<3, Json[q]>>}
      BY <2>1, StructureComponents, Zenon
    <3> QED
      BY <3>1, <3>2, <3>3
  <2>4. n = p /\ b.kind = d.kind /\ Json[m] = Json[q]
    <3>1. /\ <<1, n>> \in Components(LocationOf(d))
          /\ <<2, b.kind>> \in Components(LocationOf(d))
          /\ <<3, Json[m]>> \in Components(LocationOf(d))
      BY <1>3, <1>5
    <3> QED
      BY <2>3, <3>1
  <2>5. m = q
    BY <2>4, LocationAssumption DEF LocationAssumption
  <2> QED
    BY <1>1, <2>1, <2>4, <2>5
<1>6. ASSUME NEW lock \in LockFiles
      PROVE  /\ ~(Components(LocationOf(b)) \subseteq lock)
             /\ ~(lock \subseteq Components(LocationOf(b)))
  <2>1. PICK f \in LockNames : lock = {<<1, LockDirectory>>, <<2, f>>}
    BY DEF LockFiles
  <2>2. f # b.kind
    BY <1>2, LocationAssumption DEF LocationAssumption
  <2>3. <<3, Json[m]>> \notin lock
    BY <2>1
  <2>4. <<2, f>> \notin Components(LocationOf(b))
    BY <1>3, <2>2
  <2> QED
    BY <1>3, <2>1, <2>3, <2>4
<1> QED
  BY <1>4, <1>5, <1>6

\* On the filesystem adapter, locations made by the builders are one file
\* each: the assumption of the theorems about locks and renames.
THEOREM BuiltLocationsOneFile ==
    ASSUME Locations \subseteq BuiltLocations,
           \A l \in Locations : PathOf[l] = Components(l)
    PROVE  OneFilePerLocation
<1> SUFFICES ASSUME NEW l \in Locations, NEW m \in Locations,
                    PathOf[l] = PathOf[m]
             PROVE  l = m
  BY DEF OneFilePerLocation
<1>1. PICK b \in Built : l = LocationOf(b)
  BY DEF BuiltLocations
<1>2. PICK d \in Built : m = LocationOf(d)
  BY DEF BuiltLocations
<1>3. Components(LocationOf(b)) \subseteq Components(LocationOf(d))
  BY <1>1, <1>2
<1>4. <<b.namespace, b.kind, b.name>> = <<d.namespace, d.kind, d.name>>
  BY <1>3, ConfigurationsApart DEF StructuresApart
<1> QED
  BY <1>1, <1>2, <1>4 DEF LocationOf

\* Two structures that meet are one.
LEMMA MeetingStructures ==
    ASSUME NEW b \in Built, NEW d \in Built,
           Meet(Components(LocationOf(b)), Components(LocationOf(d)))
    PROVE  LocationOf(b) = LocationOf(d)
<1>1. <<b.namespace, b.kind, b.name>> = <<d.namespace, d.kind, d.name>>
  BY ConfigurationsApart DEF StructuresApart, Meet
<1> QED
  BY <1>1 DEF LocationOf

\* Objects of structures are at their locations alone, for all strings and
\* whatever the clients of the adapter do.
THEOREM ObjectsKeptApart ==
    ASSUME Locations \subseteq BuiltLocations
    PROVE  Spec => []ObjectsApart
<1>1. ASSUME NEW l \in Locations
      PROVE  /\ \A other \in BuiltLocations :
                  Meet(Components(l), Components(other)) => l = other
             /\ \A lock \in LockFiles : ~Meet(Components(l), lock)
  <2>1. PICK b \in Built : l = LocationOf(b)
    BY DEF BuiltLocations
  <2>2. ASSUME NEW other \in BuiltLocations,
               Meet(Components(l), Components(other))
        PROVE  l = other
    <3>1. PICK d \in Built : other = LocationOf(d)
      BY DEF BuiltLocations
    <3> QED
      BY <2>1, <2>2, <3>1, MeetingStructures
  <2>3. \A lock \in LockFiles : ~Meet(Components(l), lock)
    BY <2>1, ConfigurationsApart DEF StructuresApart, Meet
  <2> QED
    BY <2>2, <2>3
<1>2. ObjectsApart
  BY <1>1 DEF ObjectsApart
<1> QED
  BY <1>2, PTL

----------------------------------------------------------------------------
(* The S3 adapter implements the same contract.  Its variables have names  *)
(* of their own here.  Inductive is what the contract needs to know of a   *)
(* request on its way (PutOK): a replace names a version, a write has a    *)
(* body; and that a call learns nothing before its verdict (PcOK).         *)

CONSTANT Contents

VARIABLES bucket, etags, step, task, strays

S3 == INSTANCE S3Store WITH
    object <- bucket, used <- etags, pc <- step, call <- task, late <- strays

PutOK(r) ==
    /\ r.op = "replace" => r.expected # 0
    /\ r.op \in S3!Writes => r.body \in Contents

PcOK(c) ==
    /\ step[c] = "sent" => task[c].request.op # "none" /\ PutOK(task[c].request)
    /\ step[c] \in {"sent", "answered", "inspect"} => task[c].seen = 0
    /\ step[c] = "answered" /\ task[c].status = 200
         => task[c].request.body \in Contents
    /\ step[c] = "inspect" => task[c].status # 200

LateOK(c) == strays[c].op \in S3!Writes \cup {"none"} /\ PutOK(strays[c])

S3Inv ==
    /\ S3!TypeOK
    /\ \A c \in Clients : PcOK(c)
    /\ \A c \in Clients : LateOK(c)

\* A step of one client leaves what the invariant says of the others alone.
LEMMA S3Frame ==
    ASSUME S3Inv, NEW c \in Clients, NEW k \in S3!Calls,
           NEW label \in {"idle", "sent", "answered", "inspect", "done"},
           step' = [step EXCEPT ![c] = label], task' = [task EXCEPT ![c] = k],
           bucket' \in [Locations -> Contents \cup {0}], etags' \subseteq Contents,
           strays' \in [Clients -> S3!Requests],
           \A d \in Clients : d # c => strays'[d] = strays[d],
           LateOK(c)', PcOK(c)'
    PROVE  S3Inv'
<1>1. S3!TypeOK'
  BY DEF S3Inv, S3!TypeOK
<1>2. \A d \in Clients : d # c => step'[d] = step[d] /\ task'[d] = task[d]
  BY DEF S3Inv, S3!TypeOK
<1>3. \A d \in Clients : PcOK(d)'
  <2> SUFFICES ASSUME NEW d \in Clients, d # c
               PROVE  PcOK(d)'
    OBVIOUS
  <2> QED
    BY <1>2 DEF S3Inv, PcOK, PutOK
<1>4. \A d \in Clients : LateOK(d)'
  <2> SUFFICES ASSUME NEW d \in Clients, d # c
               PROVE  LateOK(d)'
    OBVIOUS
  <2> QED
    BY DEF S3Inv, LateOK, PutOK
<1> QED
  BY <1>1, <1>3, <1>4 DEF S3Inv

\* A call that returns keeps what it asked for and forgets its body.
LEMMA S3Returned ==
    ASSUME S3!TypeOK, NEW c \in Clients, NEW r \in {"ok", "refused", "error"},
           NEW v \in Contents \cup {0}, S3!Return(c, r, v)
    PROVE  \E k \in S3!Calls :
             /\ task' = [task EXCEPT ![c] = k] /\ step' = [step EXCEPT ![c] = "done"]
             /\ k.request.op = task[c].request.op
             /\ k.request.at = task[c].request.at
             /\ k.request.expected = task[c].request.expected
             /\ k.result = r /\ k.seen = v
<1>1. PICK q : q = task[c].request
  OBVIOUS
<1>2. task[c] \in S3!Calls /\ q \in S3!Requests
  BY <1>1 DEF S3!TypeOK, S3!Calls
<1>3. PICK p : p = [q EXCEPT !.body = 0]
  OBVIOUS
<1>4. /\ p \in S3!Requests /\ p.op = q.op /\ p.at = q.at /\ p.expected = q.expected
  BY <1>2, <1>3 DEF S3!Requests
<1>5. PICK j : j = [task[c] EXCEPT !.result = r, !.seen = v, !.status = 0]
  OBVIOUS
<1>6. /\ j \in S3!Calls /\ j.request = q /\ j.result = r /\ j.seen = v
  <2>1. PICK R : R = {"none", "ok", "refused", "error"}
    OBVIOUS
  <2>2. S3!Calls = [request : S3!Requests, status : S3!Statuses, result : R,
                    seen : Contents \cup {0}]
    BY <2>1, Zenon DEF S3!Calls
  <2>3. 0 \in S3!Statuses /\ r \in R
    BY <2>1 DEF S3!Statuses
  <2> QED
    BY <1>1, <1>2, <1>5, <2>2, <2>3
<1>7. PICK k : k = [j EXCEPT !.request = p]
  OBVIOUS
<1>8. /\ k \in S3!Calls /\ k.request = p /\ k.result = r /\ k.seen = v
  BY <1>4, <1>6, <1>7 DEF S3!Calls
<1>9. PICK f : f = [task EXCEPT ![c] = j]
  OBVIOUS
<1>10. f = [task EXCEPT ![c].result = r, ![c].seen = v, ![c].status = 0]
  BY <1>5, <1>9 DEF S3!TypeOK
<1>11. task' = [f EXCEPT ![c].request.body = 0]
  BY <1>10 DEF S3!Return, S3!TypeOK
<1>12. f[c] = j /\ [f EXCEPT ![c].request.body = 0] = [f EXCEPT ![c] = k]
  BY <1>3, <1>6, <1>7, <1>9 DEF S3!TypeOK
<1>13. task' = [task EXCEPT ![c] = k]
  BY <1>9, <1>11, <1>12 DEF S3!TypeOK
<1> QED
  BY <1>1, <1>4, <1>8, <1>13 DEF S3!Return, S3!Goto

\* A result of any kind preserves the invariant.
LEMMA S3ReturnInv ==
    ASSUME S3Inv, NEW c \in Clients, NEW r \in {"ok", "refused", "error"},
           NEW v \in Contents \cup {0}, S3!Return(c, r, v), UNCHANGED <<bucket, etags>>,
           strays' \in [Clients -> S3!Requests],
           \A d \in Clients : d # c => strays'[d] = strays[d],
           LateOK(c)'
    PROVE  S3Inv'
<1>1. PICK k \in S3!Calls : /\ task' = [task EXCEPT ![c] = k]
                            /\ step' = [step EXCEPT ![c] = "done"]
  BY S3Returned DEF S3Inv
<1>2. step'[c] = "done"
  BY <1>1 DEF S3Inv, S3!TypeOK
<1>3. PcOK(c)'
  BY <1>2 DEF PcOK
<1> QED
  BY <1>1, <1>3, S3Frame DEF S3Inv, S3!TypeOK

\* Abandoned PUTs that stay where they are.
LEMMA S3SameLate ==
    ASSUME S3Inv, strays' = strays
    PROVE  /\ strays' \in [Clients -> S3!Requests]
           /\ \A d \in Clients : strays'[d] = strays[d] /\ LateOK(d)'
BY DEF S3Inv, S3!TypeOK, LateOK, PutOK

\* An answer changes nothing of the call but its status.
LEMMA S3StatusCall ==
    ASSUME S3!TypeOK, NEW c \in Clients, NEW s \in S3!Statuses,
           task' = [task EXCEPT ![c].status = s]
    PROVE  \E k \in S3!Calls :
             /\ task' = [task EXCEPT ![c] = k]
             /\ k.request = task[c].request /\ k.result = task[c].result
             /\ k.seen = task[c].seen /\ k.status = s
<1>1. task[c] \in S3!Calls
  BY DEF S3!TypeOK
<1>2. PICK k : k = [task[c] EXCEPT !.status = s]
  OBVIOUS
<1>3. /\ k \in S3!Calls
      /\ k.request = task[c].request /\ k.result = task[c].result
      /\ k.seen = task[c].seen /\ k.status = s
  BY <1>1, <1>2 DEF S3!Calls
<1> QED
  BY <1>2, <1>3 DEF S3!TypeOK

\* A PUT that takes effect stores a content.
LEMMA S3PutTyped ==
    ASSUME S3Inv, NEW r \in S3!Requests, r.op \in S3!Writes, PutOK(r), S3!Put(r)
    PROVE  bucket' \in [Locations -> Contents \cup {0}] /\ etags' \subseteq Contents
BY DEF S3Inv, S3!TypeOK, S3!Put, PutOK

\* Every step of adapter, service and others preserves the invariant.
LEMMA S3NextInv ==
    ASSUME S3Inv, [S3!Next]_(S3!vars)
    PROVE  S3Inv'
<1>1. CASE UNCHANGED S3!vars
  BY <1>1 DEF S3!vars, S3Inv, S3!TypeOK, PcOK, PutOK, LateOK
<1>2. ASSUME NEW c \in Clients, S3!Start(c) PROVE S3Inv'
  <2>1. PICK op \in S3!Writes \cup {"get"}, l \in Locations,
             v \in etags \cup {0}, body \in Contents \cup {0} :
          /\ op = "replace" <=> v # 0
          /\ op \in S3!Writes <=> body # 0
          /\ task' = [task EXCEPT ![c] =
                        S3!Idle([op |-> op, at |-> l, expected |-> v, body |-> body])]
    BY <1>2 DEF S3!Start
  <2>2. PICK q : q = [op |-> op, at |-> l, expected |-> v, body |-> body]
    OBVIOUS
  <2>3. q \in S3!Requests /\ q.op # "none" /\ PutOK(q)
    BY <2>1, <2>2 DEF S3!Requests, S3!Writes, PutOK, S3Inv, S3!TypeOK
  <2>4. S3!Idle(q) \in S3!Calls /\ S3!Idle(q).request = q /\ S3!Idle(q).seen = 0
    BY <2>3 DEF S3!Idle, S3!Calls, S3!Statuses
  <2>5. /\ task' = [task EXCEPT ![c] = S3!Idle(q)] /\ step' = [step EXCEPT ![c] = "sent"]
        /\ UNCHANGED <<bucket, etags, strays>>
    BY <1>2, <2>1, <2>2 DEF S3!Start, S3!Goto
  <2>6. step'[c] = "sent" /\ task'[c] = S3!Idle(q)
    BY <2>5 DEF S3Inv, S3!TypeOK
  <2>7. PcOK(c)'
    BY <2>3, <2>4, <2>6 DEF PcOK, PutOK
  <2> QED
    BY <2>4, <2>5, <2>7, S3SameLate, S3Frame DEF S3Inv, S3!TypeOK
<1>3. ASSUME NEW c \in Clients, S3!Get(c) \/ S3!Receive(c) \/ S3!Inspect(c) \/ S3!Fail(c)
      PROVE  S3Inv'
  <2>1. UNCHANGED <<bucket, etags, strays>>
    BY <1>3 DEF S3!Get, S3!Receive, S3!Inspect, S3!Fail
  <2>2. S3!Found(c) \in Contents \cup {0} /\ task[c].request.body \in Contents \cup {0}
    BY DEF S3Inv, S3!TypeOK, S3!Calls, S3!Requests, S3!Found
  <2>3. CASE \E r \in {"ok", "refused", "error"}, v \in Contents \cup {0} :
               S3!Return(c, r, v)
    BY <2>1, <2>3, S3SameLate, S3ReturnInv
  <2>4. CASE S3!ConditionFailed(c) /\ S3!Goto(c, "inspect") /\ task' = task
    <3>1. /\ task' = [task EXCEPT ![c] = task[c]] /\ step' = [step EXCEPT ![c] = "inspect"]
          /\ task[c] \in S3!Calls /\ step[c] = "answered"
      BY <1>3, <2>4
         DEF S3Inv, S3!TypeOK, S3!Goto, S3!Get, S3!Receive, S3!Inspect, S3!Fail, S3!Return
    <3>2. /\ step'[c] = "inspect" /\ task'[c] = task[c] /\ task[c].status # 200
          /\ task[c].seen = 0
      BY <2>4, <3>1 DEF S3Inv, S3!TypeOK, PcOK, S3!ConditionFailed
    <3>3. PcOK(c)'
      BY <3>2 DEF PcOK
    <3> QED
      BY <2>1, <3>1, <3>3, S3SameLate, S3Frame DEF S3Inv, S3!TypeOK
  <2> QED
    BY <1>3, <2>2, <2>3, <2>4 DEF S3!Get, S3!Receive, S3!Inspect, S3!Fail
<1>4. ASSUME NEW c \in Clients, S3!Serve(c) \/ S3!Compete(c) PROVE S3Inv'
  <2>1. /\ step[c] = "sent" /\ task[c].request.op \in S3!Writes /\ strays' = strays
        /\ step' = [step EXCEPT ![c] = "answered"]
        /\ task[c].request \in S3!Requests /\ PutOK(task[c].request)
        /\ task[c].seen = 0
    BY <1>4 DEF S3!Serve, S3!Compete, S3!Goto, S3Inv, S3!TypeOK, S3!Calls, PcOK
  <2>2. PICK s \in S3!Statuses :
          /\ task' = [task EXCEPT ![c].status = s]
          /\ S3!Put(task[c].request) \/ UNCHANGED <<bucket, etags>>
    BY <1>4 DEF S3!Serve, S3!Compete, S3!Refusals, S3!Statuses
  <2>3. /\ bucket' \in [Locations -> Contents \cup {0}] /\ etags' \subseteq Contents
    BY <2>1, <2>2, S3PutTyped DEF S3Inv, S3!TypeOK
  <2>4. PICK k \in S3!Calls : /\ task' = [task EXCEPT ![c] = k]
                              /\ k.request = task[c].request
                              /\ k.seen = task[c].seen
    BY <2>2, S3StatusCall DEF S3Inv
  <2>5. step'[c] = "answered" /\ task'[c] = k
    BY <2>1, <2>4 DEF S3Inv, S3!TypeOK
  <2>6. PcOK(c)'
    BY <2>1, <2>4, <2>5 DEF PcOK, PutOK
  <2> QED
    BY <2>1, <2>3, <2>4, <2>6, S3SameLate, S3Frame
<1>5. ASSUME NEW c \in Clients, S3!LoseAnswer(c) PROVE S3Inv'
  <2>1. /\ task[c].request \in S3!Requests /\ PutOK(task[c].request)
        /\ task[c].request.op \in S3!Writes
        /\ strays' = [strays EXCEPT ![c] = task[c].request]
        /\ S3!Return(c, "error", 0) /\ UNCHANGED <<bucket, etags>>
    BY <1>5 DEF S3!LoseAnswer, S3Inv, S3!TypeOK, S3!Calls, PcOK
  <2>2. /\ strays' \in [Clients -> S3!Requests] /\ strays'[c] = task[c].request
        /\ \A d \in Clients : d # c => strays'[d] = strays[d]
    BY <2>1 DEF S3Inv, S3!TypeOK
  <2>3. LateOK(c)'
    BY <2>1, <2>2 DEF LateOK, PutOK
  <2> QED
    BY <2>1, <2>2, <2>3, S3ReturnInv
<1>6. ASSUME NEW c \in Clients, S3!LateArrival(c) PROVE S3Inv'
  <2>1. /\ strays[c] \in S3!Requests /\ PutOK(strays[c]) /\ strays[c].op \in S3!Writes
    BY <1>6 DEF S3!LateArrival, S3Inv, S3!TypeOK, LateOK
  <2>2. /\ bucket' \in [Locations -> Contents \cup {0}] /\ etags' \subseteq Contents
    BY <1>6, <2>1, S3PutTyped DEF S3!LateArrival, S3Inv, S3!TypeOK
  <2>3. PICK q : q = S3!NoRequest(strays[c].at)
    OBVIOUS
  <2>4. q \in S3!Requests /\ q.op = "none"
    BY <2>1, <2>3 DEF S3!NoRequest, S3!Requests
  <2>5. /\ strays' = [strays EXCEPT ![c] = q] /\ UNCHANGED <<step, task>>
    BY <1>6, <2>3 DEF S3!LateArrival
  <2>6. /\ strays' \in [Clients -> S3!Requests] /\ strays'[c] = q
        /\ \A d \in Clients : d # c => strays'[d] = strays[d]
    BY <2>4, <2>5 DEF S3Inv, S3!TypeOK
  <2>7. \A d \in Clients : LateOK(d)'
    BY <2>4, <2>6 DEF S3Inv, LateOK, PutOK, S3!Writes
  <2>8. \A d \in Clients : PcOK(d)'
    BY <2>5 DEF S3Inv, PcOK, PutOK
  <2>9. S3!TypeOK'
    BY <2>2, <2>5, <2>6 DEF S3Inv, S3!TypeOK
  <2> QED
    BY <2>7, <2>8, <2>9 DEF S3Inv
<1>7. ASSUME NEW c \in Clients, S3!Leave(c) PROVE S3Inv'
  <2>1. PICK k : k = S3!Idle(S3!NoRequest(task[c].request.at))
    OBVIOUS
  <2>2. k \in S3!Calls
    <3>1. S3!NoRequest(task[c].request.at) \in S3!Requests
      BY DEF S3Inv, S3!TypeOK, S3!Calls, S3!Requests, S3!NoRequest
    <3> QED
      BY <2>1, <3>1 DEF S3!Idle, S3!Calls, S3!Statuses
  <2>3. /\ task' = [task EXCEPT ![c] = k] /\ step' = [step EXCEPT ![c] = "idle"]
        /\ UNCHANGED <<bucket, etags, strays>>
    BY <1>7, <2>1 DEF S3!Leave, S3!Goto
  <2>4. step'[c] = "idle"
    BY <2>3 DEF S3Inv, S3!TypeOK
  <2>5. PcOK(c)'
    BY <2>4 DEF PcOK
  <2> QED
    BY <2>2, <2>3, <2>5, S3SameLate, S3Frame DEF S3Inv, S3!TypeOK
<1>8. ASSUME NEW l \in Locations, S3!Delete(l) PROVE S3Inv'
  BY <1>8 DEF S3!Delete, S3Inv, S3!TypeOK, PcOK, PutOK, LateOK
<1> QED
  BY <1>1, <1>2, <1>3, <1>4, <1>5, <1>6, <1>7, <1>8 DEF S3!Next

\* The initial states satisfy the invariant.
LEMMA S3InitInv == S3!Init => S3Inv
<1> SUFFICES ASSUME S3!Init
             PROVE  S3Inv
  OBVIOUS
<1>1. PICK l \in Locations : /\ task = [c \in Clients |-> S3!Idle(S3!NoRequest(l))]
                             /\ strays = [c \in Clients |-> S3!NoRequest(l)]
  BY DEF S3!Init
<1>2. S3!NoRequest(l) \in S3!Requests /\ S3!NoRequest(l).op = "none"
  BY DEF S3!NoRequest, S3!Requests
<1>3. S3!Idle(S3!NoRequest(l)) \in S3!Calls
  BY <1>2 DEF S3!Idle, S3!Calls, S3!Statuses
<1>4. S3!TypeOK
  BY <1>1, <1>2, <1>3 DEF S3!Init, S3!TypeOK
<1> QED
  BY <1>1, <1>2, <1>4 DEF S3!Init, S3Inv, PcOK, LateOK, PutOK, S3!Writes

----------------------------------------------------------------------------

LEMMA S3OtherViews ==
    ASSUME S3!TypeOK, NEW c \in Clients, NEW label, step' = [step EXCEPT ![c] = label],
           NEW k, task' = [task EXCEPT ![c] = k]
    PROVE  /\ step'[c] = label /\ task'[c] = k
           /\ \A d \in Clients : d # c => S3!View(d)' = S3!View(d)
<1>1. /\ step'[c] = label /\ task'[c] = k
      /\ \A d \in Clients : d # c => step'[d] = step[d] /\ task'[d] = task[d]
  BY DEF S3!TypeOK
<1> QED
  BY <1>1 DEF S3!View, S3!Status

\* A call whose view changes in its status and version only.
LEMMA S3ViewMoves ==
    ASSUME NEW c \in Clients, NEW s, NEW v,
           \A d \in Clients : d # c => S3!View(d)' = S3!View(d),
           task'[c].request.op = task[c].request.op,
           task'[c].request.at = task[c].request.at,
           task'[c].request.expected = task[c].request.expected,
           S3!View(c)'.status = s, S3!View(c)'.seen = v
    PROVE  S3!Contract!Moves(c, s, v)
<1>1. PICK f, g : /\ f = [d \in Clients |-> S3!View(d)]
                  /\ g = [d \in Clients |-> S3!View(d)']
  OBVIOUS
<1>2. PICK o, a, e, x : /\ o = task[c].request.op /\ a = task[c].request.at
                          /\ e = task[c].request.expected /\ x = S3!Status(c)
  OBVIOUS
<1>3. PICK q, r : q = S3!View(c) /\ r = S3!View(c)'
  OBVIOUS
<1>4. /\ r.op = o /\ r.at = a /\ r.expected = e
      /\ r = [op |-> o, at |-> a, expected |-> e, status |-> s, seen |-> v]
  BY <1>2, <1>3 DEF S3!View
<1>5. PICK y : q = [op |-> o, at |-> a, expected |-> e, status |-> x, seen |-> y]
  BY <1>2, <1>3, Zenon DEF S3!View
<1>6. /\ q \in [op : {o}, at : {a}, expected : {e}, status : {x, s}, seen : {y, v}]
      /\ r \in [op : {o}, at : {a}, expected : {e}, status : {x, s}, seen : {y, v}]
      /\ r.op = q.op /\ r.at = q.at /\ r.expected = q.expected
      /\ r.status = s /\ r.seen = v
  BY <1>4, <1>5
<1>7. r = [q EXCEPT !.status = s, !.seen = v]
  BY <1>6, ViewExcept
<1>8. g = [f EXCEPT ![c].status = s, ![c].seen = v]
  BY <1>1, <1>3, <1>7
<1> QED
  BY <1>1, <1>8 DEF S3!Contract!Moves

\* A call that returns a result.
LEMMA S3ReturnMoves ==
    ASSUME S3!TypeOK, NEW c \in Clients, NEW r \in {"ok", "refused", "error"},
           NEW v \in Contents \cup {0}, S3!Return(c, r, v)
    PROVE  S3!Contract!Moves(c, r, v)
<1>1. PICK k \in S3!Calls :
        /\ task' = [task EXCEPT ![c] = k] /\ step' = [step EXCEPT ![c] = "done"]
        /\ k.request.op = task[c].request.op
        /\ k.request.at = task[c].request.at
        /\ k.request.expected = task[c].request.expected
        /\ k.result = r /\ k.seen = v
  BY S3Returned
<1>2. /\ step'[c] = "done" /\ task'[c] = k
      /\ \A d \in Clients : d # c => S3!View(d)' = S3!View(d)
  BY <1>1, S3OtherViews
<1>3. S3!View(c)'.status = r /\ S3!View(c)'.seen = v
  BY <1>1, <1>2 DEF S3!View, S3!Status
<1> QED
  BY <1>1, <1>2, <1>3, S3ViewMoves

\* What the contract sees of a call.
LEMMA S3Seen ==
    ASSUME NEW c \in Clients, NEW q, q = [d \in Clients |-> S3!View(d)][c]
    PROVE  /\ q.op = task[c].request.op /\ q.at = task[c].request.at
           /\ q.expected = task[c].request.expected
           /\ q.status = S3!Status(c)
           /\ q.seen = (IF step[c] = "answered" /\ task[c].status = 200
                          THEN task[c].request.body ELSE task[c].seen)
BY DEF S3!View

\* Abandoned PUTs that nobody touches look the same to the contract.
LEMMA S3LateSame ==
    ASSUME strays' = strays
    PROVE  UNCHANGED [c \in Clients |-> S3!LateView(c)]
BY DEF S3!LateView

\* A result is one the contract allows: the verdict of a refused PUT was
\* decided by the service, whatever the GET after it finds.
LEMMA S3ResultRefines ==
    ASSUME S3Inv, NEW c \in Clients,
           S3!Get(c) \/ S3!Receive(c) \/ S3!Inspect(c) \/ S3!Fail(c)
    PROVE  S3!Contract!Next \/ UNCHANGED S3!Contract!vars
<1>1. UNCHANGED <<bucket, etags, strays>> /\ UNCHANGED [d \in Clients |-> S3!LateView(d)]
  BY S3LateSame DEF S3!Get, S3!Receive, S3!Inspect, S3!Fail
<1>2. PICK q : q = [d \in Clients |-> S3!View(d)][c]
  OBVIOUS
<1>3. /\ q.op = task[c].request.op /\ q.at = task[c].request.at
      /\ q.status = S3!Status(c)
  BY <1>2, S3Seen
<1>4. /\ S3!Found(c) = bucket[q.at] /\ S3!Found(c) \in Contents \cup {0}
      /\ task[c].request.body \in Contents \cup {0}
  BY <1>3 DEF S3Inv, S3!TypeOK, S3!Calls, S3!Requests, S3!Found
<1>5. CASE S3!Get(c)
  <2>1. S3!Contract!Moves(c, "ok", bucket[q.at])
    BY <1>4, <1>5, S3ReturnMoves DEF S3!Get, S3Inv
  <2>2. q.status = "pending" /\ q.op = "get"
    BY <1>3, <1>5 DEF S3!Get, S3!Status
  <2>3. S3!Contract!Get(c)
    BY <1>1, <1>2, <2>1, <2>2 DEF S3!Contract!Get
  <2> QED
    BY <2>3 DEF S3!Contract!Next
<1>6. CASE S3!Receive(c)
  <2>1. CASE task[c].status = 200 /\ S3!Return(c, "ok", task[c].request.body)
    <3>1. q.status = "applied" /\ q.seen = task[c].request.body
      BY <1>2, <1>3, <1>6, <2>1, S3Seen DEF S3!Receive, S3!Status
    <3>2. S3!Contract!Moves(c, "ok", q.seen)
      BY <1>4, <2>1, <3>1, S3ReturnMoves DEF S3Inv
    <3>3. S3!Contract!Confirm(c)
      BY <1>1, <1>2, <3>1, <3>2 DEF S3!Contract!Confirm
    <3> QED
      BY <3>3 DEF S3!Contract!Next
  <2>2. CASE S3!ConditionFailed(c) /\ S3!Goto(c, "inspect") /\ task' = task
    <3>1. /\ step' = [step EXCEPT ![c] = "inspect"] /\ task' = [task EXCEPT ![c] = task[c]]
          /\ step[c] = "answered" /\ task[c].status # 200
      BY <1>6, <2>2 DEF S3!Receive, S3!Goto, S3!ConditionFailed, S3Inv, S3!TypeOK
    <3>2. /\ step'[c] = "inspect" /\ task'[c] = task[c]
          /\ \A d \in Clients : d # c => S3!View(d)' = S3!View(d)
      BY <3>1, S3OtherViews DEF S3Inv
    <3>3. S3!View(c)' = S3!View(c)
      BY <3>1, <3>2 DEF S3!View, S3!Status
    <3>4. [d \in Clients |-> S3!View(d)'] = [d \in Clients |-> S3!View(d)]
      BY <3>2, <3>3
    <3> QED
      BY <1>1, <3>4 DEF S3!Contract!vars
  <2> QED
    BY <1>6, <2>1, <2>2 DEF S3!Receive
<1>7. CASE S3!Fail(c)
  <2>1. S3!Contract!Moves(c, "error", 0)
    BY <1>7, S3ReturnMoves DEF S3!Fail, S3Inv
  <2>2. q.status \in {"pending", "denied", "applied"}
    BY <1>3, <1>7 DEF S3!Fail, S3!Status
  <2>3. S3!Contract!Fail(c)
    BY <1>1, <1>2, <2>1, <2>2 DEF S3!Contract!Fail
  <2> QED
    BY <2>3 DEF S3!Contract!Next
<1>8. CASE S3!Inspect(c)
  <2>1. q.status = "denied"
    BY <1>3, <1>8 DEF S3!Inspect, S3!Status, S3Inv, PcOK
  <2>2. CASE S3!Return(c, "error", 0)
    <3>1. S3!Contract!Moves(c, "error", 0)
      BY <2>2, S3ReturnMoves DEF S3Inv
    <3>2. S3!Contract!Fail(c)
      BY <1>1, <1>2, <2>1, <3>1 DEF S3!Contract!Fail
    <3> QED
      BY <3>2 DEF S3!Contract!Next
  <2>3. CASE S3!Return(c, "refused", S3!Found(c))
    <3>1. S3!Contract!Moves(c, "refused", bucket[q.at])
      BY <1>4, <2>3, S3ReturnMoves DEF S3Inv
    <3>2. S3!Contract!Refuse(c)
      BY <1>1, <1>2, <2>1, <3>1 DEF S3!Contract!Refuse
    <3> QED
      BY <3>2 DEF S3!Contract!Next
  <2> QED
    BY <1>8, <2>2, <2>3 DEF S3!Inspect
<1> QED
  BY <1>5, <1>6, <1>7, <1>8

\* The answer of the service decides what the contract sees of a PUT.
LEMMA S3StatusMoves ==
    ASSUME S3!TypeOK, NEW c \in Clients, NEW s \in S3!Statuses, task[c].seen = 0,
           step' = [step EXCEPT ![c] = "answered"],
           task' = [task EXCEPT ![c].status = s]
    PROVE  /\ s = 200 => S3!Contract!Moves(c, "applied", task[c].request.body)
           /\ s # 200 => S3!Contract!Moves(c, "denied", 0)
<1>1. PICK k \in S3!Calls : /\ task' = [task EXCEPT ![c] = k]
                            /\ k.request = task[c].request
                            /\ k.seen = task[c].seen /\ k.status = s
  BY S3StatusCall
<1>2. /\ step'[c] = "answered" /\ task'[c] = k
      /\ \A d \in Clients : d # c => S3!View(d)' = S3!View(d)
  BY <1>1, S3OtherViews
<1>3. /\ s = 200 => /\ S3!View(c)'.status = "applied"
                    /\ S3!View(c)'.seen = task[c].request.body
      /\ s # 200 => S3!View(c)'.status = "denied" /\ S3!View(c)'.seen = 0
  BY <1>1, <1>2 DEF S3!View, S3!Status
<1> QED
  BY <1>1, <1>2, <1>3, S3ViewMoves

\* The service applies a PUT under its condition, or refuses it because the
\* condition fails.
LEMMA S3ServeRefines ==
    ASSUME S3Inv, NEW c \in Clients, S3!Serve(c)
    PROVE  S3!Contract!Next
<1>1. /\ step[c] = "sent" /\ task[c].request.op \in S3!Writes /\ strays' = strays
      /\ step' = [step EXCEPT ![c] = "answered"]
      /\ PutOK(task[c].request) /\ task[c].seen = 0
  BY DEF S3!Serve, S3!Goto, S3Inv, PcOK
<1>2. PICK q : q = [d \in Clients |-> S3!View(d)][c]
  OBVIOUS
<1>3. /\ q.op = task[c].request.op /\ q.at = task[c].request.at
      /\ q.expected = task[c].request.expected /\ q.status = "pending"
  BY <1>1, <1>2, S3Seen DEF S3!Status
<1>4. UNCHANGED [d \in Clients |-> S3!LateView(d)]
  BY <1>1, S3LateSame
<1>5. /\ S3!TypeOK /\ 200 \in S3!Statuses
      /\ \A s \in S3!Refusals(c) : s \in S3!Statuses /\ s # 200
  BY DEF S3Inv, S3!Statuses, S3!Refusals
<1>6. CASE S3!Put(task[c].request) /\ task' = [task EXCEPT ![c].status = 200]
  <2>1. PICK v : v = task[c].request.body
    OBVIOUS
  <2>2. v \in Contents /\ S3!Contract!Moves(c, "applied", v)
    BY <1>1, <1>5, <1>6, <2>1, S3StatusMoves DEF PutOK
  <2>3. S3!Contract!Accepts(q)
    BY <1>1, <1>3, <1>6 DEF S3!Put, S3!Holds, PutOK, S3!Contract!Accepts, S3!Writes
  <2>4. S3!Contract!Takes(q, v)
    BY <1>3, <1>6, <2>1, <2>2, <2>3 DEF S3!Put, S3!Contract!Takes
  <2>5. S3!Contract!Apply(c)
    BY <1>2, <1>3, <1>4, <2>2, <2>4 DEF S3!Contract!Apply
  <2> QED
    BY <2>5 DEF S3!Contract!Next
<1>7. CASE /\ \E s \in S3!Refusals(c) : task' = [task EXCEPT ![c].status = s]
           /\ UNCHANGED <<bucket, etags>>
  <2>1. PICK s \in S3!Refusals(c) : task' = [task EXCEPT ![c].status = s]
    BY <1>7
  <2>2. s \in {404, 412}
    BY <2>1 DEF S3!Refusals
  <2>3. S3!Contract!Moves(c, "denied", 0)
    <3>1. s \in S3!Statuses /\ s # 200 /\ S3!TypeOK
      BY <1>5, <2>1
    <3> QED
      BY <1>1, <2>1, <3>1, S3StatusMoves, Zenon
  <2>4. ~S3!Contract!Accepts(q)
    <3>1. CASE s = 404
      BY <1>1, <1>3, <2>1, <3>1
         DEF S3!Refusals, S3!Found, PutOK, S3!Contract!Accepts, S3!Writes
    <3>2. CASE s = 412
      BY <1>1, <1>3, <2>1, <3>2
         DEF S3!Refusals, S3!Found, S3!Holds, S3!Contract!Accepts, S3!Writes
    <3> QED
      BY <2>2, <3>1, <3>2
  <2>5. S3!Contract!Deny(c)
    BY <1>1, <1>2, <1>3, <1>4, <1>7, <2>3, <2>4
       DEF S3!Contract!Deny, S3!Contract!Writes, S3!Writes
  <2> QED
    BY <2>5 DEF S3!Contract!Next
<1> QED
  BY <1>6, <1>7 DEF S3!Serve

\* An abandoned PUT that is over, field by field.
LEMMA S3LateExcept ==
    ASSUME NEW O, NEW L, NEW E, "none" \in O, 0 \in E,
           NEW q \in [op : O, at : L, expected : E],
           NEW r \in [op : O, at : L, expected : E],
           r.op = "none", r.at = q.at, r.expected = 0
    PROVE  r = [q EXCEPT !.op = "none", !.expected = 0]
  OBVIOUS

\* A PUT whose answer is lost stays with the contract until it arrives.
LEMMA S3LateRefines ==
    ASSUME S3Inv, NEW c \in Clients, S3!LoseAnswer(c) \/ S3!LateArrival(c)
    PROVE  S3!Contract!Next
<1>1. PICK f, h : /\ f = [d \in Clients |-> S3!View(d)]
                  /\ h = [d \in Clients |-> S3!LateView(d)]
  OBVIOUS
<1>2. PICK q : q = f[c]
  OBVIOUS
<1>3. /\ q.op = task[c].request.op /\ q.at = task[c].request.at
      /\ q.expected = task[c].request.expected /\ q.status = S3!Status(c)
      /\ h[c].op = strays[c].op /\ h[c].at = strays[c].at
      /\ h[c].expected = strays[c].expected
  BY <1>1, <1>2, S3Seen DEF S3!LateView
<1>4. CASE S3!LoseAnswer(c)
  <2>1. /\ q.status = "pending" /\ q.op \in S3!Writes /\ h[c].op = "none"
    BY <1>3, <1>4 DEF S3!LoseAnswer, S3!Status
  <2>2. S3!Contract!Moves(c, "error", 0)
    BY <1>4, S3ReturnMoves DEF S3!LoseAnswer, S3Inv
  <2>3. /\ strays'[c] = task[c].request
        /\ \A d \in Clients : d # c => strays'[d] = strays[d]
    BY <1>4 DEF S3!LoseAnswer, S3Inv, S3!TypeOK
  <2>4. S3!LateView(c)' = [op |-> q.op, at |-> q.at, expected |-> q.expected]
    BY <1>3, <2>3 DEF S3!LateView
  <2>5. [d \in Clients |-> S3!LateView(d)'] =
          [h EXCEPT ![c] = [op |-> q.op, at |-> q.at, expected |-> q.expected]]
    BY <1>1, <2>3, <2>4 DEF S3!LateView
  <2>6. S3!Contract!Lose(c)
    BY <1>1, <1>2, <1>4, <2>1, <2>2, <2>5
       DEF S3!LoseAnswer, S3!Contract!Lose, S3!Contract!Writes, S3!Writes
  <2> QED
    BY <2>6 DEF S3!Contract!Next
<1>5. CASE S3!LateArrival(c)
  <2>1. PICK r : r = h[c]
    OBVIOUS
  <2>2. /\ strays'[c] = S3!NoRequest(strays[c].at)
        /\ \A d \in Clients : d # c => strays'[d] = strays[d]
    BY <1>5 DEF S3!LateArrival, S3Inv, S3!TypeOK
  <2>3. S3!LateView(c)' = [op |-> "none", at |-> r.at, expected |-> 0]
    BY <1>3, <2>1, <2>2 DEF S3!LateView, S3!NoRequest
  <2>4. PICK z : z = S3!LateView(c)'
    OBVIOUS
  <2>5. z = [r EXCEPT !.op = "none", !.expected = 0]
    <3>1. r = [op |-> strays[c].op, at |-> strays[c].at, expected |-> strays[c].expected]
      BY <1>1, <2>1 DEF S3!LateView
    <3>2. /\ r \in [op : {strays[c].op, "none"}, at : {strays[c].at},
                    expected : {strays[c].expected, 0}]
          /\ z \in [op : {strays[c].op, "none"}, at : {strays[c].at},
                    expected : {strays[c].expected, 0}]
          /\ z.op = "none" /\ z.at = r.at /\ z.expected = 0
      BY <2>3, <2>4, <3>1
    <3> QED
      BY <3>2, S3LateExcept
  <2>6. [d \in Clients |-> S3!LateView(d)'] =
          [h EXCEPT ![c].op = "none", ![c].expected = 0]
    BY <1>1, <2>1, <2>2, <2>4, <2>5 DEF S3!LateView
  <2>7. /\ strays[c].op \in S3!Writes /\ PutOK(strays[c])
    BY <1>5 DEF S3!LateArrival, S3Inv, LateOK
  <2>8. \/ \E v \in Contents : S3!Contract!Takes(r, v)
        \/ UNCHANGED <<bucket, etags>>
    <3>1. CASE S3!Put(strays[c])
      <4>1. PICK v \in Contents : v = strays[c].body
        BY <2>7 DEF PutOK
      <4>2. S3!Contract!Accepts(r)
        BY <1>3, <2>1, <2>7, <3>1
           DEF S3!Put, S3!Holds, PutOK, S3!Contract!Accepts, S3!Writes
      <4>3. S3!Contract!Takes(r, v)
        BY <1>3, <2>1, <3>1, <4>1, <4>2 DEF S3!Put, S3!Contract!Takes
      <4> QED
        BY <4>3
    <3> QED
      BY <1>5, <3>1 DEF S3!LateArrival
  <2>9. UNCHANGED [d \in Clients |-> S3!View(d)]
    BY <1>5 DEF S3!LateArrival, S3!View, S3!Status
  <2>10. r.op # "none"
    BY <1>3, <2>1, <2>7 DEF S3!Writes
  <2>11. S3!Contract!Arrive(c)
    BY <1>1, <2>1, <2>6, <2>8, <2>9, <2>10 DEF S3!Contract!Arrive
  <2> QED
    BY <2>11 DEF S3!Contract!Next
<1> QED
  BY <1>4, <1>5

\* A call begins, and a caller takes its result or dies.
LEMMA S3CallRefines ==
    ASSUME S3Inv, NEW c \in Clients, S3!Start(c) \/ S3!Leave(c)
    PROVE  S3!Contract!Next
<1>1. PICK f : f = [d \in Clients |-> S3!View(d)]
  OBVIOUS
<1>2. UNCHANGED <<bucket, etags, strays>> /\ UNCHANGED [d \in Clients |-> S3!LateView(d)]
  BY S3LateSame DEF S3!Start, S3!Leave
<1>3. CASE S3!Start(c)
  <2>1. PICK op \in S3!Writes \cup {"get"}, l \in Locations,
             v \in etags \cup {0}, body \in Contents \cup {0} :
          task' = [task EXCEPT ![c] =
                     S3!Idle([op |-> op, at |-> l, expected |-> v, body |-> body])]
    BY <1>3 DEF S3!Start
  <2>2. PICK k : k = S3!Idle([op |-> op, at |-> l, expected |-> v, body |-> body])
    OBVIOUS
  <2>3. /\ step' = [step EXCEPT ![c] = "sent"] /\ task' = [task EXCEPT ![c] = k]
        /\ k.request.op = op /\ k.request.at = l /\ k.request.expected = v
        /\ k.seen = 0
    BY <1>3, <2>1, <2>2 DEF S3!Start, S3!Goto, S3!Idle
  <2>4. /\ step'[c] = "sent" /\ task'[c] = k
        /\ \A d \in Clients : d # c => S3!View(d)' = S3!View(d)
    BY <2>3, S3OtherViews DEF S3Inv
  <2>5. S3!View(c)' = [op |-> op, at |-> l, expected |-> v,
                       status |-> "pending", seen |-> 0]
    BY <2>3, <2>4 DEF S3!View, S3!Status
  <2>6. [d \in Clients |-> S3!View(d)'] =
          [f EXCEPT ![c] = [op |-> op, at |-> l, expected |-> v,
                            status |-> "pending", seen |-> 0]]
    BY <1>1, <2>4, <2>5
  <2>7. f[c].status = "idle"
    BY <1>1, <1>3 DEF S3!Start, S3!View, S3!Status
  <2>8. op \in S3!Contract!Ops \ {"none"} /\ v \in Contents \cup {0}
    BY DEF S3!Writes, S3!Contract!Ops, S3Inv, S3!TypeOK
  <2>9. S3!Contract!Invoke(c)
    BY <1>1, <1>2, <2>6, <2>7, <2>8 DEF S3!Contract!Invoke
  <2> QED
    BY <2>9 DEF S3!Contract!Next
<1>4. CASE S3!Leave(c)
  <2>1. PICK k : k = S3!Idle(S3!NoRequest(task[c].request.at))
    OBVIOUS
  <2>2. /\ step' = [step EXCEPT ![c] = "idle"] /\ task' = [task EXCEPT ![c] = k]
        /\ step[c] # "idle"
    BY <1>4, <2>1 DEF S3!Leave, S3!Goto
  <2>3. /\ step'[c] = "idle" /\ task'[c] = k
        /\ \A d \in Clients : d # c => S3!View(d)' = S3!View(d)
    BY <2>2, S3OtherViews DEF S3Inv
  <2>4. S3!View(c)' = S3!Contract!Idle(task[c].request.at)
    BY <2>1, <2>3 DEF S3!View, S3!Status, S3!Idle, S3!NoRequest, S3!Contract!Idle
  <2>5. f[c].status # "idle" /\ f[c].at = task[c].request.at
    <3>1. task[c].result # "idle"
      BY DEF S3Inv, S3!TypeOK, S3!Calls
    <3> QED
      BY <1>1, <2>2, <3>1 DEF S3!View, S3!Status
  <2>6. [d \in Clients |-> S3!View(d)'] = [f EXCEPT ![c] = S3!Contract!Idle(f[c].at)]
    BY <1>1, <2>3, <2>4, <2>5
  <2>7. S3!Contract!Leave(c)
    BY <1>1, <1>2, <2>5, <2>6 DEF S3!Contract!Leave
  <2> QED
    BY <2>7 DEF S3!Contract!Next
<1> QED
  BY <1>3, <1>4

\* Every step is a step of the contract or leaves its state alone, but for the
\* answer 409.
LEMMA S3NextRefines ==
    ASSUME S3Inv, [S3!Next]_(S3!vars)
    PROVE  [S3!Contract!Next \/ \E c \in Clients : S3!Compete(c)]_(S3!Contract!vars)
<1>1. CASE UNCHANGED S3!vars
  BY <1>1 DEF S3!vars, S3!Contract!vars, S3!View, S3!LateView, S3!Status
<1>2. ASSUME NEW l \in Locations, S3!Delete(l)
      PROVE  S3!Contract!Next
  <2>1. S3!Contract!Delete(l)
    BY <1>2 DEF S3!Delete, S3!Contract!Delete, S3!View, S3!LateView, S3!Status
  <2> QED
    BY <2>1 DEF S3!Contract!Next
<1> QED
  BY <1>1, <1>2, S3CallRefines, S3LateRefines, S3ServeRefines, S3ResultRefines
     DEF S3!Next

\* The empty bucket is the contract's initial state.
LEMMA S3InitRefines == S3!Init => S3!Contract!Init
<1> SUFFICES ASSUME S3!Init
             PROVE  S3!Contract!Init
  OBVIOUS
<1>1. PICK l \in Locations : /\ task = [c \in Clients |-> S3!Idle(S3!NoRequest(l))]
                             /\ strays = [c \in Clients |-> S3!NoRequest(l)]
  BY DEF S3!Init
<1>2. \A c \in Clients : S3!View(c) = S3!Contract!Idle(l)
  BY <1>1 DEF S3!Init, S3!View, S3!Status, S3!Idle, S3!NoRequest, S3!Contract!Idle
<1>3. PICK at : at = [c \in Clients |-> l]
  OBVIOUS
<1>4. /\ at \in [Clients -> Locations]
      /\ [c \in Clients |-> S3!View(c)] = [c \in Clients |-> S3!Contract!Idle(at[c])]
  BY <1>2, <1>3
<1>5. \A c \in Clients : S3!LateView(c) = [op |-> "none", at |-> l, expected |-> 0]
  BY <1>1 DEF S3!LateView, S3!NoRequest
<1>6. [op |-> "none", at |-> l, expected |-> 0]
        \in {r \in S3!Contract!Requests : r.op = "none"}
  BY DEF S3!Contract!Requests
<1>7. [c \in Clients |-> S3!LateView(c)]
        \in [Clients -> {r \in S3!Contract!Requests : r.op = "none"}]
  BY <1>5, <1>6
<1> QED
  BY <1>4, <1>7 DEF S3!Init, S3!Contract!Init

\* The S3 adapter provides the contract of the ObjectStore trait for every
\* number of clients, keys and contents, with answers lost, PUTs arriving
\* after their caller gave up and objects deleted by others; the one step that
\* the contract does not have is the answer 409 to one of two competing PUTs,
\* which refuses it and changes nothing else: Linearizable.
THEOREM S3Linearizable == S3!Spec => S3!Linearizable
  BY S3InitInv, S3NextInv, S3InitRefines, S3NextRefines, PTL
     DEF S3!Spec, S3!Linearizable

\* On a service that never answers 409 the adapter implements the contract as
\* it stands: create and replace report a failed condition (store.rs:101, 133)
\* only if it failed at some moment of the call.
THEOREM S3StrictWithoutCompetition ==
    S3!Spec /\ [][\A c \in Clients : ~S3!Compete(c)]_(S3!vars)
      => S3!Contract!Spec
<1>1. [S3!Next]_(S3!vars) /\ [\A c \in Clients : ~S3!Compete(c)]_(S3!vars) /\ S3Inv
        => [S3!Contract!Next]_(S3!Contract!vars)
  <2>1. CASE UNCHANGED S3!vars
    BY <2>1 DEF S3!vars, S3!Contract!vars, S3!View, S3!LateView, S3!Status
  <2>2. CASE \A c \in Clients : ~S3!Compete(c)
    BY <2>2, S3NextRefines
  <2> QED
    BY <2>1, <2>2
<1> QED
  BY <1>1, S3InitInv, S3NextInv, S3InitRefines, PTL
     DEF S3!Spec, S3!Contract!Spec
============================================================================
